CONSTANTS
  Alerts = {a1, a2}
  NoAlert = NoAlert
  KeyOf <- MCKeyOf
  Related <- MCRelated
  Workers = {w1, w2}
  Analysts = {u1, u2}
  Decisions = {"closed_fp"}
  Conclusions = {"concluded_fp", "confirmed_incident"}
  MaxSize = 2
  MaxPerCase = 2
  Tolerance = 0
SPECIFICATION Spec
SYMMETRY MCSymmetry
INVARIANTS
  FanOutComplete
  CasesAgree
PROPERTIES
  VerdictsAreFinal
