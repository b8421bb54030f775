CONSTANTS
  Alerts = {a1, a2, a3}
  NoAlert = NoAlert
  KeyOf <- MCKeyOf
  Related <- MCRelated
  Workers = {w1, w2}
  Analysts = {}
  Decisions = {"closed_fp", "closed_benign"}
  Conclusions = {}
  MaxSize = 3
  MaxPerCase = 2
  Tolerance = 1
SPECIFICATION Spec
SYMMETRY MCSymmetry
INVARIANTS
  CountMatchesMembers
  OneAbsorbingHead
  DecidedOnWhatWasSeen
  ReceiptTellsTruth
CHECK_DEADLOCK FALSE
