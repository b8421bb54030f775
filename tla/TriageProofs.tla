---------------------------- MODULE TriageProofs ----------------------------
(***************************************************************************)
(* What the gate lets through, for every document, table, prompt and fact, *)
(* that a triage job commits nothing else, and that the messages it sends  *)
(* are cut to a budget, stay ours, and show the rules the gate decides by. *)
(***************************************************************************)
EXTENDS Triage, Messages, FiniteSetTheorems, SequenceTheorems, WellFoundedInduction, TLAPS

(* The fields of a gate state, so that an update of one keeps the others. *)
GateShape(g) ==
    \E proposed, verdict, reasons, forced_by, missing :
        g = [proposed |-> proposed, verdict |-> verdict, reasons |-> reasons,
             forced_by |-> forced_by, missing |-> missing]

(* A step either leaves the verdict alone or forces it, and says so. *)
Forces(g, h) == /\ h.proposed = g.proposed
                /\ \/ h.verdict = g.verdict /\ h.forced_by = g.forced_by
                   \/ h.verdict = "needs_review" /\ h.forced_by # {}

LEMMA RecordShape ==
    ASSUME NEW proposed, NEW verdict, NEW reasons, NEW forced_by, NEW missing
    PROVE  GateShape([proposed |-> proposed, verdict |-> verdict, reasons |-> reasons,
                      forced_by |-> forced_by, missing |-> missing])
BY DEF GateShape

LEMMA ForceShape ==
    ASSUME NEW g, GateShape(g), NEW step
    PROVE  /\ GateShape(ForceNeedsReview(g, step))
           /\ ForceNeedsReview(g, step).proposed = g.proposed
           /\ ForceNeedsReview(g, step).verdict = "needs_review"
           /\ ForceNeedsReview(g, step).reasons = g.reasons
           /\ ForceNeedsReview(g, step).missing = g.missing
           /\ step \in ForceNeedsReview(g, step).forced_by
<1>1. PICK proposed, verdict, reasons, forced_by, missing :
         g = [proposed |-> proposed, verdict |-> verdict, reasons |-> reasons,
              forced_by |-> forced_by, missing |-> missing]
  BY DEF GateShape
<1>2. ForceNeedsReview(g, step) =
         [proposed |-> proposed, verdict |-> "needs_review", reasons |-> reasons,
          forced_by |-> forced_by \cup {step}, missing |-> missing]
  <2>1. ForceNeedsReview(g, step) = [[g EXCEPT !.verdict = "needs_review"]
                                        EXCEPT !.forced_by = @ \cup {step}]
    BY DEF ForceNeedsReview
  <2>2. [g EXCEPT !.verdict = "needs_review"] =
           [proposed |-> proposed, verdict |-> "needs_review", reasons |-> reasons,
            forced_by |-> forced_by, missing |-> missing]
    BY <1>1
  <2> QED BY <2>1, <2>2
<1>3. GateShape(ForceNeedsReview(g, step))  BY <1>2, RecordShape
<1> QED BY <1>1, <1>2, <1>3

LEMMA StartShape ==
    ASSUME NEW p
    PROVE  /\ GateShape(Start(p))
           /\ Start(p).proposed = p.suggested_action
           /\ Start(p).verdict = p.suggested_action
           /\ Start(p).reasons = p.reasons
           /\ Start(p).forced_by = {}
BY DEF GateShape, Start

(* Step 2 passes only a basis that equals the facts. *)
LEMMA Step2Shape ==
    ASSUME NEW p, NEW facts, NEW g, GateShape(g)
    PROVE  /\ GateShape(Step2(g, p, facts))
           /\ Forces(g, Step2(g, p, facts))
           /\ Step2(g, p, facts).reasons = g.reasons
           /\ Step2(g, p, facts).verdict # "needs_review" =>
                 \A field \in BasisFields : p.basis[field] = facts[field]
<1>1. CASE Mismatched(p, facts) = {}
  <2>1. \A field \in BasisFields : p.basis[field] = facts[field]
    BY <1>1 DEF Mismatched
  <2> QED BY <1>1, <2>1 DEF Step2, Forces
<1>2. CASE Mismatched(p, facts) # {}
  <2>1. Step2(g, p, facts) = ForceNeedsReview(g, "step2")  BY <1>2 DEF Step2
  <2> QED BY <2>1, ForceShape DEF Forces
<1> QED BY <1>1, <1>2

(* Step 3 keeps quoted reasons only, and passes only if one is left. *)
LEMMA Step3Shape ==
    ASSUME NEW blocks, NEW g, GateShape(g)
    PROVE  /\ GateShape(Step3(g, blocks))
           /\ Forces(g, Step3(g, blocks))
           /\ Step3(g, blocks).verdict # "needs_review" =>
                 \E r \in g.reasons : Quoted(r, blocks)
<1> DEFINE survivors == {r \in g.reasons : Quoted(r, blocks)}
           kept == [g EXCEPT !.reasons = survivors]
<1>0. PICK proposed, verdict, reasons, forced_by, missing :
         g = [proposed |-> proposed, verdict |-> verdict, reasons |-> reasons,
              forced_by |-> forced_by, missing |-> missing]
  BY DEF GateShape
<1> HIDE DEF survivors
<1>a. kept = [proposed |-> proposed, verdict |-> verdict, reasons |-> survivors,
              forced_by |-> forced_by, missing |-> missing]
  BY <1>0
<1>b. GateShape(kept)  BY <1>a, RecordShape
<1>1. GateShape(kept) /\ kept.proposed = g.proposed /\ kept.verdict = g.verdict
      /\ kept.forced_by = g.forced_by
  BY <1>0, <1>a, <1>b
<1> USE DEF survivors
<1> HIDE DEF kept
<1>2. CASE survivors = {}
  <2>1. Step3(g, blocks) = ForceNeedsReview(kept, "step3")  BY <1>2 DEF Step3, kept
  <2> QED BY <1>1, <2>1, ForceShape DEF Forces
<1>3. CASE survivors # {}
  <2>1. Step3(g, blocks) = kept  BY <1>3 DEF Step3, kept
  <2> QED BY <1>1, <1>3, <2>1 DEF Forces
<1> QED BY <1>2, <1>3

(* Step 4 passes a false positive only if nothing is missing. *)
LEMMA Step4Shape ==
    ASSUME NEW p, NEW facts, NEW table, NEW g, GateShape(g)
    PROVE  /\ GateShape(Step4(g, p, table, facts))
           /\ Forces(g, Step4(g, p, table, facts))
           /\ Step4(g, p, table, facts).verdict = "false_positive" =>
                 Missing(p, table, facts) = {}
<1> DEFINE m == Missing(p, table, facts)
           noted == [g EXCEPT !.missing = m]
<1>0. PICK proposed, verdict, reasons, forced_by, missing :
         g = [proposed |-> proposed, verdict |-> verdict, reasons |-> reasons,
              forced_by |-> forced_by, missing |-> missing]
  BY DEF GateShape
<1> HIDE DEF m
<1>a. noted = [proposed |-> proposed, verdict |-> verdict, reasons |-> reasons,
               forced_by |-> forced_by, missing |-> m]
  BY <1>0
<1>b. GateShape(noted)  BY <1>a, RecordShape
<1>1. GateShape(noted) /\ noted.proposed = g.proposed /\ noted.verdict = g.verdict
  BY <1>0, <1>a, <1>b
<1> HIDE DEF m, noted
<1>2. CASE g.verdict # "false_positive" \/ m = {}
  <2>1. Step4(g, p, table, facts) = g  BY <1>2 DEF Step4, m
  <2> QED BY <1>2, <2>1 DEF Forces, m
<1>3. CASE ~ (g.verdict # "false_positive" \/ m = {})
  <2>1. Step4(g, p, table, facts) = ForceNeedsReview(noted, "step4")
    BY <1>3 DEF Step4, m, noted
  <2> QED BY <1>1, <2>1, ForceShape DEF Forces
<1> QED BY <1>2, <1>3

LEMMA Step6Shape ==
    ASSUME NEW g, GateShape(g), NEW v
    PROVE  /\ Forces(g, Step6(g, v))
           /\ Step6(g, v).verdict # "needs_review" => Agrees(g, v)
<1>1. CASE Agrees(g, v)  BY <1>1 DEF Step6, Forces
<1>2. CASE ~ Agrees(g, v)
  <2>1. Step6(g, v) = ForceNeedsReview(g, "step6")  BY <1>2 DEF Step6
  <2> QED BY <2>1, ForceShape DEF Forces
<1> QED BY <1>1, <1>2

---------------------------------------------------------------------------
(* security/gate.py, "Verdict transitions are monotone": the verdict is the *)
(* proposer's own or needs_review, and a forced verdict names its step.     *)
THEOREM VerdictMonotone ==
    ASSUME NEW p, NEW facts, NEW blocks, NEW table, NEW v
    PROVE  LET g == Gated(p, facts, blocks, table, v)
           IN  \/ g.verdict = p.suggested_action
               \/ g.verdict = "needs_review" /\ g.forced_by # {}
<1> DEFINE s0 == Start(p)
           s2 == Step2(s0, p, facts)
           s3 == Step3(s2, blocks)
           s4 == Step4(s3, p, table, facts)
           s6 == Step6(s4, v)
<1>0. GateShape(s0) /\ s0.verdict = p.suggested_action  BY StartShape
<1>2. GateShape(s2) /\ Forces(s0, s2)  BY <1>0, Step2Shape
<1>3. GateShape(s3) /\ Forces(s2, s3)  BY <1>2, Step3Shape
<1>4. GateShape(s4) /\ Forces(s3, s4)  BY <1>3, Step4Shape
<1>6. Forces(s4, s6)  BY <1>4, Step6Shape
<1>7. Gated(p, facts, blocks, table, v) = s6  BY DEF Gated, Steps1To5
<1> HIDE DEF s0, s2, s3, s4, s6
<1> QED BY <1>0, <1>2, <1>3, <1>4, <1>6, <1>7 DEF Forces

(* What a false positive that survives steps 1 to 5 rests on. *)
Earned(p, facts, blocks, table) ==
    /\ p.suggested_action = "false_positive"
    /\ \A field \in BasisFields : p.basis[field] = facts[field]
    /\ \E r \in p.reasons : Quoted(r, blocks)
    /\ Missing(p, table, facts) = {}

THEOREM GateEarned ==
    ASSUME NEW p, NEW facts, NEW blocks, NEW table,
           Steps1To5(p, facts, blocks, table).verdict = "false_positive"
    PROVE  Earned(p, facts, blocks, table)
<1> DEFINE s0 == Start(p)
           s2 == Step2(s0, p, facts)
           s3 == Step3(s2, blocks)
           s4 == Step4(s3, p, table, facts)
<1>0. GateShape(s0) /\ s0.verdict = p.suggested_action /\ s0.reasons = p.reasons
  BY StartShape
<1>2. /\ GateShape(s2) /\ Forces(s0, s2) /\ s2.reasons = s0.reasons
      /\ s2.verdict # "needs_review" =>
            \A field \in BasisFields : p.basis[field] = facts[field]
  BY <1>0, Step2Shape
<1>3. /\ GateShape(s3) /\ Forces(s2, s3)
      /\ s3.verdict # "needs_review" => \E r \in s2.reasons : Quoted(r, blocks)
  BY <1>2, Step3Shape
<1>4. /\ Forces(s3, s4)
      /\ s4.verdict = "false_positive" => Missing(p, table, facts) = {}
  BY <1>3, Step4Shape
<1>5. s4.verdict = "false_positive"  BY DEF Steps1To5
<1> HIDE DEF s0, s2, s3, s4
<1>6. s3.verdict = "false_positive"  BY <1>4, <1>5 DEF Forces
<1>7. s2.verdict = "false_positive"  BY <1>3, <1>6 DEF Forces
<1>8. s0.verdict = "false_positive"  BY <1>2, <1>7 DEF Forces
<1> QED BY <1>0, <1>2, <1>3, <1>4, <1>5, <1>6, <1>7, <1>8 DEF Earned

LEMMA MissingNothing ==
    ASSUME NEW p, NEW facts, NEW table, Missing(p, table, facts) = {}
    PROVE  /\ facts["severity"] # "critical"
           /\ facts["ioc_reputation"] \notin {"malicious", "suspicious"}
           /\ facts["asset_criticality"] \notin {"high", "unknown"}
           /\ facts["identity_privileged"] # "true"
           /\ table.reviewed
           /\ \E rule \in table.rules : /\ rule.id = p.rule
                                        /\ rule.action = "false_positive"
                                        /\ RuleMatches(rule, facts)
<1>1. Forbidden(facts) = {} /\ RuleCheck(table, p.rule, facts)
  BY DEF Missing
<1>2. \A field \in {"severity", "ioc_reputation", "asset_criticality", "identity_privileged"} :
         field \in DOMAIN Vocab
  BY DEF Vocab
<1>3. facts["severity"] # "critical"
      /\ facts["ioc_reputation"] \notin {"malicious", "suspicious"}
      /\ facts["asset_criticality"] \notin {"high", "unknown"}
      /\ facts["identity_privileged"] # "true"
  BY <1>1, <1>2 DEF Forbidden
<1> QED BY <1>1, <1>3 DEF RuleCheck
---------------------------------------------------------------------------
(* The shapes of a worker's memory.  From the proposer's answer on it keeps *)
(* the document and the gate state computed from it.                        *)
Claimed(r) ==
    \E a \in Alerts : \E attempt :
        r = [pc |-> "claimed", alert |-> a, paid |-> 0, attempt |-> attempt]

Asking(r) ==
    \E a \in Alerts : \E pc \in {"propose", "propose_again"} :
        \E calling, attempt, paid, facts :
           r = [pc |-> pc, alert |-> a, attempt |-> attempt, calling |-> calling,
                paid |-> paid, facts |-> facts]

Checking(r) ==
    \E a \in Alerts : \E pc \in {"verify", "verify_again"} :
        \E calling, attempt, paid, asked, facts, p :
           r = [pc |-> pc, calling |-> calling, alert |-> a, attempt |-> attempt,
                paid |-> paid, asked |-> asked, facts |-> facts, proposal |-> p,
                gate |-> Steps1To5(p, facts, Blocks[a], Table[a])]

RunInv(r) == r = Idle \/ Claimed(r) \/ Asking(r) \/ Checking(r)

RowsInv(a, rows) == \A r \in rows : Closing(r) => EarnedBy(a, r, rows)

IInv ==
    /\ run = [w \in Workers |-> run[w]]
    /\ llm_runs = [a \in Alerts |-> llm_runs[a]]
    /\ \A w \in Workers : RunInv(run[w])
    /\ \A a \in Alerts : RowsInv(a, llm_runs[a])

LEMMA RowsUnion ==
    ASSUME NEW a, NEW R, NEW S, RowsInv(a, R), RowsInv(a, S)
    PROVE  RowsInv(a, R \cup S)
<1>1. \A r, T, U : EarnedBy(a, r, T) => EarnedBy(a, r, T \cup U) /\ EarnedBy(a, r, U \cup T)
  BY DEF EarnedBy
<1> QED BY <1>1 DEF RowsInv

(* A commit by w keeps the invariant if the rows it adds do. *)
LEMMA CommitKeeps ==
    ASSUME IInv, NEW w \in Workers, NEW rows, NEW status,
           Commit(w, rows, status), run[w].alert \in Alerts,
           RowsInv(run[w].alert, rows)
    PROVE  IInv'
<1>1. run' = [run EXCEPT ![w] = Idle]  BY DEF Commit, Finish
<1>2. run' = [v \in Workers |-> run'[v]] /\ \A v \in Workers : RunInv(run'[v])
  BY <1>1 DEF IInv, RunInv
<1>3. llm_runs' = [llm_runs EXCEPT ![run[w].alert] = @ \cup rows]
  BY DEF Commit
<1>4. llm_runs' = [a \in Alerts |-> llm_runs'[a]]
  BY <1>3 DEF IInv
<1>5. ASSUME NEW a \in Alerts PROVE RowsInv(a, llm_runs'[a])
  <2>1. CASE a = run[w].alert
    <3>1. llm_runs'[a] = llm_runs[a] \cup rows  BY <1>3, <2>1 DEF IInv
    <3>2. RowsInv(a, llm_runs[a])  BY DEF IInv
    <3> QED BY <2>1, <3>1, <3>2, RowsUnion
  <2>2. CASE a # run[w].alert
    <3>1. llm_runs'[a] = llm_runs[a]  BY <1>3, <2>2 DEF IInv
    <3> QED BY <3>1 DEF IInv
  <2> QED BY <2>1, <2>2
<1> QED BY <1>2, <1>4, <1>5 DEF IInv, RowsInv

(* So does a step that adds no row and leaves w's memory well shaped. *)
LEMMA RunKeeps ==
    ASSUME IInv, NEW w \in Workers, NEW r, RunInv(r),
           run' = [run EXCEPT ![w] = r], UNCHANGED llm_runs
    PROVE  IInv'
<1>1. run' = [v \in Workers |-> run'[v]] /\ \A v \in Workers : RunInv(run'[v])
  BY DEF IInv
<1> QED BY <1>1 DEF IInv

(* Rows without a result suggest nothing. *)
LEMMA NoResult ==
    ASSUME NEW a, NEW rows, \A r \in rows : r.role = "proposer" => r.result = Null
    PROVE  RowsInv(a, rows)
BY DEF RowsInv, Closing

LEMMA BusyAlert ==
    ASSUME NEW r, RunInv(r), r.pc # "idle"
    PROVE  r.alert \in Alerts
<1>1. CASE r = Idle  BY <1>1 DEF Idle
<1>2. CASE Claimed(r)  BY <1>2 DEF Claimed
<1>3. CASE Asking(r)  BY <1>3 DEF Asking
<1>4. CASE Checking(r)  BY <1>4 DEF Checking
<1> QED BY <1>1, <1>2, <1>3, <1>4 DEF RunInv

LEMMA Phases ==
    ASSUME NEW r
    PROVE  /\ r = Idle => r.pc = "idle"
           /\ Claimed(r) => r.pc = "claimed"
           /\ Asking(r) => r.pc \in {"propose", "propose_again"}
           /\ Checking(r) => r.pc \in {"verify", "verify_again"}
<1>1. ASSUME r = Idle PROVE r.pc = "idle"  BY <1>1 DEF Idle
<1>2. ASSUME Claimed(r) PROVE r.pc = "claimed"  BY <1>2 DEF Claimed
<1>3. ASSUME Asking(r) PROVE r.pc \in {"propose", "propose_again"}
  BY <1>3 DEF Asking
<1>4. ASSUME Checking(r) PROVE r.pc \in {"verify", "verify_again"}
  BY <1>4 DEF Checking
<1> QED BY <1>1, <1>2, <1>3, <1>4

(* An update of three fields, one field at a time. *)
LEMMA ThreeFields ==
    ASSUME NEW r, NEW x, NEW y, NEW z, NEW q1, NEW q2, NEW q3,
           q1 = [r EXCEPT !.pc = x], q2 = [q1 EXCEPT !.paid = y],
           q3 = [q2 EXCEPT !.calling = z]
    PROVE  [r EXCEPT !.pc = x, !.paid = y, !.calling = z] = q3
OBVIOUS

(* A call's bookkeeping changes pc, paid and calling only. *)
LEMMA AskingOn ==
    ASSUME NEW r, Asking(r), NEW next \in {"propose", "propose_again"}, NEW n, NEW c
    PROVE  /\ Asking([r EXCEPT !.calling = c])
           /\ Asking([r EXCEPT !.pc = next, !.paid = n, !.calling = c])
<1>1. PICK a \in Alerts, pc \in {"propose", "propose_again"} :
         \E calling, attempt, paid, facts :
            r = [pc |-> pc, alert |-> a, attempt |-> attempt,
                 calling |-> calling, paid |-> paid, facts |-> facts]
  BY DEF Asking
<1>2. PICK calling, attempt, paid, facts :
         r = [pc |-> pc, alert |-> a, attempt |-> attempt,
              calling |-> calling, paid |-> paid, facts |-> facts]
  BY <1>1
<1> DEFINE rec(k, m, d) == [pc |-> k, alert |-> a, attempt |-> attempt,
                            calling |-> d, paid |-> m, facts |-> facts]
<1>3. \A k, m, d, e : [rec(k, m, d) EXCEPT !.calling = e] = rec(k, m, e)
  OBVIOUS
<1>6. \A k \in {"propose", "propose_again"} : \A m, d : Asking(rec(k, m, d))
  BY DEF Asking
<1>7. r = rec(pc, paid, calling)  BY <1>2
<1>4. \A k, m, d, e : [rec(k, m, d) EXCEPT !.pc = e] = rec(e, m, d)
  OBVIOUS
<1>5. \A k, m, d, e : [rec(k, m, d) EXCEPT !.paid = e] = rec(k, e, d)
  OBVIOUS
<1> HIDE DEF rec
<1>8. [r EXCEPT !.calling = c] = rec(pc, paid, c)  BY <1>3, <1>7
<1>9. rec(next, paid, calling) = [r EXCEPT !.pc = next]  BY <1>4, <1>7
<1>10. rec(next, n, calling) = [rec(next, paid, calling) EXCEPT !.paid = n]  BY <1>5
<1>11. rec(next, n, c) = [rec(next, n, calling) EXCEPT !.calling = c]  BY <1>3
<1>12. [r EXCEPT !.pc = next, !.paid = n, !.calling = c] = rec(next, n, c)
  BY ONLY <1>9, <1>10, <1>11, ThreeFields
<1> QED BY <1>6, <1>8, <1>12

LEMMA CheckingOn ==
    ASSUME NEW r, Checking(r), NEW next \in {"verify", "verify_again"}, NEW n, NEW c
    PROVE  /\ Checking([r EXCEPT !.calling = c])
           /\ Checking([r EXCEPT !.pc = next, !.paid = n, !.calling = c])
<1>1. PICK a \in Alerts, pc \in {"verify", "verify_again"} :
         \E calling, attempt, paid, asked, facts, p :
            r = [pc |-> pc, calling |-> calling, alert |-> a, attempt |-> attempt,
                 paid |-> paid, asked |-> asked, facts |-> facts, proposal |-> p,
                 gate |-> Steps1To5(p, facts, Blocks[a], Table[a])]
  BY DEF Checking
<1>2. PICK calling, attempt, paid, asked, facts, p :
         r = [pc |-> pc, calling |-> calling, alert |-> a, attempt |-> attempt,
              paid |-> paid, asked |-> asked, facts |-> facts, proposal |-> p,
              gate |-> Steps1To5(p, facts, Blocks[a], Table[a])]
  BY <1>1
<1> DEFINE g == Steps1To5(p, facts, Blocks[a], Table[a])
           rec(k, m, d) == [pc |-> k, calling |-> d, alert |-> a, attempt |-> attempt,
                            paid |-> m, asked |-> asked, facts |-> facts,
                            proposal |-> p, gate |-> g]
<1>6. \A k \in {"verify", "verify_again"} : \A m, d : Checking(rec(k, m, d))
  BY DEF Checking
<1>7. r = rec(pc, paid, calling)  BY <1>2
<1> HIDE DEF g
<1>3. \A k, m, d, e : [rec(k, m, d) EXCEPT !.calling = e] = rec(k, m, e)
  OBVIOUS
<1>4. \A k, m, d, e : [rec(k, m, d) EXCEPT !.pc = e] = rec(e, m, d)
  OBVIOUS
<1>5. \A k, m, d, e : [rec(k, m, d) EXCEPT !.paid = e] = rec(k, e, d)
  OBVIOUS
<1> HIDE DEF rec
<1>8. [r EXCEPT !.calling = c] = rec(pc, paid, c)  BY <1>3, <1>7
<1>9. rec(next, paid, calling) = [r EXCEPT !.pc = next]  BY <1>4, <1>7
<1>10. rec(next, n, calling) = [rec(next, paid, calling) EXCEPT !.paid = n]  BY <1>5
<1>11. rec(next, n, c) = [rec(next, n, calling) EXCEPT !.calling = c]  BY <1>3
<1>12. [r EXCEPT !.pc = next, !.paid = n, !.calling = c] = rec(next, n, c)
  BY ONLY <1>9, <1>10, <1>11, ThreeFields
<1> QED BY <1>6, <1>8, <1>12

LEMMA IdleKeeps ==
    ASSUME IInv, NEW w \in Workers, run' = [run EXCEPT ![w] = Idle], UNCHANGED llm_runs
    PROVE  IInv'
BY RunKeeps DEF RunInv

LEMMA FailureKeeps ==
    ASSUME IInv, NEW w \in Workers, NEW why, run[w].pc # "idle",
           Commit(w, FailureRows(w, why), "unavailable")
    PROVE  IInv'
<1>1. run[w].alert \in Alerts  BY BusyAlert DEF IInv
<1>2. \A r \in FailureRows(w, why) : r.role = "proposer" => r.result = Null
  BY DEF FailureRows, Row
<1>3. RowsInv(run[w].alert, FailureRows(w, why))  BY <1>2, NoResult
<1> QED BY <1>1, <1>3, CommitKeeps

(* The only rows with a result: a gated document and its verification. *)
LEMMA ReadyKeeps ==
    ASSUME IInv, NEW w \in Workers, NEW v, Verifying(w), Ready(w, v)
    PROVE  IInv'
<1> DEFINE a == run[w].alert
           p == run[w].proposal
           facts == run[w].facts
           before == Steps1To5(p, facts, Blocks[a], Table[a])
           g == Step6(run[w].gate, v)
           proposer == Row(w, "proposer", [verdict |-> g.verdict, proposal |-> p],
                           run[w].asked, "none")
           verifier == Row(w, "verifier", v, run[w].paid + 1 - run[w].asked,
                           IF v = Null THEN "schema" ELSE "none")
           rows == {proposer, verifier}
<1>1. Checking(run[w])
  <2>1. run[w].pc \in {"verify", "verify_again"} /\ RunInv(run[w])
    BY DEF Verifying, IInv
  <2> QED BY <2>1, Phases DEF RunInv
<1>2. a \in Alerts /\ run[w].gate = before
  BY <1>1 DEF Checking
<1>3. Commit(w, rows, "ready")
  BY DEF Ready
<1>4. /\ proposer.role = "proposer" /\ proposer.facts = facts
      /\ proposer.attempt = run[w].attempt
      /\ proposer.result.verdict = g.verdict /\ proposer.result.proposal = p
  BY DEF Row
<1>5. /\ verifier.role = "verifier" /\ verifier.result = v
      /\ verifier.attempt = run[w].attempt
  BY DEF Row
<1>6. ASSUME g.verdict = "false_positive"
      PROVE  EarnedBy(a, proposer, rows)
  <2>1. GateShape(before)
    <3>1. GateShape(Start(p))  BY StartShape
    <3>2. GateShape(Step2(Start(p), p, facts))  BY <3>1, Step2Shape
    <3>3. GateShape(Step3(Step2(Start(p), p, facts), Blocks[a]))  BY <3>2, Step3Shape
    <3> QED BY <3>3, Step4Shape DEF Steps1To5
  <2>2. Forces(before, g) /\ Agrees(before, v)
    BY <1>2, <1>6, <2>1, Step6Shape
  <2>3. before.verdict = "false_positive"
    BY <1>6, <2>2 DEF Forces
  <2>4. Earned(p, facts, Blocks[a], Table[a])
    BY <2>3, GateEarned
  <2>5. v # Null /\ v.agree /\ v.verdict = "false_positive"
    BY <2>2, <2>3 DEF Agrees
  <2>6. Missing(p, Table[a], facts) = {}
    BY <2>4 DEF Earned
  <2> HIDE DEF a, p, facts, before, g, proposer, verifier
  <2>7. \E s \in rows : /\ s.role = "verifier" /\ s.attempt = proposer.attempt
                        /\ s.result # Null /\ s.result.agree
                        /\ s.result.verdict = "false_positive"
    BY <1>4, <1>5, <2>5
  <2>8. /\ facts["severity"] # "critical"
        /\ facts["ioc_reputation"] \notin {"malicious", "suspicious"}
        /\ facts["asset_criticality"] \notin {"high", "unknown"}
        /\ facts["identity_privileged"] # "true"
        /\ Table[a].reviewed
        /\ \E rule \in Table[a].rules : /\ rule.id = p.rule
                                        /\ rule.action = "false_positive"
                                        /\ RuleMatches(rule, facts)
    BY <2>6, MissingNothing
  <2> QED BY <1>4, <2>4, <2>7, <2>8 DEF EarnedBy, Earned
<1>7. RowsInv(a, rows)
  <2> HIDE DEF a, p, facts, before, g, proposer, verifier
  <2>1. ~ Closing(verifier)  BY <1>5 DEF Closing
  <2>2. Closing(proposer) => EarnedBy(a, proposer, rows)
    BY <1>4, <1>6 DEF Closing
  <2> QED BY <2>1, <2>2 DEF RowsInv
<1> HIDE DEF rows
<1> QED BY <1>2, <1>3, <1>7, CommitKeeps

---------------------------------------------------------------------------
LEMMA Initially == Init => IInv
BY DEF Init, IInv, RunInv, RowsInv

LEMMA WorkKeeps ==
    ASSUME IInv, NEW w \in Workers, Work(w)
    PROVE  IInv'
<1>0. RunInv(run[w])  BY DEF IInv
<1>1. ASSUME NEW a \in Alerts, Claim(w, a) PROVE IInv'
  <2> DEFINE r == [pc |-> "claimed", alert |-> a, paid |-> 0, attempt |-> job[a].attempts + 1]
  <2>1. RunInv(r)  BY DEF RunInv, Claimed
  <2>2. run' = [run EXCEPT ![w] = r] /\ UNCHANGED llm_runs  BY <1>1 DEF Claim
  <2> HIDE DEF r
  <2> QED BY <2>1, <2>2, RunKeeps
<1>2. CASE Skip(w)  BY <1>2, IdleKeeps DEF Skip, Finish
<1>3. CASE Load(w)
  <2>1. run[w].alert \in Alerts  BY <1>0, <1>3, BusyAlert DEF Load
  <2> DEFINE r == [pc |-> "propose", alert |-> run[w].alert, attempt |-> run[w].attempt,
                   calling |-> FALSE, paid |-> 0, facts |-> Facts(run[w].alert)]
  <2>2. RunInv(r)  BY <2>1 DEF RunInv, Asking
  <2>3. run' = [run EXCEPT ![w] = r] /\ UNCHANGED llm_runs  BY <1>3 DEF Load
  <2> HIDE DEF r
  <2> QED BY <2>2, <2>3, RunKeeps
<1>4. CASE Disabled(w)
  <2>1. run[w].alert \in Alerts /\ Commit(w, {}, "unavailable")
    BY <1>0, <1>4, BusyAlert DEF Disabled
  <2> QED BY <2>1, NoResult, CommitKeeps
<1>5. CASE LinterStops(w)
  <2> DEFINE rows == {Row(w, "proposer", Null, 0, "linter")}
  <2>1. run[w].alert \in Alerts /\ Commit(w, rows, "unavailable")
    BY <1>0, <1>5, BusyAlert DEF LinterStops
  <2>2. RowsInv(run[w].alert, rows)  BY NoResult DEF Row
  <2> HIDE DEF rows
  <2> QED BY <2>1, <2>2, CommitKeeps
<1>6. CASE Dial(w)
  <2> DEFINE r == [run[w] EXCEPT !.calling = TRUE]
  <2>1. run[w].pc \in {"propose", "propose_again", "verify", "verify_again"}
    BY <1>6 DEF Dial, Proposing, Verifying
  <2>2. Asking(run[w]) \/ Checking(run[w])  BY <1>0, <2>1, Phases DEF RunInv
  <2>3. RunInv(r)  BY <2>2, AskingOn, CheckingOn DEF RunInv
  <2>4. run' = [run EXCEPT ![w] = r] /\ UNCHANGED llm_runs
    BY <1>6 DEF Dial, IInv
  <2> HIDE DEF r
  <2> QED BY <2>3, <2>4, RunKeeps
<1>7. CASE CapStops(w)
  <2>1. run[w].pc # "idle"  BY <1>7 DEF CapStops, Proposing, Verifying
  <2> QED BY <1>7, <2>1, FailureKeeps DEF CapStops
<1>8. CASE CallFails(w)
  <2>1. run[w].pc # "idle"  BY <1>8 DEF CallFails, Calling, Proposing, Verifying
  <2>2. CASE Raise(w, "transient")  BY <2>2, IdleKeeps DEF Raise, Finish
  <2>3. CASE Commit(w, FailureRows(w, "transient"), "unavailable")
    BY <2>1, <2>3, FailureKeeps
  <2> QED BY <1>8, <2>2, <2>3 DEF CallFails
<1>9. CASE CallRaises(w) \/ LoadRaises(w) \/ PromptRaises(w) \/ DatabaseFails(w)
  <2>1. PICK error : Raise(w, error)
    BY <1>9 DEF CallRaises, LoadRaises, PromptRaises, DatabaseFails
  <2> QED BY <2>1, IdleKeeps DEF Raise, Finish
<1>10. CASE Invalid(w)
  <2> DEFINE again == IF run[w].pc = "propose" THEN "propose_again" ELSE "verify_again"
             r == [run[w] EXCEPT !.pc = again, !.paid = run[w].paid + 1, !.calling = FALSE]
  <2>1. run[w].pc \in {"propose", "verify"}  BY <1>10 DEF Invalid
  <2>2. RunInv(r)
    <3>1. CASE run[w].pc = "propose"
      <4>1. Asking(run[w])  BY <1>0, <3>1, Phases DEF RunInv
      <4>2. again = "propose_again"  BY <3>1
      <4> HIDE DEF again
      <4> QED BY <4>1, <4>2, AskingOn DEF RunInv
    <3>2. CASE run[w].pc = "verify"
      <4>1. Checking(run[w])  BY <1>0, <3>2, Phases DEF RunInv
      <4>2. again = "verify_again"  BY <3>2
      <4> HIDE DEF again
      <4> QED BY <4>1, <4>2, CheckingOn DEF RunInv
    <3> QED BY <2>1, <3>1, <3>2
  <2>3. run' = [run EXCEPT ![w] = r] /\ UNCHANGED llm_runs
    BY <1>10 DEF Invalid, IInv
  <2> HIDE DEF r
  <2> QED BY <2>2, <2>3, RunKeeps
<1>11. CASE InvalidAgain(w)
  <2> DEFINE rows == {Row(w, "proposer", Null, run[w].paid + 1, "schema")}
  <2>1. run[w].alert \in Alerts /\ Commit(w, rows, "unavailable")
    BY <1>0, <1>11, BusyAlert DEF InvalidAgain
  <2>2. RowsInv(run[w].alert, rows)  BY NoResult DEF Row
  <2> HIDE DEF rows
  <2> QED BY <2>1, <2>2, CommitKeeps
<1>12. CASE Proposed(w)
  <2>1. run[w].alert \in Alerts  BY <1>0, <1>12, BusyAlert DEF Proposed, Calling, Proposing
  <2>2. PICK p \in Documents :
           run' = [run EXCEPT ![w] =
                     [pc |-> "verify", calling |-> FALSE, alert |-> run[w].alert,
                      attempt |-> run[w].attempt, paid |-> run[w].paid + 1,
                      asked |-> run[w].paid + 1, facts |-> run[w].facts, proposal |-> p,
                      gate |-> Steps1To5(p, run[w].facts, Blocks[run[w].alert],
                                         Table[run[w].alert])]]
    BY <1>12 DEF Proposed
  <2> DEFINE r == [pc |-> "verify", calling |-> FALSE, alert |-> run[w].alert,
                   attempt |-> run[w].attempt, paid |-> run[w].paid + 1,
                   asked |-> run[w].paid + 1, facts |-> run[w].facts, proposal |-> p,
                   gate |-> Steps1To5(p, run[w].facts, Blocks[run[w].alert],
                                      Table[run[w].alert])]
  <2>3. Checking(r)  BY <2>1 DEF Checking
  <2>4. UNCHANGED llm_runs  BY <1>12 DEF Proposed
  <2> QED BY <2>2, <2>3, <2>4, RunKeeps DEF RunInv
<1>13. CASE Verified(w)
  <2>1. PICK v \in Verifications : Ready(w, v)  BY <1>13 DEF Verified
  <2>2. Verifying(w)  BY <1>13 DEF Verified
  <2> QED BY <2>1, <2>2, ReadyKeeps
<1>14. CASE VerifierInvalidAgain(w)
  <2>1. Verifying(w) /\ Ready(w, Null)
    BY <1>14 DEF VerifierInvalidAgain, Verifying
  <2> QED BY <2>1, ReadyKeeps
<1> QED BY <1>1, <1>2, <1>3, <1>4, <1>5, <1>6, <1>7, <1>8, <1>9, <1>10, <1>11, <1>12,
           <1>13, <1>14 DEF Work

LEMMA Inductive == IInv /\ [Next]_vars => IInv'
<1> SUFFICES ASSUME IInv, [Next]_vars PROVE IInv'
  OBVIOUS
<1>1. CASE UNCHANGED vars  BY <1>1 DEF vars, IInv, RowsInv
<1>2. ASSUME NEW w \in Workers, Work(w) PROVE IInv'  BY <1>2, WorkKeeps
<1>3. ASSUME NEW w \in Workers, Crash(w) PROVE IInv'
  BY <1>3, IdleKeeps DEF Crash
<1>4. ASSUME NEW a \in Alerts, Reclaim(a) \/ Merge(a) \/ Acknowledge(a) \/ Decide(a)
      PROVE IInv'
  <2>1. UNCHANGED <<run, llm_runs>>
    BY <1>4 DEF Reclaim, Merge, Acknowledge, Decide
  <2> QED BY <2>1 DEF IInv, RowsInv
<1> QED BY <1>1, <1>2, <1>3, <1>4 DEF Next

(* Every suggestion to close that is ever stored was earned: whatever the   *)
(* model answers, whatever the tables say and however runs interleave.      *)
THEOREM FalsePositivesAreEarned == Spec => []FalsePositiveEarned
<1>1. IInv => FalsePositiveEarned  BY DEF IInv, RowsInv, FalsePositiveEarned
<1> QED BY <1>1, Initially, Inductive, PTL DEF Spec

---------------------------------------------------------------------------
(* The job around the gate: who works on an alert, what a commit adds to   *)
(* its rows, and what it adds to the month's spending.                     *)

(* What a worker's memory says of its calls. *)
Fields(r) ==
    /\ r.pc # "idle" => r.attempt \in Nat
    /\ r.pc \in {"propose", "propose_again"} =>
          r.calling \in BOOLEAN /\ r.paid = IF r.pc = "propose" THEN 0 ELSE 1
    /\ r.pc \in {"verify", "verify_again"} =>
          /\ r.calling \in BOOLEAN /\ r.asked \in 1 .. 2
          /\ r.paid = IF r.pc = "verify" THEN r.asked ELSE r.asked + 1
          /\ r.proposal \in Documents

AlertRows == [status: {"queued_tier1", "tier1_active"} \cup Closed, occurrence_count: Nat,
              triage_status: {"pending", "ready", "unavailable"}, triaged_count: Nat]
(* What a handler may raise; only the first is its own to settle. *)
Errors == {"transient", "server", "permanent", "retried"}
JobRows == [status: {"pending", "running", "succeeded", "failed"}, attempts: Nat,
            error: {"none"} \cup Errors]

Typed == /\ alert \in [Alerts -> AlertRows]
         /\ job \in [Alerts -> JobRows]
         /\ spent \in Nat
         /\ \A w \in Workers : Fields(run[w])

(* A worker at work on an alert. *)
On(w, a) == Busy(w) /\ run[w].alert = a

(* Until a lease is lost under it, a worker has its alert for itself. *)
Alone == \A a \in Alerts \ overtaken :
            /\ \A v, w \in Workers : On(v, a) /\ On(w, a) => v = w
            /\ \A w \in Workers : On(w, a) => job[a].status = "running"

(* The proposer row of an alert comes with the end of its job. *)
OneRow == \A a \in Alerts \ overtaken :
             /\ job[a].status # "succeeded" => Proposers(a) = {}
             /\ \A r, s \in Proposers(a) : r = s
             /\ \A r \in Proposers(a) :
                   alert[a].triage_status = IF r.result = Null THEN "unavailable" ELSE "ready"

(* How a job fails, and by which errors alone. *)
Failure(error, attempts) ==
    \/ error = "permanent"
    \/ error \in {"server", "retried"} /\ attempts >= JobMaxAttempts

Settled == \A a \in Alerts :
              /\ alert[a].triage_status = "pending" /\ job[a].status = "succeeded" =>
                    alert[a].status \in Closed
              /\ job[a].status = "failed" => Failure(job[a].error, job[a].attempts)

(* A worker's attempt is one its job has counted. *)
Counted == \A w \in Workers : Busy(w) => run[w].attempt <= job[run[w].alert].attempts

(* Whoever has something to bill went to the model while there was room. *)
Owes(r) == \/ r.pc \in {"propose_again", "verify", "verify_again"}
           \/ r.pc = "propose" /\ r.calling
Clear == {w \in Workers : ~ Owes(run[w])}
WithinReach == spent < Cap \/ spent < Cap + 4 * Cardinality(Clear)

JobInv == IInv /\ Typed /\ Alone /\ OneRow /\ Counted /\ Settled /\ WithinReach

---------------------------------------------------------------------------
(* What a step of a worker does, the handler's detail left aside. *)

(* It stays on its alert, and bills more only if the cap allows. *)
Moves(w) ==
    /\ Busy(w)
    /\ \E r : /\ run' = [run EXCEPT ![w] = r]
              /\ r.pc # "idle" /\ r.alert = run[w].alert /\ r.attempt = run[w].attempt
              /\ Fields(r)
              /\ Owes(r) => Owes(run[w]) \/ spent < Cap
    /\ UNCHANGED <<alert, job, llm_runs, spent, overtaken>>

(* The rows of a commit: at most one proposer, whose result is the status, *)
(* and no cost unless a call was made.                                     *)
Outcome(w, rows, status) ==
    /\ status \in {"ready", "unavailable"}
    /\ \A r, s \in rows : r.role = "proposer" /\ s.role = "proposer" => r = s
    /\ \A r \in rows : r.role = "proposer" =>
          status = IF r.result = Null THEN "unavailable" ELSE "ready"
    /\ RowsCost(rows) \in 0 .. 4
    /\ Owes(run[w]) \/ RowsCost(rows) = 0

Commits(w) == /\ Busy(w)
              /\ \E rows, status : Commit(w, rows, status) /\ Outcome(w, rows, status)

Raises(w) == /\ Busy(w)
             /\ \E error \in Errors :
                   /\ Raise(w, error)
                   /\ error = "transient" => run[w].attempt < JobMaxAttempts

LEMMA CostOfOne ==
    ASSUME NEW r, r.role = "proposer", r.cost \in Nat PROVE RowsCost({r}) = r.cost
<1>1. ~ \E s \in {r} : s.role = "verifier"  OBVIOUS
<1>2. (CHOOSE s \in {r} : s.role = "proposer") = r  OBVIOUS
<1>3. \E s \in {r} : s.role = "proposer"  OBVIOUS
<1> QED BY <1>1, <1>2, <1>3 DEF RowsCost

LEMMA CostOfTwo ==
    ASSUME NEW r, NEW s, r.role = "proposer", s.role = "verifier"
    PROVE  RowsCost({r, s}) = r.cost + s.cost
<1>1. (CHOOSE t \in {r, s} : t.role = "proposer") = r  OBVIOUS
<1>2. (CHOOSE t \in {r, s} : t.role = "verifier") = s  OBVIOUS
<1>3. (\E t \in {r, s} : t.role = "proposer") /\ (\E t \in {r, s} : t.role = "verifier")  OBVIOUS
<1> QED BY <1>1, <1>2, <1>3 DEF RowsCost

LEMMA FailureOutcome ==
    ASSUME IInv, Typed, NEW w \in Workers, Proposing(w) \/ Verifying(w), NEW why
    PROVE  Outcome(w, FailureRows(w, why), "unavailable")
<1>1. CASE Verifying(w)
  <2> DEFINE p == Row(w, "proposer", Null, run[w].asked, why)
             v == Row(w, "verifier", Null, 0, why)
  <2>1. /\ p.role = "proposer" /\ p.result = Null /\ p.cost = run[w].asked
        /\ v.role = "verifier" /\ v.cost = 0
    BY DEF Row
  <2>2. run[w].asked \in 1 .. 2 /\ Owes(run[w])
    BY <1>1 DEF Verifying, Typed, Fields, Owes
  <2>3. FailureRows(w, why) = {p, v}
    BY <1>1 DEF FailureRows
  <2> HIDE DEF p, v
  <2>4. RowsCost({p, v}) = run[w].asked
    BY <2>1, <2>2, CostOfTwo
  <2> QED BY <2>1, <2>2, <2>3, <2>4 DEF Outcome
<1>2. CASE ~ Verifying(w)
  <2> DEFINE p == Row(w, "proposer", Null, 0, why)
  <2>1. p.role = "proposer" /\ p.result = Null /\ p.cost = 0
    BY DEF Row
  <2>2. FailureRows(w, why) = {p}
    BY <1>2 DEF FailureRows
  <2> HIDE DEF p
  <2>3. RowsCost({p}) = 0
    BY <2>1, CostOfOne
  <2> QED BY <2>1, <2>2, <2>3 DEF Outcome
<1> QED BY <1>1, <1>2

(* The verdict of a gated document is one of the three. *)
LEMMA GatedVerdict ==
    ASSUME NEW p \in Documents, NEW facts, NEW blocks, NEW table, NEW v
    PROVE  Step6(Steps1To5(p, facts, blocks, table), v).verdict \in Verdicts
<1>1. Gated(p, facts, blocks, table, v) = Step6(Steps1To5(p, facts, blocks, table), v)
  BY DEF Gated
<1>2. p.suggested_action \in Verdicts /\ "needs_review" \in Verdicts
  BY DocumentAssumption DEF Verdicts
<1> QED BY <1>1, <1>2, VerdictMonotone

LEMMA ReadyOutcome ==
    ASSUME IInv, Typed, NEW w \in Workers, Verifying(w), NEW v, Ready(w, v)
    PROVE  Commits(w)
<1> DEFINE g == Step6(run[w].gate, v)
           result == [verdict |-> g.verdict, proposal |-> run[w].proposal]
           p == Row(w, "proposer", result, run[w].asked, "none")
           q == Row(w, "verifier", v, run[w].paid + 1 - run[w].asked,
                    IF v = Null THEN "schema" ELSE "none")
<1>1. Checking(run[w])
  <2>1. run[w].pc \in {"verify", "verify_again"} /\ RunInv(run[w])
    BY DEF Verifying, IInv
  <2> QED BY <2>1, Phases DEF RunInv
<1>2. /\ run[w].asked \in 1 .. 2 /\ Owes(run[w]) /\ run[w].proposal \in Documents
      /\ run[w].paid \in {run[w].asked, run[w].asked + 1} /\ Busy(w)
  BY DEF Verifying, Typed, Fields, Owes, Busy
<1>3. g.verdict \in Verdicts
  <2>1. \E facts, a : run[w].gate = Steps1To5(run[w].proposal, facts, Blocks[a], Table[a])
    BY <1>1 DEF Checking
  <2> QED BY <1>2, <2>1, GatedVerdict
<1>4. result # Null
  <2>1. result \in [verdict: Verdicts, proposal: Documents]
    BY <1>2, <1>3
  <2> QED BY <2>1, DocumentAssumption
<1>5. Commit(w, {p, q}, "ready")
  BY DEF Ready
<1> HIDE DEF result
<1>6. /\ p.role = "proposer" /\ p.result = result /\ p.cost = run[w].asked
      /\ q.role = "verifier" /\ q.cost = run[w].paid + 1 - run[w].asked
  BY DEF Row
<1> HIDE DEF p, q
<1>7. RowsCost({p, q}) = run[w].asked + (run[w].paid + 1 - run[w].asked)
  BY <1>6, CostOfTwo
<1>8. RowsCost({p, q}) \in 0 .. 4
  BY ONLY <1>2, <1>7
<1>9. Outcome(w, {p, q}, "ready")
  BY <1>2, <1>4, <1>6, <1>8 DEF Outcome
<1> QED BY <1>2, <1>5, <1>9 DEF Commits

(* The fields that an update of a call's bookkeeping keeps. *)
LEMMA AskingFields ==
    ASSUME NEW r, Asking(r), NEW k, NEW n, NEW c
    PROVE  /\ [r EXCEPT !.calling = c].pc = r.pc
           /\ [r EXCEPT !.calling = c].alert = r.alert
           /\ [r EXCEPT !.calling = c].attempt = r.attempt
           /\ [r EXCEPT !.calling = c].paid = r.paid
           /\ [r EXCEPT !.calling = c].calling = c
           /\ [r EXCEPT !.pc = k, !.paid = n, !.calling = c].pc = k
           /\ [r EXCEPT !.pc = k, !.paid = n, !.calling = c].alert = r.alert
           /\ [r EXCEPT !.pc = k, !.paid = n, !.calling = c].attempt = r.attempt
           /\ [r EXCEPT !.pc = k, !.paid = n, !.calling = c].paid = n
           /\ [r EXCEPT !.pc = k, !.paid = n, !.calling = c].calling = c
<1>1. PICK a \in Alerts, pc \in {"propose", "propose_again"} :
         \E calling, attempt, paid, facts :
            r = [pc |-> pc, alert |-> a, attempt |-> attempt,
                 calling |-> calling, paid |-> paid, facts |-> facts]
  BY DEF Asking
<1>2. PICK calling, attempt, paid, facts :
         r = [pc |-> pc, alert |-> a, attempt |-> attempt,
              calling |-> calling, paid |-> paid, facts |-> facts]
  BY <1>1
<1>3. [r EXCEPT !.calling = c] = [pc |-> pc, alert |-> a, attempt |-> attempt,
                                  calling |-> c, paid |-> paid, facts |-> facts]
  BY <1>2
<1>4. [r EXCEPT !.pc = k, !.paid = n, !.calling = c] =
         [pc |-> k, alert |-> a, attempt |-> attempt, calling |-> c, paid |-> n, facts |-> facts]
  <2> DEFINE q1 == [pc |-> k, alert |-> a, attempt |-> attempt, calling |-> calling,
                    paid |-> paid, facts |-> facts]
             q2 == [pc |-> k, alert |-> a, attempt |-> attempt, calling |-> calling,
                    paid |-> n, facts |-> facts]
             q3 == [pc |-> k, alert |-> a, attempt |-> attempt, calling |-> c,
                    paid |-> n, facts |-> facts]
  <2>1. q1 = [r EXCEPT !.pc = k]  BY <1>2
  <2>2. q2 = [q1 EXCEPT !.paid = n]  OBVIOUS
  <2>3. q3 = [q2 EXCEPT !.calling = c]  OBVIOUS
  <2> HIDE DEF q1, q2, q3
  <2>4. [r EXCEPT !.pc = k, !.paid = n, !.calling = c] = q3
    BY ONLY <2>1, <2>2, <2>3, ThreeFields
  <2> QED BY <2>4 DEF q3
<1> QED BY <1>2, <1>3, <1>4

LEMMA CheckingFields ==
    ASSUME NEW r, Checking(r), NEW k, NEW n, NEW c
    PROVE  /\ [r EXCEPT !.calling = c].pc = r.pc
           /\ [r EXCEPT !.calling = c].alert = r.alert
           /\ [r EXCEPT !.calling = c].attempt = r.attempt
           /\ [r EXCEPT !.calling = c].paid = r.paid
           /\ [r EXCEPT !.calling = c].asked = r.asked
           /\ [r EXCEPT !.calling = c].proposal = r.proposal
           /\ [r EXCEPT !.calling = c].calling = c
           /\ [r EXCEPT !.pc = k, !.paid = n, !.calling = c].pc = k
           /\ [r EXCEPT !.pc = k, !.paid = n, !.calling = c].alert = r.alert
           /\ [r EXCEPT !.pc = k, !.paid = n, !.calling = c].attempt = r.attempt
           /\ [r EXCEPT !.pc = k, !.paid = n, !.calling = c].paid = n
           /\ [r EXCEPT !.pc = k, !.paid = n, !.calling = c].asked = r.asked
           /\ [r EXCEPT !.pc = k, !.paid = n, !.calling = c].proposal = r.proposal
           /\ [r EXCEPT !.pc = k, !.paid = n, !.calling = c].calling = c
<1>1. PICK a \in Alerts, pc \in {"verify", "verify_again"} :
         \E calling, attempt, paid, asked, facts, p :
            r = [pc |-> pc, calling |-> calling, alert |-> a, attempt |-> attempt,
                 paid |-> paid, asked |-> asked, facts |-> facts, proposal |-> p,
                 gate |-> Steps1To5(p, facts, Blocks[a], Table[a])]
  BY DEF Checking
<1>2. PICK calling, attempt, paid, asked, facts, p, g :
         r = [pc |-> pc, calling |-> calling, alert |-> a, attempt |-> attempt,
              paid |-> paid, asked |-> asked, facts |-> facts, proposal |-> p, gate |-> g]
  BY <1>1
<1>3. [r EXCEPT !.calling = c] =
         [pc |-> pc, calling |-> c, alert |-> a, attempt |-> attempt, paid |-> paid,
          asked |-> asked, facts |-> facts, proposal |-> p, gate |-> g]
  BY <1>2
<1>4. [r EXCEPT !.pc = k, !.paid = n, !.calling = c] =
         [pc |-> k, calling |-> c, alert |-> a, attempt |-> attempt, paid |-> n,
          asked |-> asked, facts |-> facts, proposal |-> p, gate |-> g]
  <2> DEFINE q1 == [pc |-> k, calling |-> calling, alert |-> a, attempt |-> attempt,
                    paid |-> paid, asked |-> asked, facts |-> facts, proposal |-> p, gate |-> g]
             q2 == [pc |-> k, calling |-> calling, alert |-> a, attempt |-> attempt,
                    paid |-> n, asked |-> asked, facts |-> facts, proposal |-> p, gate |-> g]
             q3 == [pc |-> k, calling |-> c, alert |-> a, attempt |-> attempt,
                    paid |-> n, asked |-> asked, facts |-> facts, proposal |-> p, gate |-> g]
  <2>1. q1 = [r EXCEPT !.pc = k]  BY <1>2
  <2>2. q2 = [q1 EXCEPT !.paid = n]  OBVIOUS
  <2>3. q3 = [q2 EXCEPT !.calling = c]  OBVIOUS
  <2> HIDE DEF q1, q2, q3
  <2>4. [r EXCEPT !.pc = k, !.paid = n, !.calling = c] = q3
    BY ONLY <2>1, <2>2, <2>3, ThreeFields
  <2> QED BY <2>4 DEF q3
<1> QED BY <1>2, <1>3, <1>4

LEMMA DialMoves ==
    ASSUME IInv, Typed, NEW w \in Workers, Dial(w)
    PROVE  Moves(w)
<1> DEFINE r == [run[w] EXCEPT !.calling = TRUE]
<1>1. /\ run[w].pc \in {"propose", "propose_again", "verify", "verify_again"}
      /\ spent < Cap
  BY DEF Dial, Proposing, Verifying, WithinCap
<1>2. run' = [run EXCEPT ![w] = r] /\ UNCHANGED <<alert, job, llm_runs, spent, overtaken>>
  BY DEF Dial, IInv
<1>3. Fields(run[w]) /\ RunInv(run[w])
  BY DEF Typed, IInv
<1>4. r.pc # "idle" /\ r.alert = run[w].alert /\ r.attempt = run[w].attempt /\ Fields(r)
  <2>1. CASE Asking(run[w])
    <3>1. /\ r.pc = run[w].pc /\ r.alert = run[w].alert /\ r.attempt = run[w].attempt
          /\ r.paid = run[w].paid /\ r.calling = TRUE
      BY <2>1, AskingFields
    <3>2. r.pc \in {"propose", "propose_again"}
      BY <2>1, <3>1, Phases
    <3> HIDE DEF r
    <3> QED BY <1>1, <1>3, <3>1, <3>2 DEF Fields
  <2>2. CASE Checking(run[w])
    <3>1. /\ r.pc = run[w].pc /\ r.alert = run[w].alert /\ r.attempt = run[w].attempt
          /\ r.paid = run[w].paid /\ r.calling = TRUE /\ r.asked = run[w].asked
          /\ r.proposal = run[w].proposal
      BY <2>2, CheckingFields
    <3>2. r.pc \in {"verify", "verify_again"}
      BY <2>2, <3>1, Phases
    <3> HIDE DEF r
    <3> QED BY <1>1, <1>3, <3>1, <3>2 DEF Fields
  <2> QED BY <1>1, <1>3, <2>1, <2>2, Phases DEF RunInv
<1> HIDE DEF r
<1> QED BY <1>1, <1>2, <1>4 DEF Moves, Busy

LEMMA InvalidMoves ==
    ASSUME IInv, Typed, NEW w \in Workers, Invalid(w)
    PROVE  Moves(w)
<1> DEFINE k == IF run[w].pc = "propose" THEN "propose_again" ELSE "verify_again"
           r == [run[w] EXCEPT !.pc = k, !.paid = run[w].paid + 1, !.calling = FALSE]
<1>1. run[w].pc \in {"propose", "verify"} /\ run[w].calling
  BY DEF Invalid, Calling
<1>2. run' = [run EXCEPT ![w] = r] /\ UNCHANGED <<alert, job, llm_runs, spent, overtaken>>
  BY DEF Invalid, IInv
<1>3. Fields(run[w]) /\ RunInv(run[w]) /\ Owes(run[w])
  BY <1>1 DEF Typed, IInv, Owes
<1>4. r.pc # "idle" /\ r.alert = run[w].alert /\ r.attempt = run[w].attempt /\ Fields(r)
  <2>1. CASE run[w].pc = "propose"
    <3>1. Asking(run[w]) /\ k = "propose_again"
      BY <1>3, <2>1, Phases DEF RunInv
    <3> HIDE DEF k
    <3>2. /\ r.pc = k /\ r.alert = run[w].alert /\ r.attempt = run[w].attempt
          /\ r.paid = run[w].paid + 1 /\ r.calling = FALSE
      BY <3>1, AskingFields
    <3> HIDE DEF r
    <3>3. run[w].paid = 0 /\ run[w].attempt \in Nat
      BY <1>3, <2>1 DEF Fields
    <3>4. r.pc = "propose_again" /\ r.paid = 1 /\ r.calling = FALSE /\ r.attempt \in Nat
      BY <3>1, <3>2, <3>3
    <3> QED BY <3>2, <3>4 DEF Fields
  <2>2. CASE run[w].pc = "verify"
    <3>1. Checking(run[w]) /\ k = "verify_again"
      BY <1>3, <2>2, Phases DEF RunInv
    <3> HIDE DEF k
    <3>2. /\ r.pc = k /\ r.alert = run[w].alert /\ r.attempt = run[w].attempt
          /\ r.paid = run[w].paid + 1 /\ r.calling = FALSE /\ r.asked = run[w].asked
          /\ r.proposal = run[w].proposal
      BY <3>1, CheckingFields
    <3> HIDE DEF r
    <3> QED BY <1>3, <2>2, <3>1, <3>2 DEF Fields
  <2> QED BY <1>1, <2>1, <2>2
<1> HIDE DEF r
<1> QED BY <1>1, <1>2, <1>3, <1>4 DEF Moves, Busy

LEMMA ProposedMoves ==
    ASSUME IInv, Typed, NEW w \in Workers, Proposed(w)
    PROVE  Moves(w)
<1>1. PICK p \in Documents : \E g :
         run' = [run EXCEPT ![w] =
                   [pc |-> "verify", calling |-> FALSE, alert |-> run[w].alert,
                    attempt |-> run[w].attempt, paid |-> run[w].paid + 1,
                    asked |-> run[w].paid + 1, facts |-> run[w].facts, proposal |-> p,
                    gate |-> g]]
  BY DEF Proposed
<1>0. PICK g :
         run' = [run EXCEPT ![w] =
                   [pc |-> "verify", calling |-> FALSE, alert |-> run[w].alert,
                    attempt |-> run[w].attempt, paid |-> run[w].paid + 1,
                    asked |-> run[w].paid + 1, facts |-> run[w].facts, proposal |-> p,
                    gate |-> g]]
  BY <1>1
<1> DEFINE r == [pc |-> "verify", calling |-> FALSE, alert |-> run[w].alert,
                 attempt |-> run[w].attempt, paid |-> run[w].paid + 1,
                 asked |-> run[w].paid + 1, facts |-> run[w].facts, proposal |-> p, gate |-> g]
<1>2. /\ run[w].pc \in {"propose", "propose_again"} /\ run[w].calling
      /\ UNCHANGED <<alert, job, llm_runs, spent, overtaken>>
  BY DEF Proposed, Calling, Proposing
<1>3. /\ run[w].attempt \in Nat /\ run[w].paid + 1 \in 1 .. 2
      /\ Owes(run[w]) /\ Busy(w)
  BY <1>2 DEF Typed, Fields, Owes, Busy
<1>4. r.pc # "idle" /\ r.alert = run[w].alert /\ r.attempt = run[w].attempt /\ Fields(r)
  BY <1>3 DEF Fields
<1>5. run' = [run EXCEPT ![w] = r]
  BY <1>0
<1> HIDE DEF r
<1> QED BY <1>2, <1>3, <1>4, <1>5 DEF Moves

LEMMA LoadMoves ==
    ASSUME IInv, Typed, NEW w \in Workers, Load(w)
    PROVE  Moves(w)
<1> DEFINE r == [pc |-> "propose", alert |-> run[w].alert, attempt |-> run[w].attempt,
                 calling |-> FALSE, paid |-> 0, facts |-> Facts(run[w].alert)]
<1>1. run' = [run EXCEPT ![w] = r] /\ UNCHANGED <<alert, job, llm_runs, spent, overtaken>>
  BY DEF Load
<1>2. run[w].pc = "claimed" /\ run[w].attempt \in Nat
  BY DEF Load, Typed, Fields
<1>3. r.pc # "idle" /\ r.alert = run[w].alert /\ r.attempt = run[w].attempt /\ Fields(r) /\ ~ Owes(r)
  BY <1>2 DEF Fields, Owes
<1> HIDE DEF r
<1> QED BY <1>1, <1>2, <1>3 DEF Moves, Busy

(* Every step of a worker, the handler's detail left aside. *)
LEMMA WorkDoes ==
    ASSUME IInv, Typed, NEW w \in Workers, Work(w)
    PROVE  \/ \E a \in Alerts : Claim(w, a)
           \/ Skip(w)
           \/ Moves(w)
           \/ Raises(w)
           \/ Commits(w)
<1>1. CASE Load(w)  BY <1>1, LoadMoves
<1>2. CASE Disabled(w)
  <2>1. RowsCost({}) = 0  BY DEF RowsCost
  <2>2. Outcome(w, {}, "unavailable")  BY <2>1 DEF Outcome
  <2> QED BY <1>2, <2>2 DEF Disabled, Commits, Busy
<1>3. CASE LinterStops(w)
  <2> DEFINE p == Row(w, "proposer", Null, 0, "linter")
  <2>1. p.role = "proposer" /\ p.result = Null /\ p.cost = 0  BY DEF Row
  <2>2. run[w].pc = "propose" /\ Commit(w, {p}, "unavailable")  BY <1>3 DEF LinterStops
  <2> HIDE DEF p
  <2>3. RowsCost({p}) = 0  BY <2>1, CostOfOne
  <2>4. Outcome(w, {p}, "unavailable")  BY <2>1, <2>3 DEF Outcome
  <2> QED BY <2>2, <2>4 DEF Commits, Busy
<1>4. CASE Dial(w)  BY <1>4, DialMoves
<1>5. CASE CapStops(w)
  <2>1. Busy(w)  BY <1>5 DEF CapStops, Proposing, Verifying, Busy
  <2> QED BY <1>5, <2>1, FailureOutcome DEF CapStops, Commits
<1>6. CASE CallFails(w)
  <2>1. Busy(w) /\ (Proposing(w) \/ Verifying(w))
    BY <1>6 DEF CallFails, Calling, Proposing, Verifying, Busy
  <2>2. CASE run[w].attempt < JobMaxAttempts
    <3>1. Raise(w, "transient")  BY <1>6, <2>2 DEF CallFails
    <3>2. "transient" \in Errors  BY DEF Errors
    <3> QED BY <2>1, <2>2, <3>1, <3>2 DEF Raises
  <2>3. CASE ~ (run[w].attempt < JobMaxAttempts)
    <3>1. Commit(w, FailureRows(w, "transient"), "unavailable")  BY <1>6, <2>3 DEF CallFails
    <3> QED BY <2>1, <3>1, FailureOutcome DEF Commits
  <2> QED BY <2>2, <2>3
<1>7. CASE CallRaises(w) \/ LoadRaises(w) \/ PromptRaises(w) \/ DatabaseFails(w)
  <2>1. Busy(w)
    BY <1>7 DEF CallRaises, LoadRaises, PromptRaises, DatabaseFails, Calling, Proposing,
                Verifying, Busy
  <2>2. PICK error \in {"server", "permanent", "retried"} : Raise(w, error)
    BY <1>7 DEF CallRaises, LoadRaises, PromptRaises, DatabaseFails
  <2> QED BY <2>1, <2>2 DEF Raises, Errors
<1>8. CASE Invalid(w)  BY <1>8, InvalidMoves
<1>9. CASE InvalidAgain(w)
  <2> DEFINE p == Row(w, "proposer", Null, run[w].paid + 1, "schema")
  <2>1. run[w].pc = "propose_again" /\ Commit(w, {p}, "unavailable")  BY <1>9 DEF InvalidAgain
  <2>2. run[w].paid = 1 /\ Owes(run[w]) /\ Busy(w)  BY <2>1 DEF Typed, Fields, Owes, Busy
  <2>3. p.role = "proposer" /\ p.result = Null /\ p.cost = 2  BY <2>2 DEF Row
  <2> HIDE DEF p
  <2>4. RowsCost({p}) = 2  BY <2>3, CostOfOne
  <2>5. Outcome(w, {p}, "unavailable")  BY <2>2, <2>3, <2>4 DEF Outcome
  <2> QED BY <2>1, <2>2, <2>5 DEF Commits
<1>10. CASE Proposed(w)  BY <1>10, ProposedMoves
<1>11. CASE Verified(w)  BY <1>11, ReadyOutcome DEF Verified
<1>12. CASE VerifierInvalidAgain(w)
  <2>1. Verifying(w) /\ Ready(w, Null)  BY <1>12 DEF VerifierInvalidAgain, Verifying
  <2> QED BY <2>1, ReadyOutcome
<1> QED BY <1>1, <1>2, <1>3, <1>4, <1>5, <1>6, <1>7, <1>8, <1>9, <1>10, <1>11, <1>12 DEF Work

---------------------------------------------------------------------------
(* What the steps write, row by row. *)
LEMMA BusyOn ==
    ASSUME IInv, NEW w \in Workers, Busy(w) PROVE run[w].alert \in Alerts
BY BusyAlert DEF IInv, Busy

LEMMA RunWrites ==
    ASSUME IInv, NEW w \in Workers, NEW r, run' = [run EXCEPT ![w] = r], NEW v \in Workers
    PROVE  run'[v] = IF v = w THEN r ELSE run[v]
BY DEF IInv

LEMMA FinishWrites ==
    ASSUME IInv, Typed, NEW w \in Workers, Busy(w), NEW status \in {"pending", "succeeded", "failed"},
           NEW error \in {"none"} \cup Errors, Finish(w, status, error)
    PROVE  /\ run' = [run EXCEPT ![w] = Idle] /\ overtaken' = overtaken
           /\ job' \in [Alerts -> JobRows]
           /\ \A b \in Alerts :
                /\ job'[b].status = IF b = run[w].alert THEN status ELSE job[b].status
                /\ job'[b].error = IF b = run[w].alert THEN error ELSE job[b].error
                /\ job'[b].attempts = job[b].attempts
BY BusyOn DEF Finish, Typed, JobRows

(* A commit writes the alert, its rows, its job and the month's spending. *)
Written(w, rows, status) ==
    /\ run' = [run EXCEPT ![w] = Idle] /\ overtaken' = overtaken
    /\ spent' = spent + RowsCost(rows)
    /\ alert' \in [Alerts -> AlertRows] /\ job' \in [Alerts -> JobRows]
    /\ \A b \in Alerts :
         /\ job'[b].status = IF b = run[w].alert THEN "succeeded" ELSE job[b].status
         /\ job'[b].error = IF b = run[w].alert THEN "none" ELSE job[b].error
         /\ job'[b].attempts = job[b].attempts
         /\ alert'[b].status = alert[b].status
         /\ alert'[b].triage_status = IF b = run[w].alert THEN status ELSE alert[b].triage_status
         /\ llm_runs'[b] = IF b = run[w].alert THEN llm_runs[b] \cup rows ELSE llm_runs[b]

LEMMA CommitWrites ==
    ASSUME IInv, Typed, NEW w \in Workers, Busy(w), NEW rows, NEW status \in {"ready", "unavailable"},
           Commit(w, rows, status)
    PROVE  Written(w, rows, status)
<1>1. run[w].alert \in Alerts  BY BusyOn
<1>2. Finish(w, "succeeded", "none")  BY DEF Commit
<1>3. /\ alert' \in [Alerts -> AlertRows]
      /\ \A b \in Alerts : /\ alert'[b].status = alert[b].status
                           /\ alert'[b].triage_status =
                                 IF b = run[w].alert THEN status ELSE alert[b].triage_status
  BY <1>1 DEF Commit, Typed, AlertRows
<1>4. \A b \in Alerts : llm_runs'[b] = IF b = run[w].alert THEN llm_runs[b] \cup rows ELSE llm_runs[b]
  BY <1>1 DEF Commit, IInv
<1>5. spent' = spent + RowsCost(rows)  BY DEF Commit
<1>6. /\ run' = [run EXCEPT ![w] = Idle] /\ overtaken' = overtaken
      /\ job' \in [Alerts -> JobRows]
      /\ \A b \in Alerts :
           /\ job'[b].status = IF b = run[w].alert THEN "succeeded" ELSE job[b].status
           /\ job'[b].error = IF b = run[w].alert THEN "none" ELSE job[b].error
           /\ job'[b].attempts = job[b].attempts
  BY <1>2, FinishWrites
<1> QED BY <1>3, <1>4, <1>5, <1>6 DEF Written

LEMMA ClaimWrites ==
    ASSUME IInv, Typed, NEW w \in Workers, NEW a \in Alerts, Claim(w, a)
    PROVE  /\ job[a].status = "pending" /\ ~ Busy(w)
           /\ UNCHANGED <<alert, llm_runs, spent, overtaken>>
           /\ job' \in [Alerts -> JobRows]
           /\ \A b \in Alerts :
                /\ job'[b].status = IF b = a THEN "running" ELSE job[b].status
                /\ job'[b].error = job[b].error
                /\ job'[b].attempts = IF b = a THEN job[b].attempts + 1 ELSE job[b].attempts
           /\ \E r : /\ run' = [run EXCEPT ![w] = r]
                     /\ r.pc = "claimed" /\ r.alert = a /\ Fields(r) /\ ~ Owes(r)
                     /\ r.attempt = job[a].attempts + 1
<1> DEFINE r == [pc |-> "claimed", alert |-> a, paid |-> 0, attempt |-> job[a].attempts + 1]
<1>1. /\ r.pc = "claimed" /\ r.alert = a /\ Fields(r) /\ ~ Owes(r)
      /\ r.attempt = job[a].attempts + 1
  BY DEF Typed, JobRows, Fields, Owes
<1>2. run' = [run EXCEPT ![w] = r]  BY DEF Claim
<1>3. /\ job' \in [Alerts -> JobRows]
      /\ \A b \in Alerts : /\ job'[b].status = IF b = a THEN "running" ELSE job[b].status
                           /\ job'[b].error = job[b].error
                           /\ job'[b].attempts = IF b = a THEN job[b].attempts + 1
                                                          ELSE job[b].attempts
  BY DEF Claim, Typed, JobRows
<1> HIDE DEF r
<1> QED BY <1>1, <1>2, <1>3 DEF Claim

LEMMA ReclaimWrites ==
    ASSUME Typed, NEW a \in Alerts, Reclaim(a)
    PROVE  /\ job[a].status = "running"
           /\ UNCHANGED <<alert, run, llm_runs, spent>>
           /\ job' \in [Alerts -> JobRows]
           /\ \A b \in Alerts :
                /\ job'[b].status = IF b = a THEN "pending" ELSE job[b].status
                /\ job'[b].error = job[b].error
                /\ job'[b].attempts = job[b].attempts
           /\ overtaken \subseteq overtaken'
           /\ \A w \in Workers : On(w, a) => a \in overtaken'
BY DEF Reclaim, Typed, JobRows, On

LEMMA OthersWrite ==
    ASSUME Typed, NEW a \in Alerts, Merge(a) \/ Acknowledge(a) \/ Decide(a)
    PROVE  /\ UNCHANGED <<job, run, llm_runs, spent, overtaken>>
           /\ alert' \in [Alerts -> AlertRows]
           /\ \A b \in Alerts : /\ alert'[b].triage_status = alert[b].triage_status
                                /\ alert[b].status \in Closed => alert'[b].status = alert[b].status
<1>1. CASE Merge(a)  BY <1>1 DEF Merge, Typed, AlertRows, Closed
<1>2. CASE Acknowledge(a)  BY <1>2 DEF Acknowledge, Typed, AlertRows, Closed
<1>3. CASE Decide(a)
  <2>1. UNCHANGED <<job, run, llm_runs, spent, overtaken>>  BY <1>3 DEF Decide
  <2> DEFINE q == [[alert[a] EXCEPT !.status = "closed_fp"]
                      EXCEPT !.triaged_count = alert[a].occurrence_count]
  <2>2. alert[a] \in AlertRows /\ alert[a].status = "tier1_active"
    BY <1>3 DEF Decide, Typed
  <2>3. /\ q \in AlertRows /\ q.triage_status = alert[a].triage_status
    BY <2>2 DEF AlertRows, Closed
  <2>4. alert' = [alert EXCEPT ![a] = q]
    BY <1>3 DEF Decide
  <2> HIDE DEF q
  <2> QED BY <2>1, <2>2, <2>3, <2>4 DEF Typed, Closed
<1> QED BY <1>1, <1>2, <1>3

(* Every step, in these terms. *)
LEMMA JobSteps ==
    ASSUME IInv, Typed, [Next]_vars
    PROVE  \/ \E w \in Workers : \/ \E a \in Alerts : Claim(w, a)
                                 \/ Skip(w)
                                 \/ Moves(w)
                                 \/ Raises(w)
                                 \/ Commits(w)
                                 \/ Crash(w)
           \/ \E a \in Alerts : Reclaim(a) \/ Merge(a) \/ Acknowledge(a) \/ Decide(a)
           \/ UNCHANGED vars
BY WorkDoes DEF Next

LEMMA IdleFields == Fields(Idle) /\ ~ Owes(Idle) /\ Idle.pc = "idle"
BY DEF Fields, Owes, Idle

LEMMA SkipDoes ==
    ASSUME IInv, NEW w \in Workers, Skip(w)
    PROVE  /\ Busy(w) /\ run[w].alert \in Alerts /\ alert[run[w].alert].status \in Closed
           /\ Finish(w, "succeeded", "none") /\ UNCHANGED <<alert, llm_runs, spent>>
<1>1. Busy(w)  BY DEF Skip, Busy
<1> QED BY <1>1, BusyOn DEF Skip

LEMMA RaiseDoes ==
    ASSUME IInv, Typed, NEW w \in Workers, Raises(w)
    PROVE  /\ Busy(w)
           /\ \E error \in Errors, status \in {"pending", "failed"} :
                /\ Finish(w, status, error)
                /\ status = "failed" => Failure(error, run[w].attempt)
           /\ UNCHANGED <<alert, llm_runs, spent>>
<1>1. PICK error \in Errors :
         Raise(w, error) /\ (error = "transient" => run[w].attempt < JobMaxAttempts)
  BY DEF Raises
<1>2. run[w].attempt \in Nat /\ JobMaxAttempts \in Nat
  BY CapAssumption DEF Raises, Typed, Fields, Busy
<1> DEFINE status == IF error = "permanent" \/ run[w].attempt >= JobMaxAttempts
                     THEN "failed" ELSE "pending"
<1>3. Finish(w, status, error) /\ UNCHANGED <<alert, llm_runs, spent>>
  BY <1>1 DEF Raise
<1>4. status \in {"pending", "failed"}  OBVIOUS
<1>5. ASSUME status = "failed" PROVE Failure(error, run[w].attempt)
  <2>1. error = "permanent" \/ run[w].attempt >= JobMaxAttempts  BY <1>5
  <2>2. error = "transient" => ~ (run[w].attempt >= JobMaxAttempts)  BY <1>1, <1>2
  <2> QED BY <1>1, <2>1, <2>2 DEF Failure, Errors
<1> HIDE DEF status
<1> QED BY <1>1, <1>3, <1>4, <1>5 DEF Raises

LEMMA CommitsWrite ==
    ASSUME IInv, Typed, NEW w \in Workers, Commits(w)
    PROVE  Busy(w) /\ \E rows, status : Outcome(w, rows, status) /\ Written(w, rows, status)
<1>1. PICK rows, status : Commit(w, rows, status) /\ Outcome(w, rows, status)
  BY DEF Commits
<1>2. status \in {"ready", "unavailable"} /\ Busy(w)
  BY <1>1 DEF Outcome, Commits
<1>3. Written(w, rows, status)
  BY <1>1, <1>2, CommitWrites
<1> QED BY <1>1, <1>2, <1>3

LEMMA TypedKept == IInv /\ Typed /\ [Next]_vars => Typed'
<1> SUFFICES ASSUME IInv, Typed, [Next]_vars PROVE Typed'
  OBVIOUS
<1>0. /\ alert \in [Alerts -> AlertRows] /\ job \in [Alerts -> JobRows] /\ spent \in Nat
      /\ \A w \in Workers : Fields(run[w])
  BY DEF Typed
<1>10. ASSUME NEW w \in Workers, NEW r, run' = [run EXCEPT ![w] = r], Fields(r)
       PROVE  \A v \in Workers : Fields(run'[v])
  <2> SUFFICES ASSUME NEW v \in Workers PROVE Fields(run'[v])
    OBVIOUS
  <2>1. run'[v] = IF v = w THEN r ELSE run[v]  BY <1>10, RunWrites
  <2> QED BY <1>0, <1>10, <2>1
<1>1. ASSUME NEW w \in Workers, NEW a \in Alerts, Claim(w, a) PROVE Typed'
  <2>1. /\ UNCHANGED <<alert, spent>> /\ job' \in [Alerts -> JobRows]
        /\ \E r : run' = [run EXCEPT ![w] = r] /\ Fields(r)
    BY <1>1, ClaimWrites
  <2>2. \A v \in Workers : Fields(run'[v])  BY <2>1, <1>10
  <2> QED BY <1>0, <2>1, <2>2 DEF Typed
<1>2. ASSUME NEW w \in Workers, Skip(w) PROVE Typed'
  <2>1. Busy(w) /\ Finish(w, "succeeded", "none") /\ UNCHANGED <<alert, spent>>
    BY <1>2, SkipDoes
  <2>2. job' \in [Alerts -> JobRows] /\ run' = [run EXCEPT ![w] = Idle]
    BY <2>1, FinishWrites
  <2>3. \A v \in Workers : Fields(run'[v])  BY <2>2, <1>10, IdleFields
  <2> QED BY <1>0, <2>1, <2>2, <2>3 DEF Typed
<1>3. ASSUME NEW w \in Workers, Moves(w) PROVE Typed'
  <2>1. PICK r : run' = [run EXCEPT ![w] = r] /\ Fields(r)  BY <1>3 DEF Moves
  <2>2. \A v \in Workers : Fields(run'[v])  BY <2>1, <1>10
  <2>3. UNCHANGED <<alert, job, spent>>  BY <1>3 DEF Moves
  <2> QED BY <1>0, <2>2, <2>3 DEF Typed
<1>4. ASSUME NEW w \in Workers, Raises(w) PROVE Typed'
  <2>1. PICK error \in Errors, status \in {"pending", "failed"} :
           Finish(w, status, error)
    BY <1>4, RaiseDoes
  <2>2. job' \in [Alerts -> JobRows] /\ run' = [run EXCEPT ![w] = Idle]
    <3>1. Busy(w)  BY <1>4, RaiseDoes
    <3> QED BY <2>1, <3>1, FinishWrites
  <2>3. \A v \in Workers : Fields(run'[v])  BY <2>2, <1>10, IdleFields
  <2>4. UNCHANGED <<alert, spent>>  BY <1>4, RaiseDoes
  <2> QED BY <1>0, <2>2, <2>3, <2>4 DEF Typed
<1>5. ASSUME NEW w \in Workers, Commits(w) PROVE Typed'
  <2>1. PICK rows, status : Outcome(w, rows, status) /\ Written(w, rows, status)
    BY <1>5, CommitsWrite
  <2>2. /\ alert' \in [Alerts -> AlertRows] /\ job' \in [Alerts -> JobRows]
        /\ run' = [run EXCEPT ![w] = Idle] /\ spent' = spent + RowsCost(rows)
    BY <2>1 DEF Written
  <2>3. RowsCost(rows) \in 0 .. 4  BY <2>1 DEF Outcome
  <2>4. spent' \in Nat  BY <1>0, <2>2, <2>3
  <2>5. \A v \in Workers : Fields(run'[v])  BY <2>2, <1>10, IdleFields
  <2> QED BY <2>2, <2>4, <2>5 DEF Typed
<1>6. ASSUME NEW w \in Workers, Crash(w) PROVE Typed'
  <2>1. \A v \in Workers : Fields(run'[v])  BY <1>6, <1>10, IdleFields DEF Crash
  <2> QED BY <1>0, <1>6, <2>1 DEF Typed, Crash
<1>7. ASSUME NEW a \in Alerts, Reclaim(a) PROVE Typed'
  BY <1>0, <1>7, ReclaimWrites DEF Typed
<1>8. ASSUME NEW a \in Alerts, Merge(a) \/ Acknowledge(a) \/ Decide(a) PROVE Typed'
  BY <1>0, <1>8, OthersWrite DEF Typed
<1>9. ASSUME UNCHANGED vars PROVE Typed'
  BY <1>0, <1>9 DEF Typed, vars
<1> QED BY <1>1, <1>2, <1>3, <1>4, <1>5, <1>6, <1>7, <1>8, <1>9, JobSteps

---------------------------------------------------------------------------
(* Who is at work after a step that writes w's memory. *)
LEMMA OnWrites ==
    ASSUME IInv, NEW w \in Workers, NEW r, run' = [run EXCEPT ![w] = r],
           NEW v \in Workers, NEW b
    PROVE  On(v, b)' <=> IF v = w THEN r.pc # "idle" /\ r.alert = b ELSE On(v, b)
<1>1. CASE v = w
  <2>1. run'[v] = r  BY <1>1 DEF IInv
  <2> QED BY <1>1, <2>1 DEF On, Busy
<1>2. CASE v # w
  <2>1. run'[v] = run[v]  BY <1>2, RunWrites
  <2> QED BY <1>2, <2>1 DEF On, Busy
<1> QED BY <1>1, <1>2

(* A worker that stops leaves its alert to nobody else, unless its lease was lost. *)
LEMMA StopKeepsAlone ==
    ASSUME IInv, Alone, NEW w \in Workers, Busy(w), run' = [run EXCEPT ![w] = Idle],
           overtaken' = overtaken,
           \A b \in Alerts : b # run[w].alert => job'[b].status = job[b].status
    PROVE  Alone'
<1> SUFFICES ASSUME NEW b \in Alerts \ overtaken
             PROVE  /\ \A u, v \in Workers : On(u, b)' /\ On(v, b)' => u = v
                    /\ \A v \in Workers : On(v, b)' => job'[b].status = "running"
  BY DEF Alone
<1>1. \A v \in Workers : On(v, b)' => On(v, b) /\ v # w
  BY OnWrites, IdleFields
<1>2. /\ \A u, v \in Workers : On(u, b) /\ On(v, b) => u = v
      /\ \A v \in Workers : On(v, b) => job[b].status = "running"
  BY DEF Alone
<1>3. b = run[w].alert => On(w, b)  BY DEF On
<1> QED BY <1>1, <1>2, <1>3

LEMMA AloneKept == IInv /\ Typed /\ Alone /\ [Next]_vars => Alone'
<1> SUFFICES ASSUME IInv, Typed, Alone, [Next]_vars PROVE Alone'
  OBVIOUS
<1>1. ASSUME NEW w \in Workers, NEW a \in Alerts, Claim(w, a) PROVE Alone'
  <2>1. PICK r : run' = [run EXCEPT ![w] = r] /\ r.pc = "claimed" /\ r.alert = a
    BY <1>1, ClaimWrites
  <2>2. /\ job[a].status = "pending" /\ overtaken' = overtaken
        /\ \A b \in Alerts : job'[b].status = IF b = a THEN "running" ELSE job[b].status
    BY <1>1, ClaimWrites
  <2>3. ASSUME NEW b \in Alerts \ overtaken
        PROVE  /\ \A u, v \in Workers : On(u, b)' /\ On(v, b)' => u = v
               /\ \A v \in Workers : On(v, b)' => job'[b].status = "running"
    <3>1. \A v \in Workers : On(v, b)' <=> IF v = w THEN a = b ELSE On(v, b)
      BY <2>1, OnWrites
    <3>2. /\ \A u, v \in Workers : On(u, b) /\ On(v, b) => u = v
          /\ \A v \in Workers : On(v, b) => job[b].status = "running"
      BY <2>3 DEF Alone
    <3>3. CASE b = a
      <4>1. \A v \in Workers : ~ On(v, b)  BY <2>2, <3>2, <3>3
      <4> QED BY <2>2, <3>1, <3>3, <4>1
    <3>4. CASE b # a  BY <2>2, <3>1, <3>2, <3>4
    <3> QED BY <3>3, <3>4
  <2> QED BY <2>2, <2>3 DEF Alone
<1>2. ASSUME NEW w \in Workers, Skip(w) PROVE Alone'
  <2>1. Busy(w) /\ Finish(w, "succeeded", "none")  BY <1>2, SkipDoes
  <2>2. /\ run' = [run EXCEPT ![w] = Idle] /\ overtaken' = overtaken
        /\ \A b \in Alerts : b # run[w].alert => job'[b].status = job[b].status
    BY <2>1, FinishWrites
  <2> QED BY <2>1, <2>2, StopKeepsAlone
<1>3. ASSUME NEW w \in Workers, Moves(w) PROVE Alone'
  <2>1. PICK r : run' = [run EXCEPT ![w] = r] /\ r.pc # "idle" /\ r.alert = run[w].alert
    BY <1>3 DEF Moves
  <2>2. UNCHANGED <<job, overtaken>> /\ Busy(w)  BY <1>3 DEF Moves
  <2>3. ASSUME NEW v \in Workers, NEW b \in Alerts PROVE On(v, b)' <=> On(v, b)
    <3>1. CASE v = w
      <4>1. On(v, b)' <=> r.pc # "idle" /\ r.alert = b  BY <2>1, <3>1, OnWrites
      <4>2. On(v, b) <=> run[w].alert = b  BY <2>2, <3>1 DEF On
      <4> QED BY <2>1, <4>1, <4>2
    <3>2. CASE v # w  BY <2>1, <3>2, OnWrites
    <3> QED BY <3>1, <3>2
  <2> QED BY <2>2, <2>3 DEF Alone
<1>4. ASSUME NEW w \in Workers, Raises(w) PROVE Alone'
  <2>1. PICK error \in Errors, status \in {"pending", "failed"} :
           Finish(w, status, error)
    BY <1>4, RaiseDoes
  <2>2. Busy(w)  BY <1>4, RaiseDoes
  <2>3. /\ run' = [run EXCEPT ![w] = Idle] /\ overtaken' = overtaken
        /\ \A b \in Alerts : b # run[w].alert => job'[b].status = job[b].status
    BY <2>1, <2>2, FinishWrites
  <2> QED BY <2>2, <2>3, StopKeepsAlone
<1>5. ASSUME NEW w \in Workers, Commits(w) PROVE Alone'
  <2>1. PICK rows, status : Written(w, rows, status)  BY <1>5, CommitsWrite
  <2>2. Busy(w)  BY <1>5, CommitsWrite
  <2>3. /\ run' = [run EXCEPT ![w] = Idle] /\ overtaken' = overtaken
        /\ \A b \in Alerts : b # run[w].alert => job'[b].status = job[b].status
    BY <2>1 DEF Written
  <2> QED BY <2>2, <2>3, StopKeepsAlone
<1>6. ASSUME NEW w \in Workers, Crash(w) PROVE Alone'
  <2>1. Busy(w) /\ run' = [run EXCEPT ![w] = Idle] /\ UNCHANGED <<job, overtaken>>
    BY <1>6 DEF Crash
  <2> QED BY <2>1, StopKeepsAlone
<1>7. ASSUME NEW a \in Alerts, Reclaim(a) PROVE Alone'
  <2>1. /\ run' = run /\ overtaken \subseteq overtaken'
        /\ \A b \in Alerts : b # a => job'[b].status = job[b].status
        /\ \A w \in Workers : On(w, a) => a \in overtaken'
    BY <1>7, ReclaimWrites
  <2>2. \A v \in Workers, b \in Alerts : On(v, b)' <=> On(v, b)  BY <2>1 DEF On, Busy
  <2> QED BY <2>1, <2>2 DEF Alone
<1>8. ASSUME NEW a \in Alerts, Merge(a) \/ Acknowledge(a) \/ Decide(a) PROVE Alone'
  <2>1. UNCHANGED <<job, run, overtaken>>  BY <1>8, OthersWrite
  <2> QED BY <2>1 DEF Alone, On, Busy
<1>9. ASSUME UNCHANGED vars PROVE Alone'
  BY <1>9 DEF Alone, On, Busy, vars
<1> QED BY <1>1, <1>2, <1>3, <1>4, <1>5, <1>6, <1>7, <1>8, <1>9, JobSteps

(* A worker whose lease is good finds no proposer row on its alert. *)
LEMMA NoRowYet ==
    ASSUME Alone, OneRow, NEW w \in Workers, NEW a \in Alerts \ overtaken, On(w, a)
    PROVE  Proposers(a) = {}
<1>1. job[a].status = "running"  BY DEF Alone
<1> QED BY <1>1 DEF OneRow

(* A job that ends without a commit adds no row. *)
LEMMA StopKeepsOneRow ==
    ASSUME Alone, OneRow, NEW w \in Workers, On(w, run[w].alert),
           UNCHANGED <<alert, llm_runs, overtaken>>,
           \A b \in Alerts : b # run[w].alert => job'[b].status = job[b].status
    PROVE  OneRow'
<1>1. \A b : Proposers(b)' = Proposers(b)  BY DEF Proposers
<1>2. \A b \in Alerts \ overtaken : b = run[w].alert => Proposers(b) = {}
  BY NoRowYet
<1> QED BY <1>1, <1>2 DEF OneRow

LEMMA OneRowKept == IInv /\ Typed /\ Alone /\ OneRow /\ [Next]_vars => OneRow'
<1> SUFFICES ASSUME IInv, Typed, Alone, OneRow, [Next]_vars PROVE OneRow'
  OBVIOUS
<1>1. ASSUME NEW w \in Workers, NEW a \in Alerts, Claim(w, a) PROVE OneRow'
  <2>1. /\ job[a].status = "pending" /\ UNCHANGED <<alert, llm_runs, overtaken>>
        /\ \A b \in Alerts : job'[b].status = IF b = a THEN "running" ELSE job[b].status
    BY <1>1, ClaimWrites
  <2>2. \A b : Proposers(b)' = Proposers(b)  BY <2>1 DEF Proposers
  <2> QED BY <2>1, <2>2 DEF OneRow
<1>2. ASSUME NEW w \in Workers, Skip(w) PROVE OneRow'
  <2>1. Busy(w) /\ Finish(w, "succeeded", "none") /\ UNCHANGED <<alert, llm_runs>>
    BY <1>2, SkipDoes
  <2>2. /\ overtaken' = overtaken
        /\ \A b \in Alerts : b # run[w].alert => job'[b].status = job[b].status
    BY <2>1, FinishWrites
  <2> QED BY <2>1, <2>2, StopKeepsOneRow DEF On
<1>3. ASSUME NEW w \in Workers, Moves(w) PROVE OneRow'
  BY <1>3 DEF Moves, OneRow, Proposers
<1>4. ASSUME NEW w \in Workers, Raises(w) PROVE OneRow'
  <2>1. PICK error \in Errors, status \in {"pending", "failed"} :
           Finish(w, status, error)
    BY <1>4, RaiseDoes
  <2>2. Busy(w) /\ UNCHANGED <<alert, llm_runs>>  BY <1>4, RaiseDoes
  <2>3. /\ overtaken' = overtaken
        /\ \A b \in Alerts : b # run[w].alert => job'[b].status = job[b].status
    BY <2>1, <2>2, FinishWrites
  <2> QED BY <2>2, <2>3, StopKeepsOneRow DEF On
<1>5. ASSUME NEW w \in Workers, Commits(w) PROVE OneRow'
  <2>1. PICK rows, status : Outcome(w, rows, status) /\ Written(w, rows, status)
    BY <1>5, CommitsWrite
  <2>2. Busy(w)  BY <1>5, CommitsWrite
  <2>3. /\ overtaken' = overtaken
        /\ \A b \in Alerts :
             /\ job'[b].status = IF b = run[w].alert THEN "succeeded" ELSE job[b].status
             /\ alert'[b].triage_status =
                   IF b = run[w].alert THEN status ELSE alert[b].triage_status
             /\ llm_runs'[b] = IF b = run[w].alert THEN llm_runs[b] \cup rows ELSE llm_runs[b]
    BY <2>1 DEF Written
  <2>4. ASSUME NEW b \in Alerts \ overtaken
        PROVE  /\ job'[b].status # "succeeded" => Proposers(b)' = {}
               /\ \A r, s \in Proposers(b)' : r = s
               /\ \A r \in Proposers(b)' : alert'[b].triage_status =
                     IF r.result = Null THEN "unavailable" ELSE "ready"
    <3>1. CASE b = run[w].alert
      <4>1. Proposers(b) = {}  BY <2>2, <3>1, NoRowYet DEF On
      <4>2. Proposers(b)' = {r \in rows : r.role = "proposer"}
        BY <2>3, <3>1, <4>1 DEF Proposers
      <4> QED BY <2>1, <2>3, <3>1, <4>2 DEF Outcome
    <3>2. CASE b # run[w].alert
      <4>1. Proposers(b)' = Proposers(b)  BY <2>3, <3>2 DEF Proposers
      <4>2. /\ job'[b].status = job[b].status
            /\ alert'[b].triage_status = alert[b].triage_status
        BY <2>3, <3>2
      <4> QED BY <4>1, <4>2 DEF OneRow
    <3> QED BY <3>1, <3>2
  <2> QED BY <2>3, <2>4 DEF OneRow
<1>6. ASSUME NEW w \in Workers, Crash(w) PROVE OneRow'
  BY <1>6 DEF Crash, OneRow, Proposers
<1>7. ASSUME NEW a \in Alerts, Reclaim(a) PROVE OneRow'
  <2>1. /\ job[a].status = "running" /\ UNCHANGED <<alert, llm_runs>>
        /\ overtaken \subseteq overtaken'
        /\ \A b \in Alerts : job'[b].status = IF b = a THEN "pending" ELSE job[b].status
    BY <1>7, ReclaimWrites
  <2>2. \A b : Proposers(b)' = Proposers(b)  BY <2>1 DEF Proposers
  <2> QED BY <2>1, <2>2 DEF OneRow
<1>8. ASSUME NEW a \in Alerts, Merge(a) \/ Acknowledge(a) \/ Decide(a) PROVE OneRow'
  <2>1. /\ UNCHANGED <<job, llm_runs, overtaken>>
        /\ \A b \in Alerts : alert'[b].triage_status = alert[b].triage_status
    BY <1>8, OthersWrite
  <2>2. \A b : Proposers(b)' = Proposers(b)  BY <2>1 DEF Proposers
  <2> QED BY <2>1, <2>2 DEF OneRow
<1>9. ASSUME UNCHANGED vars PROVE OneRow'
  BY <1>9 DEF OneRow, Proposers, vars
<1> QED BY <1>1, <1>2, <1>3, <1>4, <1>5, <1>6, <1>7, <1>8, <1>9, JobSteps

(* The attempt of a worker and the count of its job, step by step. *)
LEMMA CountedKept == IInv /\ Typed /\ Counted /\ [Next]_vars => Counted'
<1> SUFFICES ASSUME IInv, Typed, Counted, [Next]_vars PROVE Counted'
  OBVIOUS
<1>0. /\ \A w \in Workers : Busy(w) => /\ run[w].alert \in Alerts /\ run[w].attempt \in Nat
                                      /\ run[w].attempt <= job[run[w].alert].attempts
      /\ \A b \in Alerts : job[b].attempts \in Nat
  BY BusyOn DEF Counted, Typed, Fields, JobRows, Busy
<1>10. ASSUME NEW w \in Workers, NEW r, run' = [run EXCEPT ![w] = r],
              r.pc # "idle" => /\ r.alert \in Alerts /\ r.attempt \in Nat
                               /\ r.attempt <= job'[r.alert].attempts,
              \A b \in Alerts : /\ job'[b].attempts \in Nat
                               /\ job[b].attempts <= job'[b].attempts
       PROVE  Counted'
  <2> SUFFICES ASSUME NEW v \in Workers, run'[v].pc # "idle"
               PROVE  run'[v].attempt <= job'[run'[v].alert].attempts
    BY DEF Counted, Busy
  <2>1. run'[v] = IF v = w THEN r ELSE run[v]  BY <1>10, RunWrites
  <2>2. CASE v = w  BY <1>10, <2>1, <2>2
  <2>3. CASE v # w
    <3>1. run'[v] = run[v] /\ Busy(v)  BY <2>1, <2>3 DEF Busy
    <3>2. /\ run[v].alert \in Alerts /\ run[v].attempt \in Nat
          /\ run[v].attempt <= job[run[v].alert].attempts
      BY <1>0, <3>1
    <3>3. /\ job[run[v].alert].attempts \in Nat /\ job'[run[v].alert].attempts \in Nat
          /\ job[run[v].alert].attempts <= job'[run[v].alert].attempts
      BY <1>0, <1>10, <3>2
    <3> QED BY <3>1, <3>2, <3>3
  <2> QED BY <2>2, <2>3
<1>11. ASSUME NEW w \in Workers, run' = [run EXCEPT ![w] = Idle],
              \A b \in Alerts : job'[b].attempts = job[b].attempts
       PROVE  Counted'
  <2>1. \A b \in Alerts : /\ job'[b].attempts \in Nat
                          /\ job[b].attempts <= job'[b].attempts
    BY <1>0, <1>11
  <2>2. ~ (Idle.pc # "idle")  BY IdleFields
  <2> QED BY <1>10, <1>11, <2>1, <2>2
<1>1. ASSUME NEW w \in Workers, NEW a \in Alerts, Claim(w, a) PROVE Counted'
  <2>1. PICK r : /\ run' = [run EXCEPT ![w] = r] /\ r.alert = a
                 /\ r.attempt = job[a].attempts + 1
    BY <1>1, ClaimWrites
  <2>2. \A b \in Alerts : job'[b].attempts = IF b = a THEN job[b].attempts + 1
                                                     ELSE job[b].attempts
    BY <1>1, ClaimWrites
  <2>3. \A b \in Alerts : /\ job'[b].attempts \in Nat
                          /\ job[b].attempts <= job'[b].attempts
    BY <1>0, <2>2
  <2>4. /\ r.alert \in Alerts /\ r.attempt \in Nat
        /\ r.attempt <= job'[r.alert].attempts
    BY <1>0, <2>1, <2>2
  <2> QED BY <1>10, <2>1, <2>3, <2>4
<1>2. ASSUME NEW w \in Workers, Skip(w) PROVE Counted'
  <2>1. Busy(w) /\ Finish(w, "succeeded", "none")  BY <1>2, SkipDoes
  <2> QED BY <1>11, <2>1, FinishWrites
<1>3. ASSUME NEW w \in Workers, Moves(w) PROVE Counted'
  <2>1. PICK r : /\ run' = [run EXCEPT ![w] = r]
                 /\ r.alert = run[w].alert /\ r.attempt = run[w].attempt
    BY <1>3 DEF Moves
  <2>2. Busy(w) /\ job' = job  BY <1>3 DEF Moves
  <2>3. \A b \in Alerts : /\ job'[b].attempts \in Nat
                          /\ job[b].attempts <= job'[b].attempts
    BY <1>0, <2>2
  <2>4. /\ r.alert \in Alerts /\ r.attempt \in Nat
        /\ r.attempt <= job'[r.alert].attempts
    BY <1>0, <2>1, <2>2
  <2> QED BY <1>10, <2>1, <2>3, <2>4
<1>4. ASSUME NEW w \in Workers, Raises(w) PROVE Counted'
  <2>1. PICK error \in Errors, status \in {"pending", "failed"} : Finish(w, status, error)
    BY <1>4, RaiseDoes
  <2>2. Busy(w)  BY <1>4, RaiseDoes
  <2> QED BY <1>11, <2>1, <2>2, FinishWrites
<1>5. ASSUME NEW w \in Workers, Commits(w) PROVE Counted'
  <2>1. PICK rows, status : Written(w, rows, status)  BY <1>5, CommitsWrite
  <2> QED BY <1>11, <2>1 DEF Written
<1>6. ASSUME NEW w \in Workers, Crash(w) PROVE Counted'
  BY <1>6, <1>11 DEF Crash
<1>7. ASSUME NEW a \in Alerts, Reclaim(a) PROVE Counted'
  <2>1. run' = run /\ \A b \in Alerts : job'[b].attempts = job[b].attempts
    BY <1>7, ReclaimWrites
  <2> QED BY <1>0, <2>1 DEF Counted, Busy
<1>8. ASSUME NEW a \in Alerts, Merge(a) \/ Acknowledge(a) \/ Decide(a) PROVE Counted'
  <2>1. run' = run /\ job' = job  BY <1>8, OthersWrite
  <2> QED BY <2>1 DEF Counted, Busy
<1>9. ASSUME UNCHANGED vars PROVE Counted'
  BY <1>9 DEF Counted, Busy, vars
<1> QED BY <1>1, <1>2, <1>3, <1>4, <1>5, <1>6, <1>7, <1>8, <1>9, JobSteps

LEMMA SettledKept == IInv /\ Typed /\ Counted /\ Settled /\ [Next]_vars => Settled'
<1> SUFFICES ASSUME IInv, Typed, Counted, Settled, [Next]_vars PROVE Settled'
  OBVIOUS
<1>1. ASSUME NEW w \in Workers, NEW a \in Alerts, Claim(w, a) PROVE Settled'
  <2>1. /\ alert' = alert
        /\ \A b \in Alerts : /\ job'[b].status = IF b = a THEN "running" ELSE job[b].status
                             /\ job'[b].error = job[b].error
                             /\ b # a => job'[b].attempts = job[b].attempts
    BY <1>1, ClaimWrites
  <2> QED BY <2>1 DEF Settled
<1>2. ASSUME NEW w \in Workers, Skip(w) PROVE Settled'
  <2>1. /\ Busy(w) /\ Finish(w, "succeeded", "none") /\ alert' = alert
        /\ alert[run[w].alert].status \in Closed
    BY <1>2, SkipDoes
  <2>2. \A b \in Alerts :
           /\ job'[b].status = IF b = run[w].alert THEN "succeeded" ELSE job[b].status
           /\ job'[b].error = IF b = run[w].alert THEN "none" ELSE job[b].error
           /\ job'[b].attempts = job[b].attempts
    BY <2>1, FinishWrites
  <2> QED BY <2>1, <2>2 DEF Settled
<1>3. ASSUME NEW w \in Workers, Moves(w) PROVE Settled'
  BY <1>3 DEF Moves, Settled
<1>4. ASSUME NEW w \in Workers, Raises(w) PROVE Settled'
  <2>1. PICK error \in Errors, status \in {"pending", "failed"} :
           Finish(w, status, error) /\ (status = "failed" => Failure(error, run[w].attempt))
    BY <1>4, RaiseDoes
  <2>2. Busy(w) /\ alert' = alert  BY <1>4, RaiseDoes
  <2>3. \A b \in Alerts :
           /\ job'[b].status = IF b = run[w].alert THEN status ELSE job[b].status
           /\ job'[b].error = IF b = run[w].alert THEN error ELSE job[b].error
           /\ job'[b].attempts = job[b].attempts
    BY <2>1, <2>2, FinishWrites
  <2>4. /\ run[w].alert \in Alerts
        /\ run[w].attempt \in Nat /\ job[run[w].alert].attempts \in Nat /\ JobMaxAttempts \in Nat
        /\ run[w].attempt <= job[run[w].alert].attempts
    BY <2>2, BusyOn, CapAssumption DEF Counted, Typed, Fields, JobRows, Busy
  <2>5. status = "failed" => Failure(error, job[run[w].alert].attempts)
    BY <2>1, <2>4 DEF Failure
  <2>6. status # "succeeded"  BY <2>1
  <2> QED BY <2>2, <2>3, <2>5, <2>6 DEF Settled
<1>5. ASSUME NEW w \in Workers, Commits(w) PROVE Settled'
  <2>1. PICK rows, status : Outcome(w, rows, status) /\ Written(w, rows, status)
    BY <1>5, CommitsWrite
  <2>2. status # "pending"  BY <2>1 DEF Outcome
  <2>3. \A b \in Alerts :
           /\ job'[b].status = IF b = run[w].alert THEN "succeeded" ELSE job[b].status
           /\ job'[b].error = IF b = run[w].alert THEN "none" ELSE job[b].error
           /\ job'[b].attempts = job[b].attempts
           /\ alert'[b].status = alert[b].status
           /\ alert'[b].triage_status =
                 IF b = run[w].alert THEN status ELSE alert[b].triage_status
    BY <2>1 DEF Written
  <2> QED BY <2>2, <2>3 DEF Settled
<1>6. ASSUME NEW w \in Workers, Crash(w) PROVE Settled'
  BY <1>6 DEF Crash, Settled
<1>7. ASSUME NEW a \in Alerts, Reclaim(a) PROVE Settled'
  <2>1. /\ alert' = alert
        /\ \A b \in Alerts : /\ job'[b].status = IF b = a THEN "pending" ELSE job[b].status
                             /\ job'[b].error = job[b].error
                             /\ job'[b].attempts = job[b].attempts
    BY <1>7, ReclaimWrites
  <2> QED BY <2>1 DEF Settled
<1>8. ASSUME NEW a \in Alerts, Merge(a) \/ Acknowledge(a) \/ Decide(a) PROVE Settled'
  <2>1. /\ job' = job
        /\ \A b \in Alerts : /\ alert'[b].triage_status = alert[b].triage_status
                             /\ alert[b].status \in Closed => alert'[b].status = alert[b].status
    BY <1>8, OthersWrite
  <2> QED BY <2>1 DEF Settled
<1>9. ASSUME UNCHANGED vars PROVE Settled'
  BY <1>9 DEF Settled, vars
<1> QED BY <1>1, <1>2, <1>3, <1>4, <1>5, <1>6, <1>7, <1>8, <1>9, JobSteps

---------------------------------------------------------------------------
(* The calls in flight: those who owe nothing are counted. *)
LEMMA ClearIsFinite ==
    ASSUME NEW S, S \subseteq Workers
    PROVE  /\ IsFiniteSet(S) /\ Cardinality(S) \in Nat
           /\ \A T : T \subseteq S => Cardinality(T) \in Nat /\ Cardinality(T) <= Cardinality(S)
<1>1. IsFiniteSet(S)  BY FiniteAssumption, FS_Subset
<1> QED BY <1>1, FS_Subset, FS_CardinalityType

LEMMA ClearGrows ==
    ASSUME IInv, NEW w \in Workers, NEW r, run' = [run EXCEPT ![w] = r],
           Owes(r) => Owes(run[w])
    PROVE  Clear \subseteq Clear'
<1> SUFFICES ASSUME NEW v \in Clear PROVE v \in Clear'
  OBVIOUS
<1>1. v \in Workers /\ ~ Owes(run[v])  BY DEF Clear
<1>2. run'[v] = r \/ run'[v] = run[v]  BY <1>1 DEF IInv
<1>3. v = w => run'[v] = r  BY <1>1 DEF IInv
<1>4. v # w => run'[v] = run[v]  BY <1>1 DEF IInv
<1>5. ~ Owes(run'[v])  BY <1>1, <1>3, <1>4
<1> QED BY <1>1, <1>5 DEF Clear

(* While the sum stands still and nobody starts to owe, it stays in reach. *)
LEMMA StillWithinReach ==
    ASSUME Typed, WithinReach, spent' = spent, Clear \subseteq Clear'
    PROVE  WithinReach'
<1>1. /\ Cardinality(Clear) \in Nat /\ Cardinality(Clear') \in Nat
      /\ Cardinality(Clear) <= Cardinality(Clear')
  <2>1. Clear' \subseteq Workers  BY DEF Clear
  <2> QED BY <2>1, ClearIsFinite
<1>2. spent \in Nat /\ Cap \in Nat  BY CapAssumption DEF Typed
<1>3. spent < Cap \/ spent < Cap + 4 * Cardinality(Clear)  BY DEF WithinReach
<1>4. spent' < Cap \/ spent' < Cap + 4 * Cardinality(Clear')
  BY <1>1, <1>2, <1>3
<1> QED BY <1>4 DEF WithinReach

LEMMA CommitWithinReach ==
    ASSUME IInv, Typed, WithinReach, NEW w \in Workers, Commits(w)
    PROVE  WithinReach'
<1>1. PICK rows, status : Outcome(w, rows, status) /\ Written(w, rows, status)
  BY CommitsWrite
<1>2. run' = [run EXCEPT ![w] = Idle] /\ spent' = spent + RowsCost(rows)
  BY <1>1 DEF Written
<1>3. RowsCost(rows) \in 0 .. 4 /\ (Owes(run[w]) \/ RowsCost(rows) = 0)
  BY <1>1 DEF Outcome
<1>4. Clear \subseteq Clear'
  BY <1>2, ClearGrows, IdleFields
<1>5. w \in Clear'
  BY <1>2, IdleFields DEF Clear, IInv
<1>6. /\ Clear \subseteq Workers /\ Clear' \subseteq Workers
      /\ Cardinality(Clear) \in Nat /\ Cardinality(Clear') \in Nat
      /\ Cardinality(Clear) <= Cardinality(Clear')
  <2>1. Clear \subseteq Workers /\ Clear' \subseteq Workers  BY DEF Clear
  <2> QED BY <1>4, <2>1, ClearIsFinite
<1>7. Cardinality(Clear') >= 1
  <2>1. Cardinality({w}) = 1  BY FS_Singleton
  <2>2. Cardinality({w}) <= Cardinality(Clear')  BY <1>5, <1>6, ClearIsFinite
  <2> QED BY <1>6, <2>1, <2>2
<1>8. Owes(run[w]) => Cardinality(Clear) + 1 <= Cardinality(Clear')
  <2> SUFFICES ASSUME Owes(run[w]) PROVE Cardinality(Clear) + 1 <= Cardinality(Clear')
    OBVIOUS
  <2>1. w \notin Clear  BY DEF Clear
  <2>2. IsFiniteSet(Clear)  BY <1>6, ClearIsFinite
  <2>3. Cardinality(Clear \cup {w}) = Cardinality(Clear) + 1
    BY <2>1, <2>2, FS_AddElement
  <2>4. Clear \cup {w} \subseteq Clear'  BY <1>4, <1>5
  <2>5. Cardinality(Clear \cup {w}) <= Cardinality(Clear')
    BY <1>6, <2>4, ClearIsFinite
  <2> QED BY <2>3, <2>5
<1>9. spent \in Nat /\ Cap \in Nat  BY CapAssumption DEF Typed
<1>10. spent < Cap \/ spent < Cap + 4 * Cardinality(Clear)  BY DEF WithinReach
<1> DEFINE c == RowsCost(rows)
           m == Cardinality(Clear)
           n == Cardinality(Clear')
<1>11. /\ c \in 0 .. 4 /\ m \in Nat /\ n \in Nat /\ m <= n /\ n >= 1
       /\ c # 0 => m + 1 <= n
       /\ spent' = spent + c
       /\ spent < Cap \/ spent < Cap + 4 * m
  BY <1>2, <1>3, <1>6, <1>7, <1>8, <1>10
<1>12. spent' < Cap \/ spent' < Cap + 4 * n
  <2> HIDE DEF c, m, n
  <2> QED BY ONLY <1>9, <1>11
<1> QED BY <1>12 DEF WithinReach

LEMMA WithinReachKept == IInv /\ Typed /\ WithinReach /\ [Next]_vars => WithinReach'
<1> SUFFICES ASSUME IInv, Typed, WithinReach, [Next]_vars PROVE WithinReach'
  OBVIOUS
<1>1. ASSUME NEW w \in Workers, NEW a \in Alerts, Claim(w, a) PROVE WithinReach'
  <2>1. PICK r : run' = [run EXCEPT ![w] = r] /\ ~ Owes(r)  BY <1>1, ClaimWrites
  <2>2. spent' = spent  BY <1>1 DEF Claim
  <2> QED BY <2>1, <2>2, ClearGrows, StillWithinReach
<1>2. ASSUME NEW w \in Workers, Skip(w) PROVE WithinReach'
  <2>1. run' = [run EXCEPT ![w] = Idle] /\ spent' = spent  BY <1>2 DEF Skip, Finish
  <2> QED BY <2>1, ClearGrows, StillWithinReach, IdleFields
<1>3. ASSUME NEW w \in Workers, Moves(w) PROVE WithinReach'
  <2>1. PICK r : run' = [run EXCEPT ![w] = r] /\ (Owes(r) => Owes(run[w]) \/ spent < Cap)
    BY <1>3 DEF Moves
  <2>2. spent' = spent  BY <1>3 DEF Moves
  <2>3. CASE spent < Cap  BY <2>2, <2>3 DEF WithinReach
  <2>4. CASE ~ (spent < Cap)  BY <2>1, <2>2, <2>4, ClearGrows, StillWithinReach
  <2> QED BY <2>3, <2>4
<1>4. ASSUME NEW w \in Workers, Raises(w) PROVE WithinReach'
  <2>1. run' = [run EXCEPT ![w] = Idle] /\ spent' = spent
    BY <1>4 DEF Raises, Raise, Finish
  <2> QED BY <2>1, ClearGrows, StillWithinReach, IdleFields
<1>5. ASSUME NEW w \in Workers, Commits(w) PROVE WithinReach'
  BY <1>5, CommitWithinReach
<1>6. ASSUME NEW w \in Workers, Crash(w) PROVE WithinReach'
  <2>1. run' = [run EXCEPT ![w] = Idle] /\ spent' = spent  BY <1>6 DEF Crash
  <2> QED BY <2>1, ClearGrows, StillWithinReach, IdleFields
<1>7. ASSUME UNCHANGED <<run, spent>> PROVE WithinReach'
  BY <1>7 DEF WithinReach, Clear
<1>8. ASSUME NEW a \in Alerts, Reclaim(a) PROVE WithinReach'
  BY <1>7, <1>8 DEF Reclaim
<1>9. ASSUME NEW a \in Alerts, Merge(a) \/ Acknowledge(a) \/ Decide(a) PROVE WithinReach'
  BY <1>7, <1>9, OthersWrite
<1>10. ASSUME UNCHANGED vars PROVE WithinReach'
  BY <1>7, <1>10 DEF vars
<1> QED BY <1>1, <1>2, <1>3, <1>4, <1>5, <1>6, <1>8, <1>9, <1>10, JobSteps

---------------------------------------------------------------------------
LEMMA JobInitially == Init => JobInv
<1> SUFFICES ASSUME Init PROVE JobInv
  OBVIOUS
<1>1. IInv  BY Initially
<1>2. \A w \in Workers : run[w] = Idle  BY DEF Init
<1>3. Typed
  <2>1. alert \in [Alerts -> AlertRows]  BY DEF Init, AlertRows
  <2>2. job \in [Alerts -> JobRows]  BY DEF Init, JobRows
  <2>3. spent \in Nat  BY CapAssumption DEF Init
  <2> QED BY <1>2, <2>1, <2>2, <2>3, IdleFields DEF Typed
<1>4. Alone  BY <1>2, IdleFields DEF Alone, On, Busy
<1>5. OneRow  BY DEF Init, OneRow, Proposers
<1>6. Settled /\ Counted  BY <1>2, IdleFields DEF Init, Settled, Counted, Busy
<1>7. WithinReach
  <2>1. Clear = Workers  BY <1>2, IdleFields DEF Clear
  <2>2. PICK w : w \in Workers  BY FiniteAssumption
  <2>3. Cardinality(Workers) \in Nat /\ Cardinality({w}) <= Cardinality(Workers)
    BY <2>2, ClearIsFinite
  <2>4. Cardinality({w}) = 1  BY FS_Singleton
  <2>5. spent \in 0 .. Cap /\ Cap \in Nat  BY CapAssumption DEF Init
  <2>6. spent < Cap + 4 * Cardinality(Workers)  BY <2>3, <2>4, <2>5
  <2> QED BY <2>1, <2>6 DEF WithinReach
<1> QED BY <1>1, <1>3, <1>4, <1>5, <1>6, <1>7 DEF JobInv

LEMMA JobInductive == JobInv /\ [Next]_vars => JobInv'
BY Inductive, TypedKept, AloneKept, OneRowKept, CountedKept, SettledKept, WithinReachKept DEF JobInv

(* Whatever workers, crashes and lost leases do to each other, an alert     *)
(* whose lease was never lost under a live worker shows one suggestion, and *)
(* the one its triage_status announces.                                     *)
THEOREM SuggestionIsOne == Spec => []OneSuggestion
<1>1. JobInv => OneSuggestion
  <2> SUFFICES ASSUME JobInv, NEW a \in Alerts \ overtaken
               PROVE  /\ Cardinality(Proposers(a)) <= 1
                      /\ \A r \in Proposers(a) : alert[a].triage_status =
                            IF r.result = Null THEN "unavailable" ELSE "ready"
    BY DEF OneSuggestion
  <2>1. \A r, s \in Proposers(a) : r = s  BY DEF JobInv, OneRow
  <2>2. CASE Proposers(a) = {}  BY <2>2, FS_EmptySet DEF JobInv, OneRow
  <2>3. CASE Proposers(a) # {}
    <3>1. PICK r : r \in Proposers(a)  BY <2>3
    <3>2. Proposers(a) = {r}  BY <2>1, <3>1
    <3>3. Cardinality(Proposers(a)) = 1  BY <3>2, FS_Singleton
    <3> QED BY <3>3 DEF JobInv, OneRow
  <2> QED BY <2>2, <2>3
<1> QED BY <1>1, JobInitially, JobInductive, PTL DEF Spec

(* The month's sum passes the cap by no more than four calls a worker, for  *)
(* any cap and any number of workers, although nobody holds a lock between  *)
(* the test of the cap and the commit that is billed.                       *)
THEOREM SpendStaysBounded == Spec => []SpendBounded
<1>1. JobInv => SpendBounded
  <2> SUFFICES ASSUME JobInv PROVE SpendBounded
    OBVIOUS
  <2>1. Clear \subseteq Workers  BY DEF Clear
  <2>2. /\ Cardinality(Clear) \in Nat /\ Cardinality(Workers) \in Nat
        /\ Cardinality(Clear) <= Cardinality(Workers)
    BY <2>1, ClearIsFinite
  <2>3. Cardinality(Workers) >= 1
    <3>1. PICK w : w \in Workers  BY FiniteAssumption
    <3>2. Cardinality({w}) <= Cardinality(Workers)  BY <3>1, ClearIsFinite
    <3>3. Cardinality({w}) = 1  BY FS_Singleton
    <3> QED BY <2>2, <3>2, <3>3
  <2>4. spent \in Nat /\ Cap \in Nat  BY CapAssumption DEF JobInv, Typed
  <2>5. spent < Cap \/ spent < Cap + 4 * Cardinality(Clear)  BY DEF JobInv, WithinReach
  <2>6. spent < Cap + 4 * Cardinality(Workers)  BY <2>2, <2>3, <2>4, <2>5
  <2> QED BY <2>6 DEF SpendBounded
<1> QED BY <1>1, JobInitially, JobInductive, PTL DEF Spec

(* Whatever workers, crashes and lost leases do to each other, a job that   *)
(* settled leaves its alert pending only if it skipped a closed alert, or   *)
(* failed by an error the handler does not catch: a permanent one, or a 5xx *)
(* or an error of the database or the knowledge base with every attempt     *)
(* used.                                                                    *)
THEOREM NothingIsStranded == Spec => []NothingStranded
<1>1. JobInv => NothingStranded  BY DEF JobInv, Settled, Failure, NothingStranded
<1> QED BY <1>1, JobInitially, JobInductive, PTL DEF Spec

---------------------------------------------------------------------------
(* Numbers and sizes. *)

Below == {p \in Nat \X Nat : p[1] < p[2]}

LEMMA LeastNumber ==
    ASSUME NEW S, S \subseteq Nat, S # {}
    PROVE  \E m \in S : \A n \in S : m <= n
<1>1. Below = OpToRel(<, Nat)
  BY Zenon DEF Below, OpToRel
<1>2. IsWellFoundedOn(Below, Nat)
  BY <1>1, NatLessThanWellFounded
<1>3. PICK m \in S : \A n \in S : <<n, m>> \notin Below
  BY <1>2, WFMin
<1>4. ASSUME NEW n \in S
      PROVE  m <= n
  <2>1. n \in Nat /\ m \in Nat
    OBVIOUS
  <2>2. <<n, m>> \notin Below
    BY <1>3
  <2> QED BY <2>1, <2>2 DEF Below
<1> QED BY <1>4

LEMMA SameSize ==
    ASSUME NEW S, NEW T, IsFiniteSet(S), NEW f \in [S -> T],
           \A x, y \in S : f[x] = f[y] => x = y, \A t \in T : \E x \in S : f[x] = t
    PROVE  IsFiniteSet(T) /\ Cardinality(T) = Cardinality(S)
<1>1. f \in Injection(S, T)
  BY DEF Injection, IsInjective
<1>2. f \in Surjection(S, T)
  BY DEF Surjection
<1>3. f \in Bijection(S, T)
  BY <1>1, <1>2 DEF Bijection
<1>4. ExistsBijection(S, T)
  BY <1>3 DEF ExistsBijection
<1> QED BY <1>4, FS_Bijection

LEMMA CountsAny ==
    ASSUME NEW n \in Nat, NEW S, S \subseteq 1 .. n
    PROVE  IsFiniteSet(S) /\ Cardinality(S) \in Nat /\ (Cardinality(S) = 0 <=> S = {})
<1>1. IsFiniteSet(1 .. n)
  BY FS_Interval
<1>2. IsFiniteSet(S)
  BY <1>1, FS_Subset
<1> QED BY <1>2, FS_CardinalityType, FS_EmptySet

---------------------------------------------------------------------------
(* The consistency grid.  A level and the highest level of the grid below   *)
(* it are on the same side of every bound of the grid; so are counts.       *)
LEMMA GridLevel == ASSUME NEW level \in Nat
                   PROVE  \E grid \in GridLevels :
                             /\ \A b \in GridLevels : level >= b <=> grid >= b
                             /\ SeverityFor(grid) = SeverityFor(level)
<1> DEFINE Same(grid) == \A b \in GridLevels : level >= b <=> grid >= b
<1>1. \E grid \in GridLevels : Same(grid)
  <2>1. CASE level >= 15
    <3>1. Same(15) /\ 15 \in GridLevels  BY <2>1 DEF GridLevels
    <3> QED BY <3>1
  <2>2. CASE level \in 12 .. 14
    <3>1. Same(12) /\ 12 \in GridLevels  BY <2>2 DEF GridLevels
    <3> QED BY <3>1
  <2>3. CASE level \in 8 .. 11
    <3>1. Same(8) /\ 8 \in GridLevels  BY <2>3 DEF GridLevels
    <3> QED BY <3>1
  <2>4. CASE level \in 5 .. 7
    <3>1. Same(5) /\ 5 \in GridLevels  BY <2>4 DEF GridLevels
    <3> QED BY <3>1
  <2>5. CASE level \in 3 .. 4
    <3>1. Same(3) /\ 3 \in GridLevels  BY <2>5 DEF GridLevels
    <3> QED BY <3>1
  <2>6. CASE level \in 0 .. 2
    <3>1. Same(0) /\ 0 \in GridLevels  BY <2>6 DEF GridLevels
    <3> QED BY <3>1
  <2> QED BY <2>1, <2>2, <2>3, <2>4, <2>5, <2>6
<1>2. ASSUME NEW grid \in GridLevels, Same(grid)
      PROVE  SeverityFor(grid) = SeverityFor(level)
  <2>1. /\ level >= 12 <=> grid >= 12
        /\ level >= 8 <=> grid >= 8
        /\ level >= 5 <=> grid >= 5
    BY <1>2 DEF GridLevels
  <2>2. grid \in Nat
    BY DEF GridLevels
  <2>3. \A n \in Nat : SeverityFor(n) = IF n >= 12 THEN "critical" ELSE IF n >= 8 THEN "high"
                                        ELSE IF n >= 5 THEN "medium" ELSE "low"
    BY DEF SeverityFor
  <2> QED BY <2>1, <2>2, <2>3
<1> QED BY <1>1, <1>2

LEMMA GridCount == ASSUME NEW count \in Nat \ {0}
                   PROVE  \E grid \in GridCounts :
                             \A b \in GridCounts : count >= b <=> grid >= b
<1> DEFINE Same(grid) == \A b \in GridCounts : count >= b <=> grid >= b
<1>1. CASE count >= 1000
  <2>1. Same(1000) /\ 1000 \in GridCounts  BY <1>1 DEF GridCounts
  <2> QED BY <2>1
<1>2. CASE count = 999
  <2>1. Same(999) /\ 999 \in GridCounts  BY <1>2 DEF GridCounts
  <2> QED BY <2>1
<1>3. CASE count \in 100 .. 998
  <2>1. Same(100) /\ 100 \in GridCounts  BY <1>3 DEF GridCounts
  <2> QED BY <2>1
<1>4. CASE count \in 50 .. 99
  <2>1. Same(50) /\ 50 \in GridCounts  BY <1>4 DEF GridCounts
  <2> QED BY <2>1
<1>5. CASE count = 49
  <2>1. Same(49) /\ 49 \in GridCounts  BY <1>5 DEF GridCounts
  <2> QED BY <2>1
<1>6. CASE count \in 10 .. 48
  <2>1. Same(10) /\ 10 \in GridCounts  BY <1>6 DEF GridCounts
  <2> QED BY <2>1
<1>7. CASE count \in 1 .. 9
  <2>1. Same(1) /\ 1 \in GridCounts  BY <1>7 DEF GridCounts
  <2> QED BY <2>1
<1> QED BY <1>1, <1>2, <1>3, <1>4, <1>5, <1>6, <1>7

(* A rule with such bounds holds for an alert exactly if it holds for the   *)
(* alert of the grid that stands for it.                                    *)
LEMMA GridAlertStands ==
    ASSUME NEW rule, OnGrid(rule), NEW facts, NEW grid,
           facts.rule_level \in Nat, grid.rule_level \in Nat,
           facts.occurrence_count \in Nat, grid.occurrence_count \in Nat,
           \A key \in DOMAIN Vocab : facts[key] = grid[key],
           \A b \in GridLevels : facts.rule_level >= b <=> grid.rule_level >= b,
           \A b \in GridCounts : facts.occurrence_count >= b <=> grid.occurrence_count >= b
    PROVE  RuleMatches(rule, facts) <=> RuleMatches(rule, grid)
<1>1. ASSUME NEW key \in DOMAIN rule.condition
      PROVE  KeyHolds(key, rule.condition[key], facts) <=> KeyHolds(key, rule.condition[key], grid)
  <2> DEFINE b == rule.condition[key]
  <2>1. /\ Bounds["rule_level_lt"] = "rule_level" /\ Bounds["rule_level_gte"] = "rule_level"
        /\ Bounds["occurrence_lt"] = "occurrence_count"
        /\ Bounds["occurrence_gte"] = "occurrence_count"
    BY DEF Bounds
  <2>2. DOMAIN Vocab = {"severity", "ioc_reputation", "asset_criticality", "identity_privileged"}
    BY DEF Vocab
  <2>3. GridLevels \subseteq Nat /\ GridCounts \subseteq Nat
    BY DEF GridLevels, GridCounts
  <2>4. CASE key \in DOMAIN Vocab
    BY <2>2, <2>4 DEF KeyHolds
  <2>5. CASE key \in {"rule_level_lt", "rule_level_gte"}
    <3>1. b \in GridLevels /\ b \in Nat
      BY <2>3, <2>5 DEF OnGrid
    <3>2. facts.rule_level >= b <=> grid.rule_level >= b
      BY <3>1
    <3>3. facts.rule_level < b <=> grid.rule_level < b
      BY <3>1, <3>2
    <3> QED BY <2>1, <2>2, <2>5, <3>2, <3>3 DEF KeyHolds
  <2>6. CASE key \in {"occurrence_lt", "occurrence_gte"}
    <3>1. b \in GridCounts /\ b \in Nat
      BY <2>3, <2>6 DEF OnGrid
    <3>2. facts.occurrence_count >= b <=> grid.occurrence_count >= b
      BY <3>1
    <3>3. facts.occurrence_count < b <=> grid.occurrence_count < b
      BY <3>1, <3>2
    <3> QED BY <2>1, <2>2, <2>6, <3>2, <3>3 DEF KeyHolds
  <2>7. CASE /\ key \notin DOMAIN Vocab
             /\ key \notin {"rule_level_lt", "rule_level_gte", "occurrence_lt", "occurrence_gte"}
    BY <2>7 DEF KeyHolds
  <2> QED BY <2>4, <2>5, <2>6, <2>7
<1> QED BY <1>1 DEF RuleMatches

(* The consistency check of a table (kb/lookup.py) walks six levels and     *)
(* seven counts.  That is enough for every alert there can be, as long as   *)
(* the bounds of the rules are points of the grid, as those of kb/ are: a   *)
(* table that passes has no two rules of different actions that both hold.  *)
THEOREM GridIsEnough ==
    ASSUME NEW table, \A rule \in table.rules : OnGrid(rule),
           NEW levels \in SUBSET Nat, NEW counts \in SUBSET (Nat \ {0})
    PROVE  GridSuffices(table, levels, counts)
<1> DEFINE at(level, count, ioc, asset, priv) ==
              [severity |-> SeverityFor(level), rule_level |-> level,
               ioc_reputation |-> ioc, asset_criticality |-> asset,
               identity_privileged |-> priv, occurrence_count |-> count]
<1> SUFFICES ASSUME CheckConsistency(table),
                    NEW level \in levels, NEW count \in counts, NEW ioc \in Vocab.ioc_reputation,
                    NEW asset \in Vocab.asset_criticality, NEW priv \in Vocab.identity_privileged,
                    Contradicts(table, at(level, count, ioc, asset, priv))
             PROVE  FALSE
  BY DEF GridSuffices
<1>1. PICK low \in GridLevels : /\ \A b \in GridLevels : level >= b <=> low >= b
                                /\ SeverityFor(low) = SeverityFor(level)
  BY GridLevel
<1>2. PICK few \in GridCounts : \A b \in GridCounts : count >= b <=> few >= b
  BY GridCount
<1> DEFINE facts == at(level, count, ioc, asset, priv)
           grid == at(low, few, ioc, asset, priv)
<1>3. low \in Nat /\ few \in Nat /\ level \in Nat /\ count \in Nat
  BY DEF GridLevels, GridCounts
<1>4. /\ facts.rule_level = level /\ grid.rule_level = low
      /\ facts.occurrence_count = count /\ grid.occurrence_count = few
  OBVIOUS
<1>5. \A key \in DOMAIN Vocab : facts[key] = grid[key]
  BY <1>1 DEF Vocab
<1>6. PICK r \in table.rules, s \in table.rules :
         RuleMatches(r, facts) /\ RuleMatches(s, facts) /\ r.action # s.action
  BY DEF Contradicts
<1> HIDE DEF facts, grid
<1>7. \A rule \in table.rules : RuleMatches(rule, facts) <=> RuleMatches(rule, grid)
  BY <1>1, <1>2, <1>3, <1>4, <1>5, GridAlertStands
<1>8. Contradicts(table, grid)
  BY <1>6, <1>7 DEF Contradicts
<1>9. ~ Contradicts(table, grid)
  BY DEF CheckConsistency, grid
<1> QED BY <1>8, <1>9

---------------------------------------------------------------------------
Keyed == DOMAIN Vocab \cup DOMAIN Bounds

(* What _validate_condition lets through. *)
IsCondition(condition) ==
    /\ DOMAIN condition \subseteq Keyed
    /\ condition = [key \in DOMAIN condition |-> condition[key]]
    /\ \A key \in DOMAIN condition \cap DOMAIN Vocab : condition[key] # {}

LEMMA KeysApart == /\ DOMAIN Vocab \cap DOMAIN Bounds = {}
                   /\ "rule" \notin Keyed /\ "then" \notin Keyed
BY DEF Vocab, Bounds, Keyed

LEMMA LineFacts ==
    ASSUME NEW rule, NEW f
    PROVE  f \in Line(rule) <=>
              \/ f = <<"rule", rule.id>> \/ f = <<"then", rule.action>>
              \/ \E key \in DOMAIN rule.condition \cap DOMAIN Vocab :
                    \E word \in rule.condition[key] : f = <<key, word>>
              \/ \E key \in DOMAIN rule.condition \cap DOMAIN Bounds :
                    f = <<key, rule.condition[key]>>
<1> DEFINE c == rule.condition
           words(key) == {<<key, word>> : word \in c[key]}
           lists == UNION {words(key) : key \in DOMAIN c \cap DOMAIN Vocab}
           numbers == {<<key, c[key]>> : key \in DOMAIN c \cap DOMAIN Bounds}
<1>1. Line(rule) = {<<"rule", rule.id>>, <<"then", rule.action>>} \cup lists \cup numbers
  BY DEF Line
<1>2. f \in numbers <=> \E key \in DOMAIN c \cap DOMAIN Bounds : f = <<key, c[key]>>
  OBVIOUS
<1>3. f \in lists <=> \E key \in DOMAIN c \cap DOMAIN Vocab : f \in words(key)
  <2> HIDE DEF words
  <2> QED OBVIOUS
<1>4. \A key : f \in words(key) <=> \E word \in c[key] : f = <<key, word>>
  OBVIOUS
<1> HIDE DEF words, lists, numbers
<1>5. f \in lists <=> \E key \in DOMAIN c \cap DOMAIN Vocab : \E word \in c[key] : f = <<key, word>>
  BY <1>3, <1>4
<1> QED BY <1>1, <1>2, <1>5

(* A line of the verifier's table says what its rule says, and whose it is. *)
LEMMA LineIsItsRule ==
    ASSUME NEW rule, IsCondition(rule.condition)
    PROVE  Read(Line(rule)) = rule.condition
<1> DEFINE line == Line(rule)
           c == rule.condition
           keys == {f[1] : f \in line} \ {"rule", "then"}
           value(key) == IF key \in DOMAIN Vocab THEN {f[2] : f \in {g \in line : g[1] = key}}
                         ELSE (CHOOSE f \in line : f[1] = key)[2]
<1>1. \A f : f \in line <=>
                \/ f = <<"rule", rule.id>> \/ f = <<"then", rule.action>>
                \/ \E key \in DOMAIN c \cap DOMAIN Vocab : \E word \in c[key] : f = <<key, word>>
                \/ \E key \in DOMAIN c \cap DOMAIN Bounds : f = <<key, c[key]>>
  BY LineFacts
<1>2. Read(line) = [key \in keys |-> value(key)]
  BY DEF Read
<1> HIDE DEF line
<1>3. keys = DOMAIN c
  <2>1. ASSUME NEW key \in keys
        PROVE  key \in DOMAIN c
    <3>1. PICK f \in line : f[1] = key
      OBVIOUS
    <3>2. key # "rule" /\ key # "then"
      OBVIOUS
    <3> QED BY <1>1, <3>1, <3>2
  <2>2. ASSUME NEW key \in DOMAIN c
        PROVE  key \in keys
    <3>1. key # "rule" /\ key # "then"
      BY KeysApart DEF IsCondition
    <3>2. \E f \in line : f[1] = key
      <4>1. CASE key \in DOMAIN Vocab
        <5>1. PICK word \in c[key] : TRUE
          BY <4>1 DEF IsCondition
        <5>2. <<key, word>> \in line
          BY <1>1, <4>1
        <5> QED BY <5>2
      <4>2. CASE key \in DOMAIN Bounds
        <5>1. <<key, c[key]>> \in line
          BY <1>1, <4>2
        <5> QED BY <5>1
      <4> QED BY <4>1, <4>2 DEF IsCondition, Keyed
    <3> QED BY <3>1, <3>2
  <2> QED BY <2>1, <2>2
<1>4. ASSUME NEW key \in DOMAIN c
      PROVE  value(key) = c[key]
  <2>1. key # "rule" /\ key # "then"
    BY KeysApart DEF IsCondition
  <2>2. CASE key \in DOMAIN Vocab
    <3>1. key \notin DOMAIN Bounds
      BY <2>2, KeysApart
    <3>2. \A f : f \in line /\ f[1] = key <=> \E word \in c[key] : f = <<key, word>>
      <4>1. ASSUME NEW f \in line, f[1] = key
            PROVE  \E word \in c[key] : f = <<key, word>>
        BY <1>1, <2>1, <3>1, <4>1
      <4>2. ASSUME NEW word \in c[key]
            PROVE  <<key, word>> \in line /\ <<key, word>>[1] = key
        BY <1>1, <2>2
      <4> QED BY <4>1, <4>2
    <3>3. {f[2] : f \in {g \in line : g[1] = key}} = c[key]
      <4>1. ASSUME NEW word \in c[key]
            PROVE  word \in {f[2] : f \in {g \in line : g[1] = key}}
        <5>1. <<key, word>> \in {g \in line : g[1] = key} /\ <<key, word>>[2] = word
          BY <3>2
        <5> QED BY <5>1
      <4>2. ASSUME NEW f \in {g \in line : g[1] = key}
            PROVE  f[2] \in c[key]
        BY <3>2
      <4> QED BY <4>1, <4>2
    <3> QED BY <2>2, <3>3
  <2>3. CASE key \in DOMAIN Bounds
    <3>1. key \notin DOMAIN Vocab
      BY <2>3, KeysApart
    <3>2. <<key, c[key]>> \in line
      BY <1>1, <2>3
    <3>3. \A f \in line : f[1] = key => f = <<key, c[key]>>
      BY <1>1, <2>1, <3>1
    <3> DEFINE chosen == CHOOSE f \in line : f[1] = key
    <3>4. chosen = <<key, c[key]>>
      BY <3>2, <3>3
    <3>5. value(key) = chosen[2]
      BY <3>1
    <3> HIDE DEF chosen, value
    <3> QED BY <3>4, <3>5
  <2> QED BY <2>2, <2>3 DEF IsCondition, Keyed
<1> HIDE DEF keys, value
<1>5. Read(line) = [key \in DOMAIN c |-> c[key]]
  BY <1>2, <1>3, <1>4
<1> QED BY <1>5 DEF line, IsCondition

LEMMA LineNamesItsRule ==
    ASSUME NEW r, NEW s, IsCondition(r.condition), IsCondition(s.condition), Line(r) = Line(s)
    PROVE  r.id = s.id
<1>1. <<"rule", r.id>> \in Line(s)
  BY DEF Line
<1>2. \A key \in DOMAIN s.condition : key # "rule"
  BY KeysApart DEF IsCondition
<1>3. <<"rule", r.id>> = <<"rule", s.id>>
  BY <1>1, <1>2, LineFacts
<1> QED BY <1>3

(* A document that is not refused: its rules, each under its own identifier. *)
LEMMA ParsedRules ==
    ASSUME NEW kb, IsBook(kb), kb.table # Null, ValidDocument(kb)
    PROVE  LET raw == kb.table.rules
               rules == Parsed(kb.table).rules
           IN  /\ rules = {[id |-> raw[i].id, action |-> raw[i].then,
                            condition |-> [key \in DOMAIN raw[i].if |-> raw[i].if[key].of]] :
                              i \in 1 .. Len(raw)}
               /\ \A i, j \in 1 .. Len(raw) : raw[i].id = raw[j].id => i = j
               /\ \A rule \in rules : IsCondition(rule.condition)
               /\ \A rule \in rules, other \in rules : rule.id = other.id => rule = other
<1> DEFINE raw == kb.table.rules
           rules == Parsed(kb.table).rules
           condition(i) == [key \in DOMAIN raw[i].if |-> raw[i].if[key].of]
           parsed(i) == [id |-> raw[i].id, action |-> raw[i].then, condition |-> condition(i)]
<1>1. rules = {parsed(i) : i \in 1 .. Len(raw)}
  BY DEF Parsed, IsBook
<1>2. \A i \in 1 .. Len(raw) : ValidRule(raw, i)
  BY DEF ValidDocument, IsBook
<1>3. Len(raw) \in Nat
  BY DEF IsBook
<1>4. ASSUME NEW i \in 1 .. Len(raw), NEW j \in 1 .. Len(raw), raw[i].id = raw[j].id
      PROVE  i = j
  <2>1. CASE i < j
    <3>1. i \in 1 .. j - 1  BY <1>3, <2>1
    <3> QED BY <1>2, <1>4, <3>1 DEF ValidRule
  <2>2. CASE j < i
    <3>1. j \in 1 .. i - 1  BY <1>3, <2>2
    <3> QED BY <1>2, <1>4, <3>1 DEF ValidRule
  <2> QED BY <1>3, <2>1, <2>2
<1>5. ASSUME NEW i \in 1 .. Len(raw)
      PROVE  IsCondition(condition(i))
  <2>1. /\ DOMAIN condition(i) = DOMAIN raw[i].if
        /\ \A key \in DOMAIN raw[i].if : /\ condition(i)[key] = raw[i].if[key].of
                                         /\ ValidValue(key, raw[i].if[key])
    BY <1>2 DEF ValidRule, ValidCondition
  <2>2. condition(i) = [key \in DOMAIN condition(i) |-> condition(i)[key]]
    OBVIOUS
  <2> HIDE DEF condition
  <2>3. ASSUME NEW key \in DOMAIN condition(i)
        PROVE  key \in Keyed /\ (key \in DOMAIN Vocab => condition(i)[key] # {})
    BY <2>1, KeysApart DEF ValidValue, Keyed
  <2> QED BY <2>2, <2>3 DEF IsCondition
<1> HIDE DEF condition
<1>6. \A i \in 1 .. Len(raw) : parsed(i).condition = condition(i) /\ parsed(i).id = raw[i].id
  OBVIOUS
<1> HIDE DEF parsed
<1>7. \A rule \in rules : IsCondition(rule.condition)
  BY <1>1, <1>5, <1>6
<1>8. \A rule \in rules, other \in rules : rule.id = other.id => rule = other
  BY <1>1, <1>4, <1>6
<1> HIDE DEF rules
<1> QED BY <1>1, <1>4, <1>7, <1>8 DEF parsed, condition, rules

(* There are as many lines and warnings as rules. *)
LEMMA RulesAreCounted ==
    ASSUME NEW kb, IsBook(kb), kb.table # Null, ValidDocument(kb)
    PROVE  LET rules == Parsed(kb.table).rules
               lines == {Line(rule) : rule \in {r \in rules : r.id \in RuleRefs}}
               warnings == {<<"invalid_rule_ref", r.id>> :
                                r \in {r \in rules : r.id \notin RuleRefs}}
           IN  Cardinality(lines) + Cardinality(warnings) = Len(kb.table.rules)
<1> DEFINE raw == kb.table.rules
           rules == Parsed(kb.table).rules
           shown == {r \in rules : r.id \in RuleRefs}
           left == {r \in rules : r.id \notin RuleRefs}
           lines == {Line(rule) : rule \in shown}
           warnings == {<<"invalid_rule_ref", r.id>> : r \in left}
           parsed(i) == [id |-> raw[i].id, action |-> raw[i].then,
                         condition |-> [key \in DOMAIN raw[i].if |-> raw[i].if[key].of]]
           f == [i \in 1 .. Len(raw) |-> parsed(i)]
           g == [r \in shown |-> Line(r)]
           h == [r \in left |-> <<"invalid_rule_ref", r.id>>]
<1>1. /\ rules = {parsed(i) : i \in 1 .. Len(raw)}
      /\ \A i, j \in 1 .. Len(raw) : raw[i].id = raw[j].id => i = j
      /\ \A rule \in rules : IsCondition(rule.condition)
      /\ \A rule \in rules, other \in rules : rule.id = other.id => rule = other
  BY ParsedRules
<1>2. Len(raw) \in Nat
  BY DEF IsBook
<1>3. \A i \in 1 .. Len(raw) : parsed(i).id = raw[i].id
  OBVIOUS
<1> HIDE DEF parsed, rules
<1>4. /\ f \in [1 .. Len(raw) -> rules] /\ \A r \in rules : \E i \in 1 .. Len(raw) : f[i] = r
      /\ \A i, j \in 1 .. Len(raw) : f[i] = f[j] => i = j
  <2>1. f \in [1 .. Len(raw) -> rules] /\ \A r \in rules : \E i \in 1 .. Len(raw) : f[i] = r
    BY <1>1
  <2>2. \A i, j \in 1 .. Len(raw) : f[i] = f[j] => i = j
    BY <1>1, <1>3
  <2> QED BY <2>1, <2>2
<1>5. IsFiniteSet(rules) /\ Cardinality(rules) = Len(raw)
  <2>1. IsFiniteSet(1 .. Len(raw)) /\ Cardinality(1 .. Len(raw)) = Len(raw)
    <3> DEFINE n == Len(raw)
    <3>1. n \in Nat
      BY <1>2
    <3> HIDE DEF n
    <3>2. IsFiniteSet(1 .. n) /\ Cardinality(1 .. n) = n
      <4>1. 1 \in Int /\ n \in Int /\ (IF 1 > n THEN 0 ELSE n - 1 + 1) = n
        BY <3>1
      <4> QED BY <4>1, FS_Interval
    <3> QED BY <3>2 DEF n
  <2> HIDE DEF f
  <2> DEFINE indices == 1 .. Len(raw)
  <2>2. /\ IsFiniteSet(indices) /\ Cardinality(indices) = Len(raw) /\ f \in [indices -> rules]
        /\ \A r \in rules : \E i \in indices : f[i] = r
        /\ \A i, j \in indices : f[i] = f[j] => i = j
    BY <1>4, <2>1
  <2> HIDE DEF indices
  <2>3. IsFiniteSet(rules) /\ Cardinality(rules) = Cardinality(indices)
    BY <2>2, SameSize
  <2> QED BY <2>2, <2>3
<1>6. /\ IsFiniteSet(shown) /\ IsFiniteSet(left)
      /\ Cardinality(shown) + Cardinality(left) = Cardinality(rules)
  <2>1. IsFiniteSet(shown) /\ IsFiniteSet(left)
    BY <1>5, FS_Subset
  <2>2. shown \cup left = rules /\ shown \cap left = {}
    OBVIOUS
  <2> HIDE DEF shown, left
  <2>3. Cardinality(rules) = Cardinality(shown) + Cardinality(left) - Cardinality({})
    BY <2>1, <2>2, FS_Union
  <2>4. Cardinality({}) = 0 /\ Cardinality(shown) \in Nat /\ Cardinality(left) \in Nat
    BY <2>1, FS_EmptySet, FS_CardinalityType
  <2> QED BY <2>1, <2>3, <2>4
<1>7. Cardinality(lines) = Cardinality(shown)
  <2>1. g \in [shown -> lines] /\ \A line \in lines : \E r \in shown : g[r] = line
    OBVIOUS
  <2>2. \A r, s \in shown : g[r] = g[s] => r = s
    BY <1>1, LineNamesItsRule
  <2> HIDE DEF g, lines, shown
  <2> QED BY <1>6, <2>1, <2>2, SameSize
<1>8. Cardinality(warnings) = Cardinality(left)
  <2>1. h \in [left -> warnings] /\ \A w \in warnings : \E r \in left : h[r] = w
    OBVIOUS
  <2>2. \A r, s \in left : h[r] = h[s] => r = s
    BY <1>1
  <2> HIDE DEF h, warnings, left
  <2> QED BY <1>6, <2>1, <2>2, SameSize
<1>9. Cardinality(lines) + Cardinality(warnings) = Len(raw)
  BY <1>5, <1>6, <1>7, <1>8
<1> QED BY <1>9 DEF rules

(* What the prompts are made of is what the gate decides by: unless the     *)
(* files are refused, the playbook the run names as used (get_playbook,     *)
(* _playbook_section) is that of a reviewed table, which the verifier is    *)
(* shown whole (_table_section) but for the rules it cannot be shown, each  *)
(* warned of, and each line reads as its rule.                              *)
THEOREM RulebooksAreSound == ASSUME NEW kb, IsBook(kb)
                             PROVE  RulebookSound(kb)
<1> DEFINE loaded == GetDecisionTable(kb)
           table == loaded.table
           prose == PlaybookSection(kb, table)
           rules == TableSection(kb.category, table)
<1> SUFFICES ASSUME ~ loaded.refused
             PROVE  /\ prose.effective = rules.effective
                    /\ prose.effective # Null =>
                       /\ prose.prose /\ Null \notin {kb.table.reviewed_by, kb.table.reviewed_at}
                       /\ Cardinality(rules.lines) + Cardinality(rules.warnings)
                          = Len(kb.table.rules)
                       /\ \A rule \in table.rules :
                             /\ \A other \in table.rules : other.id = rule.id => other = rule
                             /\ rule.id \in RuleRefs =>
                                \E line \in rules.lines :
                                   /\ {<<"rule", rule.id>>, <<"then", rule.action>>} \subseteq line
                                   /\ Read(line) = rule.condition
  BY DEF RulebookSound
<1>1. CASE table = Null
  <2>1. prose.effective = Null /\ rules.effective = Null
    <3> HIDE DEF table
    <3> QED BY <1>1 DEF PlaybookSection, TableSection, Shown
  <2> QED BY <2>1
<1>2. CASE table # Null
  <2>1. /\ kb.category # "unknown" /\ kb.table # Null /\ ValidDocument(kb)
        /\ loaded = LoadedTable(Parsed(kb.table))
    <3>1. CASE kb.category = "unknown" \/ kb.table = Null
      <4>1. loaded = LoadedTable(Null)
        BY <3>1 DEF GetDecisionTable
      <4>2. loaded.table = Null
        BY <4>1 DEF LoadedTable
      <4> QED BY <1>2, <4>2
    <3>2. CASE kb.category # "unknown" /\ kb.table # Null /\ ~ ValidDocument(kb)
      <4>1. loaded = Refused
        BY <3>2 DEF GetDecisionTable
      <4>2. loaded.refused = TRUE
        BY <4>1 DEF Refused
      <4> QED BY <4>2
    <3>3. CASE kb.category # "unknown" /\ kb.table # Null /\ ValidDocument(kb)
      BY <3>3 DEF GetDecisionTable
    <3> QED BY <3>1, <3>2, <3>3
  <2>2. table = Parsed(kb.table)
    BY <2>1 DEF LoadedTable
  <2>3. /\ kb.playbook # Null /\ GetPlaybook(kb) = kb.playbook.text
        /\ GetPlaybook(kb) \notin {Null, ""}
    BY <2>1 DEF ValidDocument, GetPlaybook, IsBook
  <2>4. table.reviewed = (Null \notin {kb.table.reviewed_by, kb.table.reviewed_at})
    BY <2>2 DEF Parsed
  <2> HIDE DEF table
  <2>5. CASE ~ table.reviewed
    <3>1. prose.effective = Null
      BY <1>2, <2>3, <2>5 DEF PlaybookSection
    <3>2. rules.effective = Null
      BY <2>5 DEF TableSection, Shown
    <3> QED BY <3>1, <3>2
  <2>6. CASE table.reviewed
    <3> DEFINE lines == {Line(rule) : rule \in {r \in table.rules : r.id \in RuleRefs}}
               warnings == {<<"invalid_rule_ref", r.id>> :
                                r \in {r \in table.rules : r.id \notin RuleRefs}}
    <3>1. prose.prose = TRUE /\ prose.effective = kb.category
      BY <1>2, <2>3, <2>6 DEF PlaybookSection
    <3>2. rules = [effective |-> kb.category, lines |-> lines, warnings |-> warnings]
      BY <1>2, <2>6 DEF TableSection, Shown
    <3>3. rules.effective = kb.category /\ rules.lines = lines /\ rules.warnings = warnings
      BY <3>2
    <3>4. Cardinality(lines) + Cardinality(warnings) = Len(kb.table.rules)
      BY <2>1, <2>2, RulesAreCounted
    <3>5. \A rule \in table.rules : /\ IsCondition(rule.condition)
                                    /\ \A other \in table.rules : other.id = rule.id => other = rule
      BY <2>1, <2>2, ParsedRules
    <3>6. ASSUME NEW rule \in table.rules, rule.id \in RuleRefs
          PROVE  /\ Line(rule) \in lines
                 /\ {<<"rule", rule.id>>, <<"then", rule.action>>} \subseteq Line(rule)
                 /\ Read(Line(rule)) = rule.condition
      <4>1. Line(rule) \in lines
        BY <3>6
      <4>2. {<<"rule", rule.id>>, <<"then", rule.action>>} \subseteq Line(rule)
        BY LineFacts
      <4>3. Read(Line(rule)) = rule.condition
        BY <3>5, LineIsItsRule
      <4> QED BY <4>1, <4>2, <4>3
    <3> HIDE DEF lines, warnings, prose, rules
    <3> QED BY <2>4, <2>6, <3>1, <3>3, <3>4, <3>5, <3>6
  <2> QED BY <2>5, <2>6 DEF table
<1> QED BY <1>1, <1>2

---------------------------------------------------------------------------
(* The budget. *)

Limits == [log : Nat, rows : Nat, samples : Nat]

(* The limits and the warnings once the first i - 1 cuts have been made. *)
LimitsAt(inp, i) ==
    LET loaded == Loaded(inp)
        all == loaded.samples
    IN  [log |-> IF i >= 2 /\ inp.log > LogCut THEN LogCut ELSE LogLimit,
         rows |-> IF i >= 5 THEN LeastOf(loaded.rows, RowsCut) ELSE loaded.rows,
         samples |-> IF i >= 4 THEN 0 ELSE IF i >= 3 THEN LeastOf(all, SamplesCut) ELSE all]

CutNames == <<"raw_log_cut_to_8192", "correlation_samples_cut_to_3",
              "correlation_samples_dropped", "correlation_rows_cut_to_10">>

WarningsAt(inp, i) == {CutNames[k] : k \in {j \in 1 .. i - 1 : Cuts(inp)[j].changes}}

StateAt(inp, i) == [limits |-> LimitsAt(inp, i), warnings |-> WarningsAt(inp, i)]

LEMMA LeastType == ASSUME NEW m \in Nat, NEW n \in Nat
                   PROVE  /\ LeastOf(m, n) \in Nat /\ LeastOf(m, n) <= m /\ LeastOf(m, n) <= n
                          /\ m <= n => LeastOf(m, n) = m
                          /\ n <= m => LeastOf(m, n) = n
BY DEF LeastOf

LEMMA LoadedType ==
    ASSUME NEW inp, IsInput(inp)
    PROVE  /\ Loaded(inp) \in Limits /\ Loaded(inp).log = LogLimit
           /\ Loaded(inp).rows = 0 => inp.rows = 0 /\ Loaded(inp).samples = 0
           /\ \A i : LimitsAt(inp, i) \in Limits
<1>1. /\ LeastOf(inp.rows, MostRows) \in Nat /\ LeastOf(inp.samples, MostSamples) \in Nat
      /\ LeastOf(inp.rows, MostRows) = 0 => inp.rows = 0
  <2>1. MostRows \in Nat /\ MostRows # 0 /\ MostSamples \in Nat
    BY PromptAssumption
  <2> QED BY <2>1 DEF IsInput, LeastOf
<1>2. /\ Loaded(inp) \in Limits /\ Loaded(inp).log = LogLimit
      /\ Loaded(inp).rows = 0 => inp.rows = 0 /\ Loaded(inp).samples = 0
  BY <1>1, PromptAssumption DEF Loaded, Limits
<1>3. ASSUME NEW i
      PROVE  LimitsAt(inp, i) \in Limits
  <2>1. /\ LeastOf(Loaded(inp).rows, RowsCut) \in Nat
        /\ LeastOf(Loaded(inp).samples, SamplesCut) \in Nat
        /\ Loaded(inp).rows \in Nat /\ Loaded(inp).samples \in Nat
        /\ LogCut \in Nat /\ LogLimit \in Nat
    BY <1>2, PromptAssumption, LeastType DEF Limits
  <2> QED BY <2>1 DEF LimitsAt, Limits
<1> QED BY <1>2, <1>3

LEMMA CutsAre ==
    ASSUME NEW inp
    PROVE  LET c == Cuts(inp)
               loaded == Loaded(inp)
           IN  /\ Len(c) = 4 /\ \A i \in 1 .. 4 : c[i].name = CutNames[i]
               /\ c[1].key = "log" /\ c[1].value = LogCut
               /\ c[1].changes <=> loaded.log > LogCut /\ inp.log > LogCut
               /\ c[2].key = "samples" /\ c[2].value = SamplesCut
               /\ c[2].changes <=> loaded.samples > SamplesCut
               /\ c[3].key = "samples" /\ c[3].value = 0
               /\ c[3].changes <=> loaded.samples > 0
               /\ c[4].key = "rows" /\ c[4].value = RowsCut
               /\ c[4].changes <=> loaded.rows > RowsCut
<1> DEFINE loaded == Loaded(inp)
           rec(name, key, value, changes) ==
              [name |-> name, key |-> key, value |-> value, changes |-> changes]
           c1 == rec("raw_log_cut_to_8192", "log", LogCut, loaded.log > LogCut /\ inp.log > LogCut)
           c2 == rec("correlation_samples_cut_to_3", "samples", SamplesCut,
                     loaded.samples > SamplesCut)
           c3 == rec("correlation_samples_dropped", "samples", 0, loaded.samples > 0)
           c4 == rec("correlation_rows_cut_to_10", "rows", RowsCut, loaded.rows > RowsCut)
<1>1. Cuts(inp) = <<c1, c2, c3, c4>>
  BY DEF Cuts
<1> HIDE DEF c1, c2, c3, c4, loaded
<1>2. /\ Len(Cuts(inp)) = 4 /\ Cuts(inp)[1] = c1 /\ Cuts(inp)[2] = c2
      /\ Cuts(inp)[3] = c3 /\ Cuts(inp)[4] = c4
  BY <1>1
<1>3. /\ c1.key = "log" /\ c1.value = LogCut /\ c1.name = "raw_log_cut_to_8192"
      /\ c1.changes <=> loaded.log > LogCut /\ inp.log > LogCut
  BY DEF c1
<1>4. /\ c2.key = "samples" /\ c2.value = SamplesCut /\ c2.name = "correlation_samples_cut_to_3"
      /\ c2.changes <=> loaded.samples > SamplesCut
  BY DEF c2
<1>5. /\ c3.key = "samples" /\ c3.value = 0 /\ c3.name = "correlation_samples_dropped"
      /\ c3.changes <=> loaded.samples > 0
  BY DEF c3
<1>6. /\ c4.key = "rows" /\ c4.value = RowsCut /\ c4.name = "correlation_rows_cut_to_10"
      /\ c4.changes <=> loaded.rows > RowsCut
  BY DEF c4
<1>7. \A i \in 1 .. 4 : Cuts(inp)[i].name = CutNames[i]
  BY <1>2, <1>3, <1>4, <1>5, <1>6 DEF CutNames
<1> QED BY <1>2, <1>3, <1>4, <1>5, <1>6, <1>7 DEF loaded

(* A cut takes the state before it to the state after it. *)
LEMMA CutStep ==
    ASSUME NEW inp, IsInput(inp), NEW i \in 1 .. 4
    PROVE  (IF Cuts(inp)[i].changes THEN Cut(StateAt(inp, i), Cuts(inp)[i]) ELSE StateAt(inp, i))
           = StateAt(inp, i + 1)
<1> DEFINE c == Cuts(inp)[i]
           now == StateAt(inp, i)
           next == StateAt(inp, i + 1)
           loaded == Loaded(inp)
<1>1. WarningsAt(inp, i + 1) = IF c.changes THEN WarningsAt(inp, i) \cup {c.name}
                               ELSE WarningsAt(inp, i)
  <2>1. c.name = CutNames[i]
    BY CutsAre
  <2>2. 1 .. (i + 1) - 1 = (1 .. i - 1) \cup {i}
    OBVIOUS
  <2> QED BY <2>1, <2>2 DEF WarningsAt
<1>2. LimitsAt(inp, i + 1) = IF c.changes THEN [LimitsAt(inp, i) EXCEPT ![c.key] = c.value]
                             ELSE LimitsAt(inp, i)
  <2>1. /\ loaded \in Limits /\ loaded.log = LogLimit
        /\ LogCut \in Nat /\ LogLimit \in Nat /\ LogCut < LogLimit /\ RowsCut \in Nat
        /\ SamplesCut \in Nat /\ 0 < SamplesCut
    BY LoadedType, PromptAssumption
  <2>2. loaded.rows \in Nat /\ loaded.samples \in Nat
    BY <2>1 DEF Limits
  <2>3. CASE i = 1
    <3>1. c.key = "log" /\ c.value = LogCut /\ (c.changes <=> inp.log > LogCut)
      BY <2>1, <2>3, CutsAre
    <3> QED BY <2>3, <3>1 DEF LimitsAt
  <2>4. CASE i = 2
    <3>1. c.key = "samples" /\ c.value = SamplesCut /\ (c.changes <=> loaded.samples > SamplesCut)
      BY <2>4, CutsAre
    <3> QED BY <2>1, <2>2, <2>4, <3>1 DEF LimitsAt, LeastOf
  <2>5. CASE i = 3
    <3>1. c.key = "samples" /\ c.value = 0 /\ (c.changes <=> loaded.samples > 0)
      BY <2>5, CutsAre
    <3> QED BY <2>1, <2>2, <2>5, <3>1 DEF LimitsAt, LeastOf
  <2>6. CASE i = 4
    <3>1. c.key = "rows" /\ c.value = RowsCut /\ (c.changes <=> loaded.rows > RowsCut)
      BY <2>6, CutsAre
    <3> QED BY <2>1, <2>2, <2>6, <3>1 DEF LimitsAt, LeastOf
  <2> QED BY <2>3, <2>4, <2>5, <2>6
<1>3. /\ now.limits = LimitsAt(inp, i) /\ now.warnings = WarningsAt(inp, i)
      /\ next = [limits |-> LimitsAt(inp, i + 1), warnings |-> WarningsAt(inp, i + 1)]
  BY DEF StateAt
<1> HIDE DEF now, next
<1>4. CASE c.changes
  BY <1>1, <1>2, <1>3, <1>4 DEF Cut, now, next
<1>5. CASE ~ c.changes
  <2>1. next = [limits |-> LimitsAt(inp, i), warnings |-> WarningsAt(inp, i)]
    BY <1>1, <1>2, <1>3, <1>5
  <2> QED BY <1>5, <2>1 DEF StateAt, next
<1> QED BY <1>4, <1>5 DEF now, next

(* What the limits let through is the rung. *)
LEMMA RungIsRendered ==
    ASSUME NEW inp, IsInput(inp), NEW i \in 1 .. 5
    PROVE  /\ Rendered(inp, LimitsAt(inp, i)) = Ladder(inp)[i]
           /\ DOMAIN Ladder(inp) = 1 .. 5 /\ Len(Ladder(inp)) = 5
<1> DEFINE loaded == Loaded(inp)
<1>1. /\ loaded \in Limits /\ loaded.log = LogLimit /\ (loaded.rows = 0 => loaded.samples = 0)
      /\ LogCut \in Nat /\ LogLimit \in Nat /\ LogCut < LogLimit /\ RowsCut \in Nat
      /\ SamplesCut \in Nat /\ 0 < SamplesCut /\ inp.log \in Nat
  BY LoadedType, PromptAssumption DEF IsInput
<1>2. loaded.rows \in Nat /\ loaded.samples \in Nat
  BY <1>1 DEF Limits
<1> DEFINE top == [log |-> LeastOf(inp.log, LogLimit), rows |-> loaded.rows,
                   samples |-> loaded.samples]
           log == [log |-> LeastOf(inp.log, LogCut), rows |-> loaded.rows,
                   samples |-> loaded.samples]
           few == [log |-> LeastOf(inp.log, LogCut), rows |-> loaded.rows,
                   samples |-> LeastOf(loaded.samples, SamplesCut)]
           none == [log |-> LeastOf(inp.log, LogCut), rows |-> loaded.rows, samples |-> 0]
           last == [log |-> LeastOf(inp.log, LogCut), rows |-> LeastOf(loaded.rows, RowsCut),
                    samples |-> 0]
<1> HIDE DEF loaded
<1>3. Rendered(inp, loaded) = top
  BY <1>1, <1>2 DEF Rendered, Limits
<1>4. LeastOf(LeastOf(inp.log, LogLimit), LogCut) = LeastOf(inp.log, LogCut)
  BY <1>1 DEF LeastOf
<1>5. Ladder(inp) = <<top, log, few, none, last>>
  <2>1. [top EXCEPT !.log = LeastOf(@, LogCut)] = log
    BY <1>4
  <2>2. /\ [log EXCEPT !.samples = LeastOf(@, SamplesCut)] = few
        /\ [log EXCEPT !.samples = 0] = none
        /\ [none EXCEPT !.rows = LeastOf(@, RowsCut)] = last
    OBVIOUS
  <2> HIDE DEF top, log, few, none, last
  <2> QED BY <1>3, <2>1, <2>2 DEF Ladder, loaded
<1>6. DOMAIN Ladder(inp) = 1 .. 5 /\ Len(Ladder(inp)) = 5
  BY <1>5
<1>7. CASE i = 1
  <2>1. LimitsAt(inp, i) = [log |-> LogLimit, rows |-> loaded.rows, samples |-> loaded.samples]
    BY <1>7 DEF LimitsAt, loaded
  <2>2. Rendered(inp, LimitsAt(inp, i)) = top
    BY <1>1, <1>2, <2>1 DEF Rendered
  <2> QED BY <1>5, <1>7, <2>2
<1> DEFINE cut == IF inp.log > LogCut THEN LogCut ELSE LogLimit
<1>8. LeastOf(inp.log, cut) = LeastOf(inp.log, LogCut)
  BY <1>1 DEF LeastOf
<1>9. CASE i = 2
  <2>1. LimitsAt(inp, i) = [log |-> cut, rows |-> loaded.rows, samples |-> loaded.samples]
    BY <1>9 DEF LimitsAt, loaded
  <2> HIDE DEF cut
  <2>2. Rendered(inp, LimitsAt(inp, i)) = log
    BY <1>1, <1>2, <1>8, <2>1 DEF Rendered
  <2> QED BY <1>5, <1>9, <2>2
<1>10. CASE i = 3
  <2>1. LimitsAt(inp, i) = [log |-> cut, rows |-> loaded.rows,
                            samples |-> LeastOf(loaded.samples, SamplesCut)]
    BY <1>10 DEF LimitsAt, loaded
  <2>2. loaded.rows = 0 => LeastOf(loaded.samples, SamplesCut) = 0
    BY <1>1, <1>2 DEF LeastOf
  <2> HIDE DEF cut
  <2>3. Rendered(inp, LimitsAt(inp, i)) = few
    BY <1>8, <2>1, <2>2 DEF Rendered
  <2> QED BY <1>5, <1>10, <2>3
<1>11. CASE i = 4
  <2>1. LimitsAt(inp, i) = [log |-> cut, rows |-> loaded.rows, samples |-> 0]
    BY <1>11 DEF LimitsAt, loaded
  <2> HIDE DEF cut
  <2>2. Rendered(inp, LimitsAt(inp, i)) = none
    BY <1>8, <2>1 DEF Rendered
  <2> QED BY <1>5, <1>11, <2>2
<1>12. CASE i = 5
  <2>1. LimitsAt(inp, i) = [log |-> cut, rows |-> LeastOf(loaded.rows, RowsCut), samples |-> 0]
    BY <1>12 DEF LimitsAt, loaded
  <2> HIDE DEF cut
  <2>2. Rendered(inp, LimitsAt(inp, i)) = last
    BY <1>8, <2>1 DEF Rendered
  <2> QED BY <1>5, <1>12, <2>2
<1> QED BY <1>6, <1>7, <1>9, <1>10, <1>11, <1>12

(* A rung differs from the one before it exactly if its cut changes         *)
(* something.                                                               *)
LEMMA RungChanges ==
    ASSUME NEW inp, IsInput(inp), NEW i \in 1 .. 4
    PROVE  Cuts(inp)[i].changes <=> Ladder(inp)[i + 1] # Ladder(inp)[i]
<1> DEFINE loaded == Loaded(inp)
           lower == Ladder(inp)[i + 1]
           upper == Ladder(inp)[i]
<1>1. /\ loaded.log = LogLimit /\ (loaded.rows = 0 => loaded.samples = 0)
      /\ loaded.rows \in Nat /\ loaded.samples \in Nat
      /\ LogCut \in Nat /\ LogLimit \in Nat /\ LogCut < LogLimit /\ RowsCut \in Nat
      /\ SamplesCut \in Nat /\ 0 < SamplesCut /\ inp.log \in Nat
  BY LoadedType, PromptAssumption DEF IsInput, Limits
<1>2. lower = Rendered(inp, LimitsAt(inp, i + 1)) /\ upper = Rendered(inp, LimitsAt(inp, i))
  BY RungIsRendered
<1> DEFINE render(limits) == [log |-> LeastOf(inp.log, limits.log), rows |-> limits.rows,
                              samples |-> IF limits.rows = 0 THEN 0 ELSE limits.samples]
<1>3. lower = render(LimitsAt(inp, i + 1)) /\ upper = render(LimitsAt(inp, i))
  BY <1>2 DEF Rendered
<1> HIDE DEF loaded, lower, upper
<1> DEFINE low == LimitsAt(inp, i + 1)
           up == LimitsAt(inp, i)
<1>4. /\ low.log = IF i + 1 >= 2 /\ inp.log > LogCut THEN LogCut ELSE LogLimit
      /\ low.rows = IF i + 1 >= 5 THEN LeastOf(loaded.rows, RowsCut) ELSE loaded.rows
      /\ low.samples = IF i + 1 >= 4 THEN 0 ELSE IF i + 1 >= 3
                       THEN LeastOf(loaded.samples, SamplesCut) ELSE loaded.samples
  BY DEF LimitsAt, loaded
<1>5. /\ up.log = IF i >= 2 /\ inp.log > LogCut THEN LogCut ELSE LogLimit
      /\ up.rows = IF i >= 5 THEN LeastOf(loaded.rows, RowsCut) ELSE loaded.rows
      /\ up.samples = IF i >= 4 THEN 0 ELSE IF i >= 3
                      THEN LeastOf(loaded.samples, SamplesCut) ELSE loaded.samples
  BY DEF LimitsAt, loaded
<1> HIDE DEF low, up
<1>6. lower # upper <=> \/ LeastOf(inp.log, low.log) # LeastOf(inp.log, up.log)
                        \/ low.rows # up.rows
                        \/ (IF low.rows = 0 THEN 0 ELSE low.samples)
                           # (IF up.rows = 0 THEN 0 ELSE up.samples)
  BY <1>3 DEF low, up
<1>7. CASE i = 1
  <2>1. Cuts(inp)[i].changes <=> inp.log > LogCut
    BY <1>1, <1>7, CutsAre DEF loaded
  <2>2. low.rows = up.rows /\ low.samples = up.samples
    BY <1>4, <1>5, <1>7
  <2>3. low.log = (IF inp.log > LogCut THEN LogCut ELSE LogLimit) /\ up.log = LogLimit
    BY <1>4, <1>5, <1>7
  <2>4. LeastOf(inp.log, low.log) # LeastOf(inp.log, up.log) <=> inp.log > LogCut
    BY <1>1, <2>3 DEF LeastOf
  <2> QED BY <1>6, <2>1, <2>2, <2>4 DEF lower, upper
<1>8. CASE i = 2
  <2>1. Cuts(inp)[i].changes <=> loaded.samples > SamplesCut
    BY <1>8, CutsAre DEF loaded
  <2>2. low.rows = loaded.rows /\ up.rows = loaded.rows /\ low.log = up.log
    BY <1>4, <1>5, <1>8
  <2>3. low.samples = LeastOf(loaded.samples, SamplesCut) /\ up.samples = loaded.samples
    BY <1>4, <1>5, <1>8
  <2>4. low.samples # up.samples <=> loaded.samples > SamplesCut
    BY <1>1, <2>3 DEF LeastOf
  <2> QED BY <1>1, <1>6, <2>1, <2>2, <2>3, <2>4 DEF lower, upper
<1>9. CASE i = 3
  <2>1. Cuts(inp)[i].changes <=> loaded.samples > 0
    BY <1>9, CutsAre DEF loaded
  <2>2. low.rows = loaded.rows /\ up.rows = loaded.rows /\ low.log = up.log
    BY <1>4, <1>5, <1>9
  <2>3. low.samples = 0 /\ up.samples = LeastOf(loaded.samples, SamplesCut)
    BY <1>4, <1>5, <1>9
  <2>4. low.samples # up.samples <=> loaded.samples > 0
    BY <1>1, <2>3 DEF LeastOf
  <2> QED BY <1>1, <1>6, <2>1, <2>2, <2>3, <2>4 DEF lower, upper
<1>10. CASE i = 4
  <2>1. Cuts(inp)[i].changes <=> loaded.rows > RowsCut
    BY <1>10, CutsAre DEF loaded
  <2>2. low.samples = 0 /\ up.samples = 0 /\ low.log = up.log
    BY <1>4, <1>5, <1>10
  <2>3. low.rows = LeastOf(loaded.rows, RowsCut) /\ up.rows = loaded.rows
    BY <1>4, <1>5, <1>10
  <2>4. low.rows # up.rows <=> loaded.rows > RowsCut
    BY <1>1, <2>3 DEF LeastOf
  <2> QED BY <1>6, <2>1, <2>2, <2>4 DEF lower, upper
<1> QED BY <1>7, <1>8, <1>9, <1>10

LEMMA CountWarnings ==
    ASSUME NEW inp, IsInput(inp), NEW first \in 1 .. 5
    PROVE  LET changed == {i \in 2 .. first : Ladder(inp)[i] # Ladder(inp)[i - 1]}
           IN  /\ IsFiniteSet(WarningsAt(inp, first))
               /\ Cardinality(WarningsAt(inp, first)) = Cardinality(changed)
               /\ "budget_exceeded_after_cuts" \notin WarningsAt(inp, first)
<1> DEFINE changed == {i \in 2 .. first : Ladder(inp)[i] # Ladder(inp)[i - 1]}
           f == [i \in changed |-> CutNames[i - 1]]
           W == WarningsAt(inp, first)
<1>1. IsFiniteSet(changed)
  <2>1. IsFiniteSet(2 .. first)
    BY FS_Interval
  <2> QED BY <2>1, FS_Subset
<1>2. ASSUME NEW i \in 1 .. first - 1
      PROVE  Cuts(inp)[i].changes <=> i + 1 \in changed
  <2>1. i \in 1 .. 4 /\ i + 1 \in 2 .. first /\ (i + 1) - 1 = i
    OBVIOUS
  <2>2. Cuts(inp)[i].changes <=> Ladder(inp)[i + 1] # Ladder(inp)[i]
    BY <2>1, RungChanges
  <2> QED BY <2>1, <2>2
<1>3. \A i \in changed : i - 1 \in 1 .. first - 1 /\ (i - 1) + 1 = i /\ i - 1 \in 1 .. 4
  OBVIOUS
<1> HIDE DEF changed
<1>4. W = {CutNames[k] : k \in {j \in 1 .. first - 1 : Cuts(inp)[j].changes}}
  BY DEF WarningsAt
<1> HIDE DEF W
<1>5. f \in [changed -> W]
  <2>1. \A i \in changed : CutNames[i - 1] \in W
    BY <1>2, <1>3, <1>4
  <2> QED BY <2>1
<1>6. \A t \in W : \E i \in changed : f[i] = t
  <2> SUFFICES ASSUME NEW t \in W
               PROVE  \E i \in changed : f[i] = t
    OBVIOUS
  <2>1. PICK k \in 1 .. first - 1 : Cuts(inp)[k].changes /\ t = CutNames[k]
    BY <1>4
  <2>2. k + 1 \in changed /\ (k + 1) - 1 = k
    BY <1>2, <2>1
  <2>3. f[k + 1] = t
    BY <2>1, <2>2
  <2> QED BY <2>2, <2>3
<1>7. \A i, j \in changed : f[i] = f[j] => i = j
  <2>1. \A k, l \in 1 .. 4 : CutNames[k] = CutNames[l] => k = l
    BY DEF CutNames
  <2> SUFFICES ASSUME NEW i \in changed, NEW j \in changed, f[i] = f[j]
               PROVE  i = j
    OBVIOUS
  <2>2. i - 1 = j - 1
    BY <1>3, <2>1
  <2> QED BY <1>3, <2>2
<1> HIDE DEF f
<1>8. IsFiniteSet(W) /\ Cardinality(W) = Cardinality(changed)
  BY <1>1, <1>5, <1>6, <1>7, SameSize
<1>9. "budget_exceeded_after_cuts" \notin W
  <2>1. \A k \in 1 .. 4 : CutNames[k] # "budget_exceeded_after_cuts"
    BY DEF CutNames
  <2> QED BY <1>4, <2>1
<1> QED BY <1>8, <1>9 DEF W, changed

(* A prompt is cut in the order of phase 5 and no further than the budget   *)
(* asks: what is sent is the first rung of the ladder within the budget, or *)
(* the last one, and every rung that took something away has its warning    *)
(* (build_proposer_prompt), for any sizes, limits and budget.               *)
THEOREM PromptsFit == ASSUME NEW inp, IsInput(inp), NEW budget \in Nat
                      PROVE  PromptFits(inp, budget)
<1> DEFINE ladder == Ladder(inp)
           fits(i) == Estimate(inp, ladder[i]) <= budget
           first == IF \E i \in DOMAIN ladder : fits(i)
                    THEN CHOOSE i \in DOMAIN ladder : fits(i) /\ \A j \in 1 .. i - 1 : ~ fits(j)
                    ELSE Len(ladder)
           over(now) == Estimate(inp, Rendered(inp, now.limits)) > budget
           apply(now, i) ==
              IF over(now) /\ Cuts(inp)[i].changes THEN Cut(now, Cuts(inp)[i]) ELSE now
<1>1. DOMAIN ladder = 1 .. 5 /\ Len(ladder) = 5
  <2>1. 1 \in 1 .. 5
    OBVIOUS
  <2> QED BY <2>1, RungIsRendered
<1>2. /\ first \in 1 .. 5 /\ (fits(first) \/ first = 5) /\ \A j \in 1 .. first - 1 : ~ fits(j)
  <2> HIDE DEF fits
  <2>1. CASE \E i \in DOMAIN ladder : fits(i)
    <3>1. \E i \in DOMAIN ladder : fits(i) /\ \A j \in 1 .. i - 1 : ~ fits(j)
      <4> DEFINE F(i) == fits(i) /\ \A j \in 1 .. i - 1 : ~ fits(j)
      <4>1. CASE fits(1)
        <5>1. F(1) /\ 1 \in DOMAIN ladder  BY <1>1, <4>1
        <5> QED BY <5>1
      <4>2. CASE ~ fits(1) /\ fits(2)
        <5>1. F(2) /\ 2 \in DOMAIN ladder  BY <1>1, <4>2
        <5> QED BY <5>1
      <4>3. CASE ~ fits(1) /\ ~ fits(2) /\ fits(3)
        <5>1. F(3) /\ 3 \in DOMAIN ladder  BY <1>1, <4>3
        <5> QED BY <5>1
      <4>4. CASE ~ fits(1) /\ ~ fits(2) /\ ~ fits(3) /\ fits(4)
        <5>1. F(4) /\ 4 \in DOMAIN ladder  BY <1>1, <4>4
        <5> QED BY <5>1
      <4>5. CASE ~ fits(1) /\ ~ fits(2) /\ ~ fits(3) /\ ~ fits(4) /\ fits(5)
        <5>1. F(5) /\ 5 \in DOMAIN ladder  BY <1>1, <4>5
        <5> QED BY <5>1
      <4>6. \E i \in {1, 2, 3, 4, 5} : fits(i)
        BY <1>1, <2>1
      <4> QED BY <4>1, <4>2, <4>3, <4>4, <4>5, <4>6
    <3> QED BY <1>1, <2>1, <3>1
  <2>2. CASE ~ \E i \in DOMAIN ladder : fits(i)
    BY <1>1, <2>2
  <2> QED BY <2>1, <2>2
<1> HIDE DEF first
<1>3. ASSUME NEW i \in 1 .. 5
      PROVE  over(StateAt(inp, i)) <=> ~ fits(i)
  <2>1. Rendered(inp, StateAt(inp, i).limits) = ladder[i]
    BY RungIsRendered DEF StateAt
  <2>2. Estimate(inp, Rendered(inp, LimitsAt(inp, i))) \in Nat
    <3> DEFINE limits == LimitsAt(inp, i)
               sent == Rendered(inp, limits)
    <3>1. limits \in Limits
      BY LoadedType
    <3>2. sent \in Limits
      <4>1. LeastOf(inp.log, limits.log) \in Nat
        BY <3>1, LeastType DEF Limits, IsInput
      <4> HIDE DEF limits
      <4> QED BY <3>1, <4>1 DEF Rendered, Limits
    <3> HIDE DEF sent, limits
    <3>3. /\ sent.log \in Nat /\ sent.rows \in Nat /\ sent.samples \in Nat /\ inp.fixed \in Nat
          /\ RowSize \in Nat /\ SampleSize \in Nat
      BY <3>2, PromptAssumption DEF Limits, IsInput
    <3>4. RowSize * sent.rows \in Nat /\ SampleSize * sent.samples \in Nat
      BY <3>3
    <3>5. Estimate(inp, sent) \in Nat
      BY <3>3, <3>4 DEF Estimate
    <3> QED BY <3>5 DEF sent, limits
  <2>3. Estimate(inp, ladder[i]) \in Nat
    BY <2>2, RungIsRendered
  <2> HIDE DEF ladder
  <2> QED BY <2>1, <2>3
<1> HIDE DEF fits, over, ladder
<1>4. ASSUME NEW i \in 1 .. 4
      PROVE  apply(StateAt(inp, i), i) = IF fits(i) THEN StateAt(inp, i) ELSE StateAt(inp, i + 1)
  <2>1. over(StateAt(inp, i)) <=> ~ fits(i)
    BY <1>3
  <2>2. (IF Cuts(inp)[i].changes THEN Cut(StateAt(inp, i), Cuts(inp)[i]) ELSE StateAt(inp, i))
        = StateAt(inp, i + 1)
    BY CutStep
  <2> QED BY <2>1, <2>2
<1>5. ASSUME NEW k \in 1 .. 4
      PROVE  fits(first) => apply(StateAt(inp, first), k) = StateAt(inp, first)
  BY <1>2, <1>3
<1> HIDE DEF apply
<1>6. Uncut(inp) = StateAt(inp, 1)
  <2>1. WarningsAt(inp, 1) = {}
    BY DEF WarningsAt
  <2>2. LimitsAt(inp, 1) = Loaded(inp)
    BY LoadedType DEF LimitsAt, Limits
  <2> QED BY <2>1, <2>2 DEF Uncut, StateAt
<1>7. ASSUME NEW i \in 1 .. 4
      PROVE  apply(StateAt(inp, IF i <= first THEN i ELSE first), i)
             = StateAt(inp, IF i + 1 <= first THEN i + 1 ELSE first)
  <2>1. CASE i < first
    <3>1. ~ fits(i) /\ i + 1 <= first /\ i <= first
      BY <1>2, <2>1
    <3> QED BY <1>4, <3>1
  <2>2. CASE ~ (i < first)
    <3>1. fits(first) /\ ~ (i + 1 <= first)
      BY <1>2, <2>2
    <3>2. (IF i <= first THEN i ELSE first) = first
      BY <1>2, <2>2
    <3> QED BY <1>5, <3>1, <3>2
  <2> QED BY <2>1, <2>2
<1>8. apply(apply(apply(apply(Uncut(inp), 1), 2), 3), 4) = StateAt(inp, first)
  <2> DEFINE at(i) == StateAt(inp, IF i <= first THEN i ELSE first)
  <2>1. Uncut(inp) = at(1)
    BY <1>2, <1>6
  <2>2. apply(at(1), 1) = at(2) /\ apply(at(2), 2) = at(3)
        /\ apply(at(3), 3) = at(4) /\ apply(at(4), 4) = at(5)
    BY <1>7
  <2>3. at(5) = StateAt(inp, first)
    BY <1>2
  <2> HIDE DEF at
  <2> QED BY <2>1, <2>2, <2>3
<1>9. CutToBudget(inp, budget) = StateAt(inp, first)
  BY <1>8 DEF CutToBudget, apply, over
<1> DEFINE built == BuildProposerPrompt(inp, budget)
           changed == {i \in 2 .. first : ladder[i] # ladder[i - 1]}
<1>10. Rendered(inp, StateAt(inp, first).limits) = ladder[first]
  BY <1>2, RungIsRendered DEF StateAt, ladder
<1>11. built = [sent |-> ladder[first],
                warnings |-> WarningsAt(inp, first)
                             \cup IF fits(first) THEN {} ELSE {"budget_exceeded_after_cuts"}]
  <2>1. over(StateAt(inp, first)) <=> ~ fits(first)
    BY <1>2, <1>3
  <2>2. StateAt(inp, first).warnings = WarningsAt(inp, first)
    BY DEF StateAt
  <2>3. Estimate(inp, ladder[first]) > budget <=> ~ fits(first)
    BY <1>10, <2>1 DEF over
  <2> DEFINE result == StateAt(inp, first)
             sent == Rendered(inp, result.limits)
  <2>4. built = [sent |-> sent,
                 warnings |-> result.warnings \cup IF Estimate(inp, sent) > budget
                                                   THEN {"budget_exceeded_after_cuts"} ELSE {}]
    BY <1>9 DEF BuildProposerPrompt
  <2> HIDE DEF result
  <2>5. built = [sent |-> ladder[first],
                 warnings |-> WarningsAt(inp, first)
                              \cup IF Estimate(inp, ladder[first]) > budget
                                   THEN {"budget_exceeded_after_cuts"} ELSE {}]
    BY <1>10, <2>2, <2>4 DEF result
  <2> QED BY <2>3, <2>5
<1>12. Cardinality(built.warnings) = Cardinality(changed) + IF fits(first) THEN 0 ELSE 1
  <2> DEFINE W == WarningsAt(inp, first)
  <2>1. /\ IsFiniteSet(W) /\ Cardinality(W) = Cardinality(changed)
        /\ "budget_exceeded_after_cuts" \notin W
    BY <1>2, CountWarnings DEF ladder
  <2> HIDE DEF W, changed
  <2>2. Cardinality(W \cup {"budget_exceeded_after_cuts"}) = Cardinality(W) + 1
    BY <2>1, FS_AddElement
  <2>3. Cardinality(W) \in Nat
    BY <2>1, FS_CardinalityType
  <2>4. built.warnings = W \cup IF fits(first) THEN {} ELSE {"budget_exceeded_after_cuts"}
    BY <1>11 DEF W
  <2>5. CASE fits(first)
    <3>1. built.warnings = W
      BY <2>4, <2>5
    <3> QED BY <2>1, <2>3, <2>5, <3>1
  <2>6. CASE ~ fits(first)
    <3>1. built.warnings = W \cup {"budget_exceeded_after_cuts"}
      BY <2>4, <2>6
    <3> QED BY <2>1, <2>2, <2>6, <3>1
  <2> QED BY <2>5, <2>6
<1>13. built.sent = ladder[first]
  BY <1>11
<1> QED BY <1>12, <1>13 DEF PromptFits, ladder, fits, first, changed

---------------------------------------------------------------------------
(* The block. *)

(* What a block holds of a text: no bracket and no nonce; every marker is   *)
(* the text's own, but for the last token of a text that was cut.           *)
LEMMA PlainText ==
    ASSUME NEW S, NEW text \in Seq(S), NEW limit \in Nat
    PROVE  LET plain == Plain(text, limit)
               n == IF Len(text) > limit THEN limit ELSE Len(text)
           IN  /\ plain \in Seq(S \cup {"lt", "nonce", "nonce removed", "marker"})
               /\ Len(plain) = IF Len(text) > limit THEN limit + 1 ELSE Len(text)
               /\ Len(text) > limit => plain[limit + 1] = "marker"
               /\ \A i \in 1 .. n : /\ plain[i] # "nonce"
                                    /\ plain[i] = "marker" <=> text[i] = "marker"
<1> DEFINE T == S \cup {"lt", "nonce", "nonce removed", "marker"}
           normal == Normalise(text)
           stripped == StripNonce(normal)
           plain == Plain(text, limit)
<1>1. Len(text) \in Nat /\ DOMAIN text = 1 .. Len(text) /\ \A i \in 1 .. Len(text) : text[i] \in S
  BY LenProperties, ElementOfSeq
<1>2. /\ normal = [i \in 1 .. Len(text) |-> normal[i]]
      /\ \A i \in 1 .. Len(text) : /\ normal[i] \in T
                                   /\ normal[i] = "marker" <=> text[i] = "marker"
  BY <1>1 DEF Normalise
<1> HIDE DEF normal
<1>3. /\ stripped = [i \in 1 .. Len(text) |-> stripped[i]]
      /\ \A i \in 1 .. Len(text) : /\ stripped[i] \in T /\ stripped[i] # "nonce"
                                   /\ stripped[i] = "marker" <=> text[i] = "marker"
  <2>1. DOMAIN normal = 1 .. Len(text)
    BY <1>2
  <2>2. stripped = [i \in 1 .. Len(text) |->
                       IF normal[i] = "nonce" THEN "nonce removed" ELSE normal[i]]
    BY <2>1 DEF StripNonce
  <2> HIDE DEF stripped
  <2>3. \A i \in 1 .. Len(text) :
           stripped[i] = IF normal[i] = "nonce" THEN "nonce removed" ELSE normal[i]
    BY <2>2
  <2>4. DOMAIN stripped = 1 .. Len(text)
    BY <2>2
  <2> QED BY <1>2, <2>2, <2>3, <2>4
<1> HIDE DEF stripped, T
<1>4. stripped \in Seq(T) /\ Len(stripped) = Len(text)
  BY <1>1, <1>3
<1>5. "marker" \in T
  BY DEF T
<1>6. plain = IF Len(text) > limit THEN SubSeq(stripped, 1, limit) \o <<"marker">> ELSE stripped
  BY <1>4 DEF Plain, Truncate, Truncated, normal, stripped
<1>7. CASE Len(text) > limit
  <2> DEFINE cut == SubSeq(stripped, 1, limit)
             mark == <<"marker">>
  <2>1. \A i \in 1 .. limit : stripped[i] \in T
    BY <1>1, <1>3, <1>7
  <2>2. /\ cut \in Seq(T) /\ Len(cut) = limit /\ \A i \in 1 .. limit : cut[i] = stripped[i]
    <3>1. /\ cut \in Seq(T) /\ Len(cut) = IF 1 <= limit THEN limit - 1 + 1 ELSE 0
          /\ \A i \in 1 .. limit - 1 + 1 : cut[i] = stripped[1 + i - 1]
      BY <2>1, SubSeqProperties
    <3> HIDE DEF cut
    <3>2. \A i \in 1 .. limit : i \in 1 .. limit - 1 + 1 /\ 1 + i - 1 = i
      OBVIOUS
    <3> QED BY <3>1, <3>2
  <2>3. mark \in Seq(T) /\ Len(mark) = 1 /\ mark[1] = "marker"
    BY <1>5
  <2> HIDE DEF cut, mark
  <2>4. plain = cut \o mark
    BY <1>6, <1>7 DEF cut, mark
  <2>5. /\ plain \in Seq(T) /\ Len(plain) = limit + 1
        /\ \A i \in 1 .. limit + 1 : plain[i] = IF i <= limit THEN cut[i] ELSE mark[i - limit]
    <3> DEFINE both == cut \o mark
    <3>1. /\ both \in Seq(T) /\ Len(both) = Len(cut) + Len(mark)
          /\ \A i \in 1 .. Len(cut) + Len(mark) :
                both[i] = IF i <= Len(cut) THEN cut[i] ELSE mark[i - Len(cut)]
      BY <2>2, <2>3, ConcatProperties
    <3>2. plain = both
      BY <2>4
    <3> HIDE DEF both, plain
    <3> QED BY <2>2, <2>3, <3>1, <3>2
  <2>6. plain[limit + 1] = "marker"
    <3>1. limit + 1 \in 1 .. limit + 1 /\ (limit + 1) - limit = 1 /\ ~ (limit + 1 <= limit)
      OBVIOUS
    <3> QED BY <2>3, <2>5, <3>1
  <2>7. \A i \in 1 .. limit : plain[i] = stripped[i] /\ i \in 1 .. Len(text)
    BY <1>1, <1>7, <2>2, <2>5
  <2> QED BY <1>3, <1>7, <2>5, <2>6, <2>7 DEF T
<1>8. CASE ~ (Len(text) > limit)
  BY <1>3, <1>4, <1>6, <1>8 DEF T
<1> QED BY <1>7, <1>8

LEMMA BlockText ==
    ASSUME NEW S, NEW text \in Seq(S), NEW limit \in Nat
    PROVE  LET block == Escape(Plain(text, limit))
           IN  /\ Len(block) \in Nat
               /\ block \in Seq(S \cup {"lt", "nonce", "nonce removed", "marker", "escaped"})
               /\ \A i \in 1 .. Len(block) : block[i] # "lt" /\ block[i] # "nonce"
<1> DEFINE T == S \cup {"lt", "nonce", "nonce removed", "marker"}
           U == S \cup {"lt", "nonce", "nonce removed", "marker", "escaped"}
           plain == Plain(text, limit)
           block == Escape(plain)
<1>1. plain \in Seq(T)
  BY PlainText
<1>2. \A i \in 1 .. Len(plain) : plain[i] # "nonce"
  <2>1. Len(text) \in Nat
    BY LenProperties
  <2> DEFINE n == IF Len(text) > limit THEN limit ELSE Len(text)
  <2>2. /\ Len(plain) = IF Len(text) > limit THEN limit + 1 ELSE Len(text)
        /\ Len(text) > limit => plain[limit + 1] = "marker"
        /\ \A i \in 1 .. n : plain[i] # "nonce"
    BY PlainText
  <2> HIDE DEF plain
  <2>3. ASSUME NEW i \in 1 .. Len(plain)
        PROVE  i \in 1 .. n \/ (Len(text) > limit /\ i = limit + 1)
    BY <2>1, <2>2
  <2> HIDE DEF n
  <2> QED BY <2>2, <2>3
<1> HIDE DEF plain
<1>3. /\ Len(plain) \in Nat /\ DOMAIN plain = 1 .. Len(plain)
      /\ \A i \in 1 .. Len(plain) : plain[i] \in T
  BY <1>1, LenProperties, ElementOfSeq
<1>4. block = [i \in 1 .. Len(plain) |-> IF plain[i] = "lt" THEN "escaped" ELSE plain[i]]
  BY <1>3 DEF Escape
<1>5. block \in Seq(U) /\ Len(block) = Len(plain)
  <2>1. \A i \in 1 .. Len(plain) : (IF plain[i] = "lt" THEN "escaped" ELSE plain[i]) \in U
    BY <1>3
  <2>2. /\ block = [i \in 1 .. Len(plain) |-> block[i]]
        /\ \A i \in 1 .. Len(plain) : block[i] \in U
    BY <1>4, <2>1
  <2> DEFINE n == Len(plain)
  <2>3. n \in Nat /\ block = [i \in 1 .. n |-> block[i]] /\ \A i \in 1 .. n : block[i] \in U
    BY <1>3, <2>2
  <2> HIDE DEF U, block, n
  <2>4. block \in [1 .. n -> U]
    BY <2>3
  <2>5. block \in Seq(U) /\ Len(block) = n
    BY <2>3, <2>4
  <2> QED BY <2>5 DEF n
<1>6. \A i \in 1 .. Len(plain) : block[i] # "lt" /\ block[i] # "nonce"
  BY <1>2, <1>4
<1> QED BY <1>3, <1>5, <1>6 DEF plain

(* A msg token by token: two facts, the tag that opens the block, the   *)
(* block's m tokens, the tag that closes it and a sentence.                 *)
IsFramed(msg, m) ==
    /\ m \in Nat /\ Len(msg) = m + 9 /\ DOMAIN msg = 1 .. m + 9
    /\ msg[1] = "heading" /\ msg[2] = "fact"
    /\ msg[3] = "lt" /\ msg[4] = "open" /\ msg[5] = "nonce"
    /\ \A i \in 6 .. m + 5 : msg[i] # "lt" /\ msg[i] # "nonce"
    /\ msg[m + 6] = "lt" /\ msg[m + 7] = "close" /\ msg[m + 8] = "nonce"
    /\ msg[m + 9] = "sentence"

LEMMA Framed ==
    ASSUME NEW S, NEW text \in Seq(S), NEW limit \in Nat
    PROVE  LET msg == Message(text, limit)
           IN  /\ \E T : msg \in Seq(T)
               /\ IsFramed(msg, Len(Escape(Plain(text, limit))))
<1> DEFINE block == Escape(Plain(text, limit))
           m == Len(block)
           T == S \cup {"lt", "nonce", "nonce removed", "marker", "escaped", "heading", "fact",
                        "open", "close", "sentence"}
           U == S \cup {"lt", "nonce", "nonce removed", "marker", "escaped"}
           head == <<"heading", "fact">>
           open == <<"lt", "open", "nonce">>
           shut == <<"lt", "close", "nonce">>
           tail == <<"sentence">>
           msg == Message(text, limit)
<1>1. /\ m \in Nat /\ block \in Seq(U)
      /\ \A i \in 1 .. m : block[i] # "lt" /\ block[i] # "nonce"
  BY BlockText
<1> HIDE DEF block
<1>2. block \in Seq(T)
  <2>1. U \subseteq T
    OBVIOUS
  <2> HIDE DEF U, T
  <2> QED BY <1>1, <2>1
<1>3. /\ head \in Seq(T) /\ open \in Seq(T) /\ shut \in Seq(T) /\ tail \in Seq(T)
      /\ Len(head) = 2 /\ Len(open) = 3 /\ Len(shut) = 3 /\ Len(tail) = 1
  OBVIOUS
<1>4. /\ head[1] = "heading" /\ head[2] = "fact" /\ tail[1] = "sentence"
      /\ open[1] = "lt" /\ open[2] = "open" /\ open[3] = "nonce"
      /\ shut[1] = "lt" /\ shut[2] = "close" /\ shut[3] = "nonce"
  OBVIOUS
<1>5. msg = head \o ((open \o block) \o shut) \o tail
  BY DEF Message, UntrustedBlock, OpenTag, CloseTag, block
<1>m. m \in Nat /\ Len(block) = m
  BY <1>1
<1>t. \A i \in 1 .. m : block[i] # "lt" /\ block[i] # "nonce"
  BY <1>1
<1> HIDE DEF head, open, shut, tail, T, U, m, msg
<1> DEFINE a == open \o block
           b == a \o shut
           c == head \o b
<1>6. /\ a \in Seq(T) /\ Len(a) = m + 3
      /\ \A i \in 1 .. m + 3 : a[i] = IF i <= 3 THEN open[i] ELSE block[i - 3]
  <2>1. /\ a \in Seq(T) /\ Len(a) = 3 + m
        /\ \A i \in 1 .. 3 + m : a[i] = IF i <= 3 THEN open[i] ELSE block[i - 3]
    <3>1. open \in Seq(T) /\ Len(open) = 3 /\ block \in Seq(T) /\ Len(block) = m
      BY <1>m, <1>2, <1>3
    <3>2. /\ a \in Seq(T) /\ Len(a) = Len(open) + Len(block)
          /\ \A i \in 1 .. Len(open) + Len(block) :
                a[i] = IF i <= Len(open) THEN open[i] ELSE block[i - Len(open)]
      BY <3>1, ConcatProperties
    <3> HIDE DEF a
    <3> QED BY <3>1, <3>2
  <2> HIDE DEF a
  <2> QED BY <1>m, <2>1
<1> HIDE DEF a
<1>7. /\ b \in Seq(T) /\ Len(b) = m + 6
      /\ \A i \in 1 .. m + 6 : b[i] = IF i <= m + 3 THEN a[i] ELSE shut[i - (m + 3)]
  <2>1. /\ b \in Seq(T) /\ Len(b) = Len(a) + Len(shut)
        /\ \A i \in 1 .. Len(a) + Len(shut) : b[i] = IF i <= Len(a) THEN a[i] ELSE shut[i - Len(a)]
    BY <1>3, <1>6, ConcatProperties
  <2> HIDE DEF b
  <2> QED BY <1>m, <1>3, <1>6, <2>1
<1> HIDE DEF b
<1>8. /\ c \in Seq(T) /\ Len(c) = m + 8
      /\ \A i \in 1 .. m + 8 : c[i] = IF i <= 2 THEN head[i] ELSE b[i - 2]
  <2>1. /\ c \in Seq(T) /\ Len(c) = Len(head) + Len(b)
        /\ \A i \in 1 .. Len(head) + Len(b) :
              c[i] = IF i <= Len(head) THEN head[i] ELSE b[i - Len(head)]
    <3>1. head \in Seq(T) /\ b \in Seq(T)
      BY <1>3, <1>7
    <3> QED BY <3>1, ConcatProperties
  <2> HIDE DEF c
  <2> QED BY <1>m, <1>3, <1>7, <2>1
<1> HIDE DEF c
<1>9. /\ msg \in Seq(T) /\ Len(msg) = m + 9
      /\ \A i \in 1 .. m + 9 : msg[i] = IF i <= m + 8 THEN c[i] ELSE tail[i - (m + 8)]
  <2> DEFINE d == c \o tail
  <2>1. /\ d \in Seq(T) /\ Len(d) = Len(c) + Len(tail)
        /\ \A i \in 1 .. Len(c) + Len(tail) : d[i] = IF i <= Len(c) THEN c[i] ELSE tail[i - Len(c)]
    BY <1>3, <1>8, ConcatProperties
  <2>2. msg = d
    BY <1>5 DEF a, b, c
  <2> HIDE DEF d
  <2> QED BY <1>m, <1>3, <1>8, <2>1, <2>2
<1>10. DOMAIN msg = 1 .. m + 9
  BY <1>9, LenProperties
<1>11. \A i \in 3 .. m + 8 : msg[i] = b[i - 2] /\ i - 2 \in 1 .. m + 6
  BY <1>m, <1>8, <1>9
<1>12. msg[1] = "heading" /\ msg[2] = "fact"
  BY <1>m, <1>4, <1>8, <1>9
<1>13. msg[3] = "lt" /\ msg[4] = "open" /\ msg[5] = "nonce"
  <2>1. /\ msg[3] = b[1] /\ msg[4] = b[2] /\ msg[5] = b[3]
    BY <1>m, <1>11
  <2>2. b[1] = a[1] /\ b[2] = a[2] /\ b[3] = a[3]
    BY <1>m, <1>7
  <2>3. a[1] = open[1] /\ a[2] = open[2] /\ a[3] = open[3]
    BY <1>m, <1>6
  <2> QED BY <1>4, <2>1, <2>2, <2>3
<1>14. ASSUME NEW i \in 6 .. m + 5
       PROVE  msg[i] # "lt" /\ msg[i] # "nonce"
  <2>1. i - 2 \in 1 .. m + 6 /\ i - 2 <= m + 3 /\ i - 2 \in 1 .. m + 3 /\ i \in 3 .. m + 8
    BY <1>m
  <2>2. msg[i] = a[i - 2]
    BY <1>7, <1>11, <2>1
  <2>3. ~ (i - 2 <= 3) /\ (i - 2) - 3 \in 1 .. m
    BY <1>m
  <2>4. msg[i] = block[(i - 2) - 3]
    BY <1>6, <2>1, <2>2, <2>3
  <2> QED BY <1>t, <2>3, <2>4
<1>15. msg[m + 6] = "lt" /\ msg[m + 7] = "close" /\ msg[m + 8] = "nonce"
  <2>1. /\ m + 6 \in 3 .. m + 8 /\ m + 7 \in 3 .. m + 8 /\ m + 8 \in 3 .. m + 8
        /\ (m + 6) - 2 = m + 4 /\ (m + 7) - 2 = m + 5 /\ (m + 8) - 2 = m + 6
    BY <1>m
  <2>2. msg[m + 6] = b[m + 4] /\ msg[m + 7] = b[m + 5] /\ msg[m + 8] = b[m + 6]
    BY <1>11, <2>1
  <2>3. /\ m + 4 \in 1 .. m + 6 /\ m + 5 \in 1 .. m + 6 /\ m + 6 \in 1 .. m + 6
        /\ ~ (m + 4 <= m + 3) /\ ~ (m + 5 <= m + 3) /\ ~ (m + 6 <= m + 3)
        /\ (m + 4) - (m + 3) = 1 /\ (m + 5) - (m + 3) = 2 /\ (m + 6) - (m + 3) = 3
    BY <1>m
  <2>4. b[m + 4] = shut[1] /\ b[m + 5] = shut[2] /\ b[m + 6] = shut[3]
    BY <1>7, <2>3
  <2> QED BY <1>4, <2>2, <2>4
<1>16. msg[m + 9] = "sentence"
  <2>1. m + 9 \in 1 .. m + 9 /\ ~ (m + 9 <= m + 8) /\ (m + 9) - (m + 8) = 1
    BY <1>m
  <2> QED BY <1>4, <1>9, <2>1
<1>17. IsFramed(msg, m)
  BY <1>m, <1>9, <1>10, <1>12, <1>13, <1>14, <1>15, <1>16 DEF IsFramed
<1> QED BY <1>9, <1>17 DEF m, block, msg

LEMMA TagAt ==
    ASSUME NEW T, NEW msg \in Seq(T), NEW i \in 1 .. Len(msg) - 2, NEW a, NEW b, NEW c
    PROVE  At(msg, i, <<a, b, c>>)
           <=> msg[i] = a /\ msg[i + 1] = b /\ msg[i + 2] = c
<1> DEFINE sub == SubSeq(msg, i, i + 2)
           tag == <<a, b, c>>
<1>1. Len(msg) \in Nat
  BY LenProperties
<1>2. /\ sub \in Seq(T) /\ Len(sub) = 3
      /\ sub[1] = msg[i] /\ sub[2] = msg[i + 1] /\ sub[3] = msg[i + 2]
  <2>1. \A j \in i .. i + 2 : msg[j] \in T
    <3>1. \A j \in i .. i + 2 : j \in 1 .. Len(msg)
      BY <1>1
    <3> QED BY <3>1, ElementOfSeq
  <2>2. i \in Int /\ i + 2 \in Int /\ i <= i + 2 /\ (i + 2) - i + 1 = 3
    BY <1>1
  <2>3. /\ sub \in Seq(T) /\ Len(sub) = 3
        /\ \A k \in 1 .. (i + 2) - i + 1 : sub[k] = msg[i + k - 1]
    BY <2>1, <2>2, SubSeqProperties
  <2> HIDE DEF sub
  <2>4. /\ 1 \in 1 .. (i + 2) - i + 1 /\ 2 \in 1 .. (i + 2) - i + 1 /\ 3 \in 1 .. (i + 2) - i + 1
        /\ i + 1 - 1 = i /\ i + 2 - 1 = i + 1 /\ i + 3 - 1 = i + 2
    BY <1>1
  <2> QED BY <2>3, <2>4
<1>3. Len(tag) = 3 /\ tag[1] = a /\ tag[2] = b /\ tag[3] = c
  OBVIOUS
<1> HIDE DEF sub
<1>4. sub = tag => msg[i] = a /\ msg[i + 1] = b /\ msg[i + 2] = c
  BY <1>2, <1>3
<1>5. msg[i] = a /\ msg[i + 1] = b /\ msg[i + 2] = c => sub = tag
  <2> SUFFICES ASSUME msg[i] = a /\ msg[i + 1] = b /\ msg[i + 2] = c
               PROVE  sub = tag
    OBVIOUS
  <2>1. sub[1] = a /\ sub[2] = b /\ sub[3] = c
    BY <1>2
  <2>2. tag \in Seq(T \cup {a, b, c}) /\ sub \in Seq(T \cup {a, b, c})
    BY <1>2
  <2>3. \A k \in 1 .. Len(sub) : sub[k] = tag[k]
    BY <1>2, <1>3, <2>1
  <2> HIDE DEF tag
  <2> QED BY <1>2, <1>3, <2>2, <2>3, SeqEqual
<1>6. At(msg, i, tag) <=> sub = tag
  BY DEF At, sub
<1> QED BY <1>4, <1>5, <1>6

ScanStep(msg, s, i) ==
    CASE i + 2 <= Len(msg) /\ At(msg, i, OpenTag) ->
            IF s.opened = 0 THEN [s EXCEPT !.opened = i]
            ELSE [s EXCEPT !.opened = i, !.unbalanced = TRUE]
      [] i + 2 <= Len(msg) /\ At(msg, i, CloseTag) ->
            IF s.opened = 0 THEN [s EXCEPT !.unbalanced = TRUE]
            ELSE [s EXCEPT !.opened = 0, !.inside = @ \cup (s.opened .. i + 2)]
      [] OTHER -> s

(* The linter finds the one block, from its first bracket to its last nonce. *)
LEMMA OneBlock ==
    ASSUME NEW T, NEW msg \in Seq(T), NEW m, IsFramed(msg, m)
    PROVE  StripBlocks(msg) = [opened |-> 0, inside |-> 3 .. m + 8, unbalanced |-> FALSE]
<1> DEFINE n == Len(msg)
           before == [opened |-> 0, inside |-> {}, unbalanced |-> FALSE]
           within == [opened |-> 3, inside |-> {}, unbalanced |-> FALSE]
           after == [opened |-> 0, inside |-> 3 .. m + 8, unbalanced |-> FALSE]
           state(i) == IF i < 3 THEN before ELSE IF i < m + 6 THEN within ELSE after
           Solves(f) == f = [i \in 0 .. n |-> IF i = 0 THEN before
                                              ELSE ScanStep(msg, f[i - 1], i)]
           from == CHOOSE f : Solves(f)
<1>1. m \in Nat /\ n = m + 9
  BY DEF IsFramed
<1>2. ASSUME NEW i \in 1 .. n, i + 2 <= n
      PROVE  (At(msg, i, OpenTag) <=> i = 3) /\ (At(msg, i, CloseTag) <=> i = m + 6)
  <2>1. i \in 1 .. Len(msg) - 2
    BY <1>1, <1>2
  <2>2. /\ At(msg, i, OpenTag)
           <=> msg[i] = "lt" /\ msg[i + 1] = "open" /\ msg[i + 2] = "nonce"
        /\ At(msg, i, CloseTag)
           <=> msg[i] = "lt" /\ msg[i + 1] = "close" /\ msg[i + 2] = "nonce"
    BY <2>1, TagAt DEF OpenTag, CloseTag
  <2>3. msg[i] = "lt" => i = 3 \/ i = m + 6
    <3>1. i \in 1 .. 5 \/ i \in 6 .. m + 5 \/ i \in m + 6 .. m + 9
      BY <1>1
    <3>2. i \in 6 .. m + 5 => msg[i] # "lt"
      BY DEF IsFramed
    <3>3. i \in 1 .. 5 /\ i # 3 => msg[i] # "lt"
      BY DEF IsFramed
    <3>4. i \in m + 6 .. m + 9 /\ i # m + 6 => msg[i] # "lt"
      <4>1. i \in m + 6 .. m + 9 /\ i # m + 6 => i = m + 7 \/ i = m + 8 \/ i = m + 9
        BY <1>1
      <4> QED BY <4>1 DEF IsFramed
    <3> QED BY <3>1, <3>2, <3>3, <3>4
  <2>4. CASE i = 3
    <3>1. msg[i] = "lt" /\ msg[i + 1] = "open" /\ msg[i + 2] = "nonce" /\ i # m + 6
      BY <1>1, <2>4 DEF IsFramed
    <3> QED BY <2>2, <2>4, <3>1
  <2>5. CASE i = m + 6
    <3>1. i + 1 = m + 7 /\ i + 2 = m + 8 /\ i # 3
      BY <1>1, <2>5
    <3>2. msg[i] = "lt" /\ msg[i + 1] = "close" /\ msg[i + 2] = "nonce"
      BY <2>5, <3>1 DEF IsFramed
    <3> QED BY <2>2, <2>5, <3>1, <3>2
  <2> QED BY <2>2, <2>3, <2>4, <2>5
<1>3. ASSUME NEW i \in 1 .. n
      PROVE  ScanStep(msg, state(i - 1), i) = state(i)
  <2>1. CASE i = 3
    <3>1. i + 2 <= n /\ At(msg, i, OpenTag) /\ ~ At(msg, i, CloseTag)
      BY <1>1, <1>2, <2>1
    <3>2. state(i - 1) = before /\ state(i) = within
      BY <1>1, <2>1
    <3>3. before.opened = 0
      OBVIOUS
    <3>4. ScanStep(msg, before, i) = [before EXCEPT !.opened = i]
      <4> HIDE DEF before
      <4> QED BY <3>1, <3>3 DEF ScanStep
    <3>5. ScanStep(msg, before, i) = within
      BY <2>1, <3>4
    <3> QED BY <3>2, <3>5
  <2>2. CASE i = m + 6
    <3>1. i + 2 <= n /\ ~ At(msg, i, OpenTag) /\ At(msg, i, CloseTag)
      BY <1>1, <1>2, <2>2
    <3>2. state(i - 1) = within /\ state(i) = after
      BY <1>1, <2>2
    <3>3. within.opened = 3
      OBVIOUS
    <3>4. ScanStep(msg, within, i)
          = [within EXCEPT !.opened = 0, !.inside = @ \cup (within.opened .. i + 2)]
      BY <3>1, <3>3 DEF ScanStep
    <3>5. i + 2 = m + 8
      BY <1>1, <2>2
    <3>6. ScanStep(msg, within, i) = after
      BY <3>3, <3>4, <3>5, ZenonT(60)
    <3> QED BY <3>2, <3>6
  <2>3. CASE i # 3 /\ i # m + 6
    <3>1. ~ (i + 2 <= n /\ At(msg, i, OpenTag)) /\ ~ (i + 2 <= n /\ At(msg, i, CloseTag))
      BY <1>2, <2>3
    <3>2. ScanStep(msg, state(i - 1), i) = state(i - 1)
      <4> HIDE DEF state
      <4> QED BY <3>1 DEF ScanStep
    <3>3. (i - 1 < 3 <=> i < 3) /\ (i - 1 < m + 6 <=> i < m + 6)
      BY <1>1, <2>3
    <3>4. state(i - 1) = state(i)
      BY <3>3
    <3> QED BY <3>2, <3>4
  <2> QED BY <2>1, <2>2, <2>3
<1>4. state(0) = before /\ state(n) = after
  BY <1>1
<1>5. StripBlocks(msg) = from[n]
  BY DEF StripBlocks, ScanStep
<1> HIDE DEF state, before, after, within, n
<1>6. \E f : Solves(f)
  <2> DEFINE f == [i \in 0 .. n |-> state(i)]
  <2>1. ASSUME NEW i \in 0 .. n
        PROVE  f[i] = IF i = 0 THEN before ELSE ScanStep(msg, f[i - 1], i)
    <3>1. i # 0 => i \in 1 .. n /\ i - 1 \in 0 .. n
      BY <1>1
    <3> QED BY <1>3, <1>4, <3>1
  <2>2. f = [i \in 0 .. n |-> f[i]]
    OBVIOUS
  <2> HIDE DEF f
  <2>3. f = [i \in 0 .. n |-> IF i = 0 THEN before ELSE ScanStep(msg, f[i - 1], i)]
    BY <2>1, <2>2
  <2> QED BY <2>3
<1>7. Solves(from)
  BY <1>6
<1> HIDE DEF from
<1>8. \A i \in 0 .. n : from[i] = IF i = 0 THEN before ELSE ScanStep(msg, from[i - 1], i)
  BY <1>7
<1> DEFINE wrong == {i \in 0 .. n : from[i] # state(i)}
<1>9. wrong = {}
  <2> SUFFICES ASSUME wrong # {}
               PROVE  FALSE
    OBVIOUS
  <2>1. PICK i \in wrong : \A k \in wrong : i <= k
    <3>1. wrong \subseteq Nat
      BY <1>1
    <3> HIDE DEF wrong
    <3> QED BY <3>1, LeastNumber
  <2>2. i # 0
    BY <1>4, <1>8
  <2>3. i \in 1 .. n /\ i - 1 \in 0 .. n /\ ~ (i <= i - 1)
    BY <1>1, <2>2
  <2>4. from[i - 1] = state(i - 1)
    BY <2>1, <2>3
  <2>5. from[i] = ScanStep(msg, state(i - 1), i)
    BY <1>8, <2>2, <2>4
  <2>6. from[i] = state(i)
    BY <1>3, <2>3, <2>5
  <2> QED BY <2>6
<1>10. n \in 0 .. n
  BY <1>1
<1>11. from[n] = after
  BY <1>4, <1>9, <1>10
<1> QED BY <1>5, <1>11 DEF after

(* The linter has nothing to object to, and the nonce is in the tags only. *)
LEMMA FramedIsClean ==
    ASSUME NEW T, NEW msg \in Seq(T), NEW m, IsFramed(msg, m)
    PROVE  /\ Lint(msg) = {}
           /\ Cardinality({i \in DOMAIN msg : msg[i] = "nonce"}) = 2
<1>1. m \in Nat /\ DOMAIN msg = 1 .. m + 9
  BY DEF IsFramed
<1>2. Lint(msg) = {}
  <2> DEFINE blocks == StripBlocks(msg)
  <2>1. blocks.opened = 0 /\ blocks.inside = 3 .. m + 8 /\ blocks.unbalanced = FALSE
    BY OneBlock
  <2> HIDE DEF blocks
  <2>2. ASSUME NEW i \in DOMAIN msg \ blocks.inside
        PROVE  msg[i] \in Template
    <3>1. i = 1 \/ i = 2 \/ i = m + 9
      BY <1>1, <2>1
    <3>2. msg[1] = "heading" /\ msg[2] = "fact" /\ msg[m + 9] = "sentence"
      BY DEF IsFramed
    <3>3. msg[i] = "heading" \/ msg[i] = "fact" \/ msg[i] = "sentence"
      BY <3>1, <3>2
    <3> QED BY <3>3 DEF Template
  <2>3. Lint(msg)
        = (IF blocks.unbalanced \/ blocks.opened # 0 THEN {"unbalanced_block"} ELSE {})
          \cup (IF \A i \in DOMAIN msg \ blocks.inside : msg[i] \in Template
                THEN {} ELSE {"free_text"})
    BY DEF Lint, blocks
  <2> QED BY <2>1, <2>2, <2>3
<1>3. Cardinality({i \in DOMAIN msg : msg[i] = "nonce"}) = 2
  <2> DEFINE nonces == {i \in DOMAIN msg : msg[i] = "nonce"}
  <2>1. ASSUME NEW i \in 1 .. m + 9
        PROVE  msg[i] = "nonce" <=> i = 5 \/ i = m + 8
    <3>1. \/ i = 1 \/ i = 2 \/ i = 3 \/ i = 4 \/ i = 5
          \/ i \in 6 .. m + 5
          \/ i = m + 6 \/ i = m + 7 \/ i = m + 8 \/ i = m + 9
      BY <1>1
    <3>2. CASE i = 1 \/ i = 2 \/ i = 3 \/ i = 4 \/ i = 5
      <4>1. i # m + 8
        BY <1>1, <3>2
      <4> QED BY <3>2, <4>1 DEF IsFramed
    <3>3. CASE i \in 6 .. m + 5
      <4>1. i # 5 /\ i # m + 8
        BY <1>1, <3>3
      <4> QED BY <3>3, <4>1 DEF IsFramed
    <3>4. CASE i = m + 6 \/ i = m + 7 \/ i = m + 8 \/ i = m + 9
      <4>1. i # 5 /\ m + 6 # m + 8 /\ m + 7 # m + 8 /\ m + 9 # m + 8
        BY <1>1, <3>4
      <4> QED BY <3>4, <4>1 DEF IsFramed
    <3> QED BY <3>1, <3>2, <3>3, <3>4
  <2>2. nonces = {5} \cup {m + 8}
    BY <1>1, <2>1
  <2> HIDE DEF nonces
  <2>3. m + 8 \notin {5}
    BY <1>1
  <2>4. Cardinality({5}) = 1 /\ IsFiniteSet({5})
    BY FS_Singleton
  <2>5. Cardinality({5} \cup {m + 8}) = 2
    <3> DEFINE first == {5}
    <3>1. IsFiniteSet(first) /\ Cardinality(first) = 1 /\ m + 8 \notin first
      BY <2>3, <2>4
    <3> HIDE DEF first
    <3>2. Cardinality(first \cup {m + 8}) = 2
      BY <3>1, FS_AddElement
    <3> QED BY <3>2 DEF first
  <2> QED BY <2>2, <2>5 DEF nonces
<1> QED BY <1>2, <1>3

(* A msg is ours whatever the text in it holds: it has one block and    *)
(* passes the linter, the nonce is in the two tags and nowhere else, and    *)
(* the detector reports a truncation marker exactly if the text kept one of *)
(* its own (security/wrap.py, linter.py and detector.py).                   *)
THEOREM MessagesAreOurs ==
    ASSUME NEW S, NEW text \in Seq(S), NEW limit \in Nat
    PROVE  MessageIsOurs(text, limit)
<1> DEFINE msg == Message(text, limit)
           plain == Plain(text, limit)
           n == IF Len(text) > limit THEN limit ELSE Len(text)
           own == {i \in 1 .. n : text[i] = "marker"}
           marks == {i \in DOMAIN plain : plain[i] = "marker"}
<1>1. /\ Lint(msg) = {}
      /\ Cardinality({i \in DOMAIN msg : msg[i] = "nonce"}) = 2
  <2>1. PICK T : msg \in Seq(T)
    BY Framed
  <2>2. \E m : IsFramed(msg, m)
    BY Framed
  <2> HIDE DEF msg
  <2> QED BY <2>1, <2>2, FramedIsClean
<1>2. Len(text) \in Nat /\ DOMAIN text = 1 .. Len(text)
  BY LenProperties
<1>3. \E T : plain \in Seq(T)
  BY PlainText
<1>4. /\ Len(plain) = IF Len(text) > limit THEN limit + 1 ELSE Len(text)
      /\ Len(text) > limit => plain[limit + 1] = "marker"
      /\ \A i \in 1 .. n : plain[i] = "marker" <=> text[i] = "marker"
  BY PlainText
<1>5. n \in Nat /\ n <= limit /\ n <= Len(text)
  BY <1>2
<1>6. \A i \in 1 .. Len(text) : i <= limit <=> i \in 1 .. n
  BY <1>2
<1> HIDE DEF msg, plain
<1>7. DOMAIN plain = 1 .. Len(plain)
  BY <1>3, LenProperties
<1>8. IsFiniteSet(own) /\ Cardinality(own) \in Nat /\ (Cardinality(own) = 0 <=> own = {})
  <2>1. own \subseteq 1 .. n
    OBVIOUS
  <2> HIDE DEF own, n
  <2> QED BY <1>5, <2>1, CountsAny
<1>9. own # {} <=> \E i \in DOMAIN text : i <= limit /\ text[i] = "marker"
  <2>1. \A i \in 1 .. n : i \in 1 .. Len(text)
    BY <1>2, <1>5
  <2> HIDE DEF n
  <2> QED BY <1>2, <1>6, <2>1
<1>10. Markers(plain) = Cardinality(marks)
  BY DEF Markers
<1>11. ASSUME Len(text) > limit
       PROVE  FakeTruncationMarker(text, limit)
              <=> \E i \in DOMAIN text : i <= limit /\ text[i] = "marker"
  <2>1. n = limit /\ Len(plain) = limit + 1 /\ plain[limit + 1] = "marker"
    BY <1>4, <1>11
  <2>2. marks = own \cup {limit + 1}
    <3>1. ASSUME NEW i \in 1 .. limit + 1
          PROVE  i \in 1 .. limit \/ i = limit + 1
      OBVIOUS
    <3>2. limit + 1 \in 1 .. limit + 1 /\ \A i \in 1 .. limit : i \in 1 .. limit + 1
      OBVIOUS
    <3> HIDE DEF n
    <3> QED BY <1>4, <1>7, <2>1, <3>1, <3>2
  <2>3. limit + 1 \notin own
    BY <2>1
  <2>4. Cardinality(marks) = Cardinality(own) + 1
    <3> HIDE DEF own, marks
    <3> QED BY <1>8, <2>2, <2>3, FS_AddElement
  <2> HIDE DEF own, marks, n
  <2>5. FakeTruncationMarker(text, limit) <=> Markers(plain) > 1
    BY <1>11 DEF FakeTruncationMarker, Truncated, plain
  <2>6. FakeTruncationMarker(text, limit) <=> own # {}
    BY <1>8, <1>10, <2>4, <2>5
  <2> QED BY <1>9, <2>6
<1>12. ASSUME ~ (Len(text) > limit)
       PROVE  FakeTruncationMarker(text, limit)
              <=> \E i \in DOMAIN text : i <= limit /\ text[i] = "marker"
  <2>1. n = Len(text) /\ Len(plain) = Len(text)
    BY <1>4, <1>12
  <2>2. marks = own
    <3> HIDE DEF n
    <3> QED BY <1>4, <1>7, <2>1
  <2> HIDE DEF own, marks, n
  <2>3. FakeTruncationMarker(text, limit) <=> Markers(plain) >= 1
    BY <1>12 DEF FakeTruncationMarker, Truncated, plain
  <2>4. FakeTruncationMarker(text, limit) <=> own # {}
    BY <1>8, <1>10, <2>2, <2>3
  <2> QED BY <1>9, <2>4
<1>13. FakeTruncationMarker(text, limit)
       <=> \E i \in DOMAIN text : i <= limit /\ text[i] = "marker"
  BY <1>9, <1>11, <1>12
<1> QED BY <1>1, <1>13 DEF MessageIsOurs, msg

---------------------------------------------------------------------------
(* The repair round.  What rsplit leaves of a path is shorter, or the path  *)
(* was empty.                                                              *)
LEMMA ParentIsShorter ==
    ASSUME NEW S, NEW path \in Seq(S)
    PROVE  /\ ParentKey(path) \in Seq(S)
           /\ ParentKey(path) = <<>> \/ Len(ParentKey(path)) < Len(path)
<1>1. /\ Len(path) \in Nat /\ DOMAIN path = 1 .. Len(path)
      /\ \A i \in 1 .. Len(path) : path[i] \in S
  BY LenProperties, ElementOfSeq
<1>2. CASE "." \notin {path[i] : i \in DOMAIN path}
  BY <1>2 DEF ParentKey
<1>3. CASE "." \in {path[i] : i \in DOMAIN path}
  <2> DEFINE IsLast(i) == path[i] = "." /\ \A j \in i + 1 .. Len(path) : path[j] # "."
             k == CHOOSE i \in DOMAIN path : IsLast(i)
             left == {Len(path) - i : i \in {j \in 1 .. Len(path) : path[j] = "."}}
  <2>1. left # {} /\ left \subseteq Nat
    BY <1>1, <1>3
  <2>2. \E i \in DOMAIN path : IsLast(i)
    <3>1. PICK d \in left : \A e \in left : d <= e
      <4> HIDE DEF left
      <4> QED BY <2>1, LeastNumber
    <3>2. PICK i \in 1 .. Len(path) : path[i] = "." /\ d = Len(path) - i
      OBVIOUS
    <3>3. ASSUME NEW j \in i + 1 .. Len(path), path[j] = "."
          PROVE  FALSE
      <4>1. j \in 1 .. Len(path)
        BY <1>1
      <4>2. Len(path) - j \in left
        BY <3>3, <4>1
      <4>3. d <= Len(path) - j
        BY <3>1, <4>2
      <4> QED BY <1>1, <3>2, <4>3
    <3> QED BY <1>1, <3>2, <3>3
  <2>3. k \in 1 .. Len(path)
    BY <1>1, <2>2
  <2>4. ParentKey(path) = SubSeq(path, 1, k - 1)
    BY <1>3 DEF ParentKey
  <2> HIDE DEF k
  <2> DEFINE front == SubSeq(path, 1, k - 1)
  <2>5. front \in Seq(S) /\ Len(front) = k - 1
    <3>1. \A j \in 1 .. k - 1 : path[j] \in S
      BY <1>1, <2>3
    <3>2. front \in Seq(S) /\ Len(front) = IF 1 <= k - 1 THEN (k - 1) - 1 + 1 ELSE 0
      BY <2>3, <3>1, SubSeqProperties
    <3> HIDE DEF front
    <3> QED BY <2>3, <3>2
  <2> HIDE DEF front
  <2>6. Len(front) < Len(path)
    BY <1>1, <2>3, <2>5
  <2> QED BY <2>4, <2>5, <2>6 DEF front
<1> QED BY <1>2, <1>3

(* So the parts of a path run out before the steps do.                      *)
LEMMA PrefixIsAnObject ==
    ASSUME NEW S, NEW path \in Seq(S)
    PROVE  ObjectPrefix(path) \in ObjectPaths \cup {<<>>}
<1> DEFINE n == Len(path)
           Up(p) == IF p \in ObjectPaths THEN p ELSE ParentKey(p)
           Solves(f, k) == f = [i \in 0 .. k |-> IF i = 0 THEN path ELSE Up(f[i - 1])]
           from == CHOOSE f : Solves(f, n)
<1>1. n \in Nat
  BY LenProperties
<1>2. ObjectPrefix(path) = from[n]
  BY DEF ObjectPrefix
<1> HIDE DEF n, Up
<1>3. \E f : Solves(f, n)
  <2> DEFINE unsolved == {k \in 0 .. n : ~ \E f : Solves(f, k)}
  <2>1. unsolved = {}
    <3> SUFFICES ASSUME unsolved # {}
                 PROVE  FALSE
      OBVIOUS
    <3>1. PICK k \in unsolved : \A j \in unsolved : k <= j
      <4>1. unsolved \subseteq Nat
        BY <1>1
      <4> HIDE DEF unsolved
      <4> QED BY <4>1, LeastNumber
    <3>2. k # 0
      <4> DEFINE f == [i \in 0 .. 0 |-> path]
      <4>1. f = [i \in 0 .. 0 |-> IF i = 0 THEN path ELSE Up(f[i - 1])]
        <5>1. \A i \in 0 .. 0 : path = IF i = 0 THEN path ELSE Up(f[i - 1])
          OBVIOUS
        <5>2. f = [i \in 0 .. 0 |-> f[i]] /\ \A i \in 0 .. 0 : f[i] = path
          OBVIOUS
        <5> HIDE DEF f
        <5> QED BY <5>1, <5>2
      <4>2. Solves(f, 0)
        BY <4>1
      <4> HIDE DEF f, Solves
      <4> QED BY <4>2
    <3>3. k \in 1 .. n /\ k - 1 \in 0 .. n /\ ~ (k <= k - 1)
      BY <1>1, <3>2
    <3>4. PICK f : Solves(f, k - 1)
      <4>1. k - 1 \notin unsolved
        BY <3>1, <3>3
      <4> HIDE DEF Solves
      <4> QED BY <3>3, <4>1
    <3> DEFINE g == [i \in 0 .. k |-> IF i = k THEN Up(f[k - 1]) ELSE f[i]]
    <3>5. ASSUME NEW i \in 0 .. k
          PROVE  g[i] = IF i = 0 THEN path ELSE Up(g[i - 1])
      <4>1. CASE i = k
        BY <3>3, <4>1
      <4>2. CASE i # k
        <5>1. i \in 0 .. k - 1 /\ (i # 0 => i - 1 \in 0 .. k /\ i - 1 # k)
          BY <3>3, <4>2
        <5>2. f[i] = IF i = 0 THEN path ELSE Up(f[i - 1])
          BY <3>4, <5>1
        <5> QED BY <4>2, <5>1, <5>2
      <4> QED BY <4>1, <4>2
    <3>6. g = [i \in 0 .. k |-> g[i]]
      OBVIOUS
    <3> HIDE DEF g
    <3>7. Solves(g, k)
      BY <3>5, <3>6
    <3> HIDE DEF Solves
    <3> QED BY <3>1, <3>7
  <2>2. n \in 0 .. n
    BY <1>1
  <2> HIDE DEF Solves
  <2> QED BY <2>1, <2>2
<1>4. Solves(from, n)
  BY <1>3
<1> HIDE DEF from
<1>5. \A i \in 0 .. n : from[i] = IF i = 0 THEN path ELSE Up(from[i - 1])
  BY <1>4
<1> DEFINE Done(p) == p \in ObjectPaths \/ p = <<>>
           wrong == {i \in 0 .. n : ~ (/\ from[i] \in Seq(S)
                                       /\ Done(from[i]) \/ Len(from[i]) <= n - i)}
<1>6. wrong = {}
  <2> SUFFICES ASSUME wrong # {}
               PROVE  FALSE
    OBVIOUS
  <2>1. PICK i \in wrong : \A k \in wrong : i <= k
    <3>1. wrong \subseteq Nat
      BY <1>1
    <3> HIDE DEF wrong
    <3> QED BY <3>1, LeastNumber
  <2>2. i # 0
    <3>1. 0 \in 0 .. n /\ n - 0 = n
      BY <1>1
    <3>2. from[0] = path
      BY <1>5, <3>1
    <3>3. Len(path) <= n
      BY <1>1 DEF n
    <3> QED BY <1>1, <3>1, <3>2, <3>3
  <2>3. i \in 1 .. n /\ i - 1 \in 0 .. n /\ ~ (i <= i - 1)
    BY <1>1, <2>2
  <2> DEFINE p == from[i - 1]
  <2>4. p \in Seq(S) /\ (Done(p) \/ Len(p) <= n - (i - 1))
    <3>1. i - 1 \notin wrong
      BY <2>1, <2>3
    <3> QED BY <2>3, <3>1
  <2>5. from[i] = Up(p)
    BY <1>5, <2>2
  <2> HIDE DEF p
  <2>6. CASE p \in ObjectPaths
    <3>1. from[i] = p
      BY <2>5, <2>6 DEF Up
    <3> QED BY <2>4, <2>6, <3>1
  <2>7. CASE p \notin ObjectPaths
    <3> DEFINE q == ParentKey(p)
    <3>1. from[i] = q
      BY <2>5, <2>7 DEF Up
    <3>2. q \in Seq(S) /\ (q = <<>> \/ Len(q) < Len(p))
      BY <2>4, ParentIsShorter
    <3> HIDE DEF q
    <3>3. Len(q) \in Nat /\ Len(p) \in Nat
      BY <2>4, <3>2, LenProperties
    <3>4. CASE p = <<>>
      <4>1. Len(p) = 0
        BY <3>4
      <4> QED BY <3>1, <3>2, <3>3, <4>1
    <3>5. CASE p # <<>>
      <4>1. Len(p) <= n - (i - 1)
        BY <2>4, <2>7, <3>5
      <4>2. q = <<>> \/ Len(q) <= n - i
        BY <1>1, <2>3, <3>2, <3>3, <4>1
      <4> QED BY <3>1, <3>2, <4>2
    <3> QED BY <3>4, <3>5
  <2> QED BY <2>6, <2>7
<1>7. n \in 0 .. n /\ n - n = 0
  BY <1>1
<1>8. from[n] \in Seq(S) /\ (Done(from[n]) \/ Len(from[n]) <= 0)
  BY <1>6, <1>7
<1>9. Done(from[n])
  <2> DEFINE p == from[n]
  <2>1. p \in Seq(S) /\ (Len(p) <= 0 => p = <<>>)
    BY <1>8, LenProperties, EmptySeq
  <2> QED BY <1>8, <2>1
<1> QED BY <1>2, <1>9

(* An error is the path of n tokens, the ":" and the validator's message.   *)
LEMMA ErrorShape ==
    ASSUME NEW S, NEW a \in Seq(S), NEW m
    PROVE  LET error == ErrorAt(a, m)
               n == Len(a)
           IN  /\ \E T : error \in Seq(T)
               /\ n \in Nat /\ Len(error) = n + 2 /\ DOMAIN error = 1 .. n + 2
               /\ error[n + 1] = ":" /\ error[n + 2] = m /\ \A i \in 1 .. n : error[i] = a[i]
<1> DEFINE T == S \cup {":", m}
           tail == <<":", m>>
           n == Len(a)
           error == a \o tail
<1>1. n \in Nat
  BY LenProperties
<1>2. S \subseteq T /\ ":" \in T /\ m \in T
  OBVIOUS
<1> HIDE DEF T
<1>3. a \in Seq(T)
  BY <1>2
<1>4. tail \in Seq(T) /\ Len(tail) = 2 /\ tail[1] = ":" /\ tail[2] = m
  BY <1>2
<1> HIDE DEF tail
<1>5. /\ error \in Seq(T) /\ Len(error) = n + 2
      /\ \A i \in 1 .. n + 2 : error[i] = IF i <= n THEN a[i] ELSE tail[i - n]
  <2>1. /\ error \in Seq(T) /\ Len(error) = Len(a) + Len(tail)
        /\ \A i \in 1 .. Len(a) + Len(tail) :
              error[i] = IF i <= Len(a) THEN a[i] ELSE tail[i - Len(a)]
    BY <1>3, <1>4, ConcatProperties
  <2> HIDE DEF error
  <2> QED BY <1>4, <2>1
<1> HIDE DEF n, error
<1>6. error[n + 1] = ":" /\ error[n + 2] = m /\ \A i \in 1 .. n : error[i] = a[i]
  <2>1. /\ n + 1 \in 1 .. n + 2 /\ n + 2 \in 1 .. n + 2
        /\ ~ (n + 1 <= n) /\ ~ (n + 2 <= n) /\ (n + 1) - n = 1 /\ (n + 2) - n = 2
        /\ \A i \in 1 .. n : i \in 1 .. n + 2 /\ i <= n
    BY <1>1
  <2> QED BY <1>4, <1>5, <2>1
<1>7. DOMAIN error = 1 .. n + 2
  BY <1>5, LenProperties
<1> QED BY <1>1, <1>5, <1>6, <1>7 DEF n, error, tail, ErrorAt

(* It is split where a path without a ":" of its own ends.                  *)
LEMMA SplitAt ==
    ASSUME NEW T, NEW error \in Seq(T), NEW n \in Nat, Len(error) = n + 2,
           NEW a \in Seq(T), Len(a) = n, \A i \in 1 .. n : error[i] = a[i] /\ a[i] # ":",
           NEW m, m # ":", error[n + 1] = ":", error[n + 2] = m
    PROVE  /\ Separator(error) = n + 1
           /\ SubSeq(error, 1, n) = a
           /\ SubSeq(error, n + 2, n + 2) = <<m>>
<1>1. /\ DOMAIN error = 1 .. n + 2 /\ \A i \in 1 .. n + 2 : error[i] \in T
  BY LenProperties, ElementOfSeq
<1>2. Separator(error) = n + 1
  <2> DEFINE First(i) == error[i] = ":" /\ \A j \in 1 .. i - 1 : error[j] # ":"
  <2>1. n + 1 \in DOMAIN error /\ First(n + 1)
    <3>1. n + 1 \in 1 .. n + 2 /\ (n + 1) - 1 = n
      OBVIOUS
    <3> QED BY <1>1, <3>1
  <2>2. ASSUME NEW i \in DOMAIN error, First(i)
        PROVE  i = n + 1
    <3>1. i \in 1 .. n \/ i = n + 1 \/ i = n + 2
      BY <1>1
    <3> QED BY <2>2, <3>1
  <2>3. Separator(error) = CHOOSE i \in DOMAIN error : First(i)
    BY DEF Separator
  <2> HIDE DEF First
  <2> QED BY <2>1, <2>2, <2>3
<1>3. SubSeq(error, 1, n) = a
  <2> DEFINE front == SubSeq(error, 1, n)
  <2>1. \A i \in 1 .. n : error[i] \in T
    BY <1>1
  <2>2. /\ front \in Seq(T) /\ Len(front) = IF 1 <= n THEN n - 1 + 1 ELSE 0
        /\ \A i \in 1 .. n - 1 + 1 : front[i] = error[1 + i - 1]
    BY <2>1, SubSeqProperties
  <2> HIDE DEF front
  <2>3. Len(front) = n /\ \A i \in 1 .. n : front[i] = a[i]
    <3>1. \A i \in 1 .. n : i \in 1 .. n - 1 + 1 /\ 1 + i - 1 = i
      OBVIOUS
    <3> QED BY <2>2, <3>1
  <2>4. front = a
    BY <2>2, <2>3, SeqEqual
  <2> QED BY <2>4 DEF front
<1>4. SubSeq(error, n + 2, n + 2) = <<m>>
  <2> DEFINE back == SubSeq(error, n + 2, n + 2)
             last == <<m>>
  <2>1. \A i \in n + 2 .. n + 2 : error[i] \in T
    <3>1. \A i \in n + 2 .. n + 2 : i \in 1 .. n + 2
      OBVIOUS
    <3> QED BY <1>1, <3>1
  <2>2. /\ n + 2 \in Int /\ n + 2 <= n + 2 /\ (n + 2) - (n + 2) + 1 = 1
        /\ (n + 2) + 1 - 1 = n + 2
    OBVIOUS
  <2>3. /\ back \in Seq(T) /\ Len(back) = (n + 2) - (n + 2) + 1
        /\ \A i \in 1 .. (n + 2) - (n + 2) + 1 : back[i] = error[(n + 2) + i - 1]
    BY <2>1, <2>2, SubSeqProperties
  <2>4. m \in T
    <3>1. n + 2 \in 1 .. n + 2
      OBVIOUS
    <3> QED BY <1>1, <3>1
  <2>5. last \in Seq(T) /\ Len(last) = 1 /\ last[1] = m
    BY <2>4
  <2> HIDE DEF back, last
  <2>6. Len(back) = 1
    BY <2>2, <2>3
  <2>7. back[1] = m
    <3>1. 1 \in 1 .. (n + 2) - (n + 2) + 1
      OBVIOUS
    <3> QED BY <2>2, <2>3, <3>1
  <2>8. \A i \in 1 .. Len(back) : back[i] = last[i]
    BY <2>5, <2>6, <2>7
  <2>9. back = last
    BY <2>3, <2>5, <2>6, <2>8, SeqEqual
  <2> QED BY <2>9 DEF back, last
<1> QED BY <1>2, <1>3, <1>4

LEMMA ErrorIsSplit ==
    ASSUME NEW S, NEW a \in Seq(S), NEW m, m # ":", \A i \in 1 .. Len(a) : a[i] # ":"
    PROVE  LET error == ErrorAt(a, m)
           IN  /\ SubSeq(error, 1, Separator(error) - 1) = a
               /\ SubSeq(error, Separator(error) + 1, Len(error)) = <<m>>
<1> DEFINE error == ErrorAt(a, m)
           n == Len(a)
<1>1. /\ \E T : error \in Seq(T)
      /\ n \in Nat /\ Len(error) = n + 2 /\ DOMAIN error = 1 .. n + 2
      /\ error[n + 1] = ":" /\ error[n + 2] = m /\ \A i \in 1 .. n : error[i] = a[i]
  BY ErrorShape
<1>2. Len(a) = n /\ \A i \in 1 .. n : a[i] # ":"
  OBVIOUS
<1> HIDE DEF error, n
<1>3. PICK T : error \in Seq(T)
  BY <1>1
<1> DEFINE U == S \cup T
<1>4. error \in Seq(U) /\ a \in Seq(U)
  <2>1. S \subseteq U /\ T \subseteq U
    OBVIOUS
  <2> HIDE DEF U
  <2> QED BY <1>3, <2>1
<1> HIDE DEF U
<1>5. /\ Separator(error) = n + 1 /\ SubSeq(error, 1, n) = a
      /\ SubSeq(error, n + 2, n + 2) = <<m>>
  BY <1>1, <1>2, <1>4, SplitAt
<1>6. (n + 1) - 1 = n /\ (n + 1) + 1 = n + 2
  BY <1>1
<1> QED BY <1>1, <1>5, <1>6 DEF error

PathNames == {"structured_basis", "severity", "reasons", "source", "confidence", "[]", "[0]", "."}

(* No path of the schema holds a ":", or an index that is not its own.      *)
LEMMA SchemaPath ==
    ASSUME NEW path \in SchemaPaths
    PROVE  /\ path \in Seq(PathNames)
           /\ \A i \in 1 .. Len(path) : path[i] # ":" /\ path[i] # "[0]"
<1>1. CASE path = <<"structured_basis">>
  <2>1. path \in Seq(PathNames) /\ Len(path) = 1
    BY <1>1 DEF PathNames
  <2>2. path[1] = "structured_basis"
    BY <1>1
  <2>3. \A i \in 1 .. 1 : i = 1
    OBVIOUS
  <2> QED BY <2>1, <2>2, <2>3
<1>2. CASE path = <<"reasons", "[]">>
  <2>1. path \in Seq(PathNames) /\ Len(path) = 2
    BY <1>2 DEF PathNames
  <2>2. path[1] = "reasons" /\ path[2] = "[]"
    BY <1>2
  <2>3. \A i \in 1 .. 2 : i = 1 \/ i = 2
    OBVIOUS
  <2> QED BY <2>1, <2>2, <2>3
<1>3. CASE path = <<"reasons">>
  <2>1. path \in Seq(PathNames) /\ Len(path) = 1
    BY <1>3 DEF PathNames
  <2>2. path[1] = "reasons"
    BY <1>3
  <2>3. \A i \in 1 .. 1 : i = 1
    OBVIOUS
  <2> QED BY <2>1, <2>2, <2>3
<1>4. CASE path = <<"confidence">>
  <2>1. path \in Seq(PathNames) /\ Len(path) = 1
    BY <1>4 DEF PathNames
  <2>2. path[1] = "confidence"
    BY <1>4
  <2>3. \A i \in 1 .. 1 : i = 1
    OBVIOUS
  <2> QED BY <2>1, <2>2, <2>3
<1>5. CASE path = <<"structured_basis", ".", "severity">>
  <2>1. path \in Seq(PathNames) /\ Len(path) = 3
    BY <1>5 DEF PathNames
  <2>2. path[1] = "structured_basis" /\ path[2] = "." /\ path[3] = "severity"
    BY <1>5
  <2>3. \A i \in 1 .. 3 : i = 1 \/ i = 2 \/ i = 3
    OBVIOUS
  <2> QED BY <2>1, <2>2, <2>3
<1>6. CASE path = <<"reasons", "[]", ".", "source">>
  <2>1. path \in Seq(PathNames) /\ Len(path) = 4
    BY <1>6 DEF PathNames
  <2>2. path[1] = "reasons" /\ path[2] = "[]" /\ path[3] = "." /\ path[4] = "source"
    BY <1>6
  <2>3. \A i \in 1 .. 4 : i = 1 \/ i = 2 \/ i = 3 \/ i = 4
    OBVIOUS
  <2> QED BY <2>1, <2>2, <2>3
<1> QED BY <1>1, <1>2, <1>3, <1>4, <1>5, <1>6 DEF SchemaPaths, ObjectPaths

LEMMA IndexedPath ==
    ASSUME NEW path \in SchemaPaths
    PROVE  /\ Indexed(path) \in Seq(PathNames)
           /\ \A i \in 1 .. Len(Indexed(path)) : Indexed(path)[i] # ":"
           /\ NoIndices(Indexed(path)) = path
<1> DEFINE n == Len(path)
           indexed == Indexed(path)
<1>1. /\ path \in Seq(PathNames)
      /\ \A i \in 1 .. Len(path) : path[i] # ":" /\ path[i] # "[0]"
  BY SchemaPath
<1>2. /\ n \in Nat /\ DOMAIN path = 1 .. n /\ path = [i \in 1 .. n |-> path[i]]
      /\ \A i \in 1 .. n : path[i] \in PathNames /\ path[i] # ":" /\ path[i] # "[0]"
  BY <1>1, LenProperties, ElementOfSeq
<1> HIDE DEF n
<1>3. indexed = [i \in 1 .. n |-> IF path[i] = "[]" THEN "[0]" ELSE path[i]]
  BY <1>2 DEF Indexed
<1> HIDE DEF indexed
<1>4. indexed \in Seq(PathNames) /\ Len(indexed) = n
  <2>1. \A i \in 1 .. n : (IF path[i] = "[]" THEN "[0]" ELSE path[i]) \in PathNames
    BY <1>2 DEF PathNames
  <2>2. indexed \in [1 .. n -> PathNames]
    BY <1>3, <2>1
  <2> QED BY <1>2, <2>2
<1>5. \A i \in 1 .. n : indexed[i] # ":" /\ (indexed[i] = "[0]" <=> path[i] = "[]")
  BY <1>2, <1>3
<1>6. NoIndices(indexed) = path
  <2>1. NoIndices(indexed) = [i \in 1 .. n |-> IF indexed[i] = "[0]" THEN "[]" ELSE indexed[i]]
    BY <1>3 DEF NoIndices
  <2>2. \A i \in 1 .. n : (IF indexed[i] = "[0]" THEN "[]" ELSE indexed[i]) = path[i]
    BY <1>3, <1>5
  <2> QED BY <1>2, <2>1, <2>2
<1> QED BY <1>4, <1>5, <1>6 DEF indexed

LEMMA FaultIsOurs ==
    ASSUME NEW path \in SchemaPaths, NEW fault \in Faults
    PROVE  RepairConstant(RepairLine(ErrorAt(Indexed(path), fault)))
<1> DEFINE error == ErrorAt(Indexed(path), fault)
           none == <<Unexpected>>
           one == <<fault>>
<1>1. fault # ":" /\ fault # Unexpected
  BY DEF Faults, Unexpected
<1>2. /\ SubSeq(error, 1, Separator(error) - 1) = Indexed(path)
      /\ SubSeq(error, Separator(error) + 1, Len(error)) = one
  BY <1>1, IndexedPath, ErrorIsSplit
<1>3. one # none
  <2>1. one[1] = fault /\ none[1] = Unexpected
    OBVIOUS
  <2> QED BY <1>1, <2>1
<1> HIDE DEF error, one, none
<1>4. NoIndices(Indexed(path)) = path
  BY IndexedPath
<1>5. RepairLine(error) = [path |-> IF path = <<>> THEN <<"<root>">> ELSE path, message |-> one]
  BY <1>2, <1>3, <1>4 DEF RepairLine, none
<1>6. one \in {<<m>> : m \in Faults \cup {Unexpected}}
  BY DEF one
<1>7. (IF path = <<>> THEN <<"<root>">> ELSE path) \in SchemaPaths \cup {<<"<root>">>}
  OBVIOUS
<1> DEFINE line == RepairLine(error)
<1>8. line.path = (IF path = <<>> THEN <<"<root>">> ELSE path) /\ line.message = one
  BY <1>5
<1> HIDE DEF line
<1>9. RepairConstant(line)
  BY <1>6, <1>7, <1>8 DEF RepairConstant
<1> QED BY <1>9 DEF line, error

LEMMA KeyIsOurs ==
    ASSUME NEW S, NEW a \in Seq(S)
    PROVE  RepairIsOurs(ErrorAt(a, Unexpected))
<1> DEFINE error == ErrorAt(a, Unexpected)
           none == <<Unexpected>>
           n == Len(a)
           colons == {i \in DOMAIN error : error[i] = ":"}
<1> SUFFICES ASSUME Cardinality(colons) = 1
             PROVE  RepairConstant(RepairLine(error))
  BY DEF RepairIsOurs
<1>1. /\ n \in Nat /\ DOMAIN error = 1 .. n + 2
      /\ error[n + 1] = ":" /\ \A i \in 1 .. n : error[i] = a[i]
  <2>1. /\ \E T : error \in Seq(T)
        /\ n \in Nat /\ Len(error) = n + 2 /\ DOMAIN error = 1 .. n + 2
        /\ error[n + 1] = ":" /\ error[n + 2] = Unexpected /\ \A i \in 1 .. n : error[i] = a[i]
    BY ErrorShape
  <2> QED BY <2>1
<1> HIDE DEF error, n
<1>2. \A i \in 1 .. n : a[i] # ":"
  <2> SUFFICES ASSUME NEW k \in 1 .. n, a[k] = ":"
               PROVE  FALSE
    OBVIOUS
  <2> HIDE DEF n
  <2>1. k \in colons /\ n + 1 \in colons /\ k # n + 1
    <3>1. k \in 1 .. n + 2 /\ n + 1 \in 1 .. n + 2 /\ k # n + 1
      BY <1>1
    <3> QED BY <1>1, <3>1
  <2>2. IsFiniteSet(colons)
    <3>1. colons \subseteq 1 .. n + 2 /\ n + 2 \in Nat
      BY <1>1
    <3> HIDE DEF colons
    <3> QED BY <3>1, CountsAny
  <2>3. PICK x : colons = {x}
    <3> HIDE DEF colons
    <3> QED BY <2>2, FS_Singleton
  <2> QED BY <2>1, <2>3
<1>3. /\ SubSeq(error, 1, Separator(error) - 1) = a
      /\ SubSeq(error, Separator(error) + 1, Len(error)) = none
  <2>1. Unexpected # ":"
    BY DEF Unexpected
  <2> QED BY <1>2, <2>1, ErrorIsSplit DEF error, n
<1> DEFINE path == NoIndices(a)
           ours == ObjectPrefix(path)
<1>4. path \in Seq(S \cup {"[]"})
  <2>1. n \in Nat /\ DOMAIN a = 1 .. n /\ \A i \in 1 .. n : a[i] \in S
    BY LenProperties, ElementOfSeq DEF n
  <2>2. path = [i \in 1 .. n |-> IF a[i] = "[0]" THEN "[]" ELSE a[i]]
    BY <2>1 DEF NoIndices
  <2>3. \A i \in 1 .. n : (IF a[i] = "[0]" THEN "[]" ELSE a[i]) \in S \cup {"[]"}
    BY <2>1
  <2> HIDE DEF n, path
  <2>4. path \in [1 .. n -> S \cup {"[]"}]
    BY <2>2, <2>3
  <2> QED BY <2>1, <2>4
<1>5. ours \in ObjectPaths \cup {<<>>}
  BY <1>4, PrefixIsAnObject
<1>6. RepairLine(error) = [path |-> IF ours = <<>> THEN <<"<root>">> ELSE ours, message |-> none]
  BY <1>3 DEF RepairLine
<1> HIDE DEF ours
<1>7. (IF ours = <<>> THEN <<"<root>">> ELSE ours) \in SchemaPaths \cup {<<"<root>">>}
  BY <1>5 DEF SchemaPaths
<1>8. none \in {<<m>> : m \in Faults \cup {Unexpected}}
  OBVIOUS
<1> HIDE DEF none
<1> DEFINE line == RepairLine(error)
<1>9. line.path = (IF ours = <<>> THEN <<"<root>">> ELSE ours) /\ line.message = none
  BY <1>6
<1> HIDE DEF line
<1>10. RepairConstant(line)
  BY <1>7, <1>8, <1>9 DEF RepairConstant
<1> QED BY <1>10 DEF line

(* A repair round repeats nothing of the answer's own: of every error of    *)
(* the validator but one whose unexpected key brings a separator of its     *)
(* own, the bullet is made of the linter's constants, whatever keys the     *)
(* model came up with (llm/triage.py, _repair_line).                        *)
THEOREM RepairsAreOurs ==
    ASSUME NEW S, NEW keys \in SUBSET Seq(S), NEW error \in FaultErrors \cup KeyErrors(keys)
    PROVE  RepairIsOurs(error)
<1>1. CASE error \in FaultErrors
  <2>1. PICK path \in SchemaPaths, fault \in Faults : error = ErrorAt(Indexed(path), fault)
    BY <1>1 DEF FaultErrors
  <2> QED BY <2>1, FaultIsOurs DEF RepairIsOurs
<1>2. ASSUME NEW key \in keys, error = ErrorAt(key, Unexpected)
      PROVE  RepairIsOurs(error)
  BY <1>2, KeyIsOurs
<1>3. ASSUME NEW path \in ObjectPaths, NEW key \in keys,
             error = ErrorAt(KeyIn(path, key), Unexpected)
      PROVE  RepairIsOurs(error)
  <2> DEFINE T == S \cup PathNames
             dot == <<".">>
             a == KeyIn(path, key)
  <2>1. Indexed(path) \in Seq(PathNames) /\ dot \in Seq(PathNames) /\ key \in Seq(S)
    <3>1. path \in SchemaPaths
      BY DEF SchemaPaths
    <3>2. "." \in PathNames
      BY DEF PathNames
    <3> QED BY <3>1, <3>2, IndexedPath
  <2>2. S \subseteq T /\ PathNames \subseteq T
    OBVIOUS
  <2> HIDE DEF T, dot
  <2>3. Indexed(path) \in Seq(T) /\ dot \in Seq(T) /\ key \in Seq(T)
    BY <2>1, <2>2
  <2>4. a \in Seq(T)
    BY <2>3 DEF KeyIn, dot
  <2>5. error = ErrorAt(a, Unexpected)
    BY <1>3
  <2> HIDE DEF a
  <2> QED BY <2>4, <2>5, KeyIsOurs
<1>4. \/ error \in FaultErrors
      \/ error \in {ErrorAt(key, Unexpected) : key \in keys}
      \/ error \in {ErrorAt(KeyIn(p, key), Unexpected) : p \in ObjectPaths, key \in keys}
  BY DEF KeyErrors
<1>5. CASE error \in {ErrorAt(key, Unexpected) : key \in keys}
  BY <1>2, <1>5
<1>6. CASE error \in {ErrorAt(KeyIn(p, key), Unexpected) : p \in ObjectPaths, key \in keys}
  BY <1>3, <1>6
<1> QED BY <1>1, <1>4, <1>5, <1>6

---------------------------------------------------------------------------
(* Every message of a job is sound, for any limits, any identifiers, any    *)
(* texts and keys: it is as whole as its budget allows, has one block which *)
(* its text cannot leave, repeats nothing of an answer, and shows the rules *)
(* the gate decides by.                                                     *)
THEOREM MessagesAreSound == messageSpec => []MessageSound
<1>1. messageInit => MessageSound
  <2> SUFFICES ASSUME message \in Messages
               PROVE  MessageSound
    BY DEF messageInit, MessageSound
  <2>1. IsMessage(message)
    BY MessagesAssumption
  <2>2. CASE message.kind = "budget"
    <3>1. IsInput(message) /\ message.budget \in Nat
      BY <2>1, <2>2 DEF IsMessage
    <3>2. PromptFits(message, message.budget)
      BY <3>1, PromptsFit
    <3> QED BY <2>2, <3>2 DEF MessageSound
  <2>3. CASE message.kind = "fence"
    <3>1. message.text \in Seq(Tokens) /\ message.limit \in Nat
      BY <2>1, <2>3 DEF IsMessage
    <3>2. MessageIsOurs(message.text, message.limit)
      BY <3>1, MessagesAreOurs
    <3> QED BY <2>3, <3>2 DEF MessageSound
  <2>4. CASE message.kind = "repair"
    <3>1. message.error \in FaultErrors \cup KeyErrors(Keys)
      BY <2>1, <2>4 DEF IsMessage
    <3>2. Keys \in SUBSET Seq(Tokens)
      BY MessagesAssumption
    <3>3. RepairIsOurs(message.error)
      BY <3>1, <3>2, RepairsAreOurs
    <3> QED BY <2>4, <3>3 DEF MessageSound
  <2>5. CASE message.kind = "book"
    <3>1. IsBook(message.of)
      BY <2>1, <2>5 DEF IsMessage
    <3>2. RulebookSound(message.of)
      BY <3>1, RulebooksAreSound
    <3> QED BY <2>5, <3>2 DEF MessageSound
  <2>6. CASE message.kind = "grid"
    <3> DEFINE levels == 0 .. 16
               counts == {1, 9, 49, 50, 51, 1001}
    <3>1. \A rule \in message.of.rules : OnGrid(rule)
      BY <2>1, <2>6 DEF IsMessage
    <3>2. levels \in SUBSET Nat /\ counts \in SUBSET (Nat \ {0})
      OBVIOUS
    <3> HIDE DEF levels, counts
    <3>3. GridSuffices(message.of, levels, counts)
      BY <3>1, <3>2, GridIsEnough
    <3> QED BY <2>6, <3>3 DEF MessageSound, levels, counts
  <2> QED BY <2>1, <2>2, <2>3, <2>4, <2>5, <2>6 DEF IsMessage
<1>2. MessageSound /\ [UNCHANGED message]_message => MessageSound'
  <2> SUFFICES ASSUME MessageSound, message' = message
               PROVE  MessageSound'
    OBVIOUS
  <2> QED BY DEF MessageSound
<1> QED BY <1>1, <1>2, PTL DEF messageSpec
=============================================================================
