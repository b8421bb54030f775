------------------------ MODULE AlertLifecycleProofs ------------------------
(***************************************************************************)
(* The tables of AlertLifecycle keep their promises, for any alerts, keys, *)
(* correlation, workers, analysts and limits: counts, receipts, fan-out,   *)
(* cases, the review delta, the one absorbing head of a key, and the       *)
(* refinement of ClusterVerdicts.                                          *)
(***************************************************************************)
EXTENDS AlertLifecycle, FiniteSetTheorems, SequenceTheorems, TLAPS

Stored == {a \in Alerts : status[a] # "absent"}

(* A worker that has its snapshot has a transaction to have it in. *)
Manned ==
  /\ \A w \in looked : work[w] # NoAlert
  /\ \A w \in Workers : w \notin looked => cands[w] = {}

Types ==
  /\ TypeOK
  /\ Manned
  /\ IsFiniteSet(Stored)

(* What a row that is not there has: nothing. *)
Absent == \A a \in Alerts : status[a] = "absent" =>
  /\ dupOf[a] = NoAlert /\ occ[a] = 1 /\ seen[a] = 0 /\ caseOf[a] = NoAlert
  /\ a \notin closed /\ a \notin sealed /\ a \notin auto

(* Clusters are one level deep, and a duplicate is closed and sealed from  *)
(* its first moment.                                                       *)
Depth == \A d \in Alerts : dupOf[d] # NoAlert =>
  /\ dupOf[dupOf[d]] = NoAlert /\ status[dupOf[d]] # "absent"
  /\ d \in closed /\ d \in sealed

Counts == \A h \in Alerts : occ[h] = 1 + Cardinality(Duplicates(h))

(* What a person closed neither absorbs nor can be escalated. *)
Shut == \A a \in Alerts : status[a] \in HumanClosed => a \in closed /\ a \in sealed

AutoMarked == \A a \in Alerts : status[a] = "auto_closed" => a \in auto

Reviewed == \A h \in Alerts : seen[h] > 0 =>
  status[h] \in HumanClosed /\ occ[h] <= Tolerance + seen[h]

(* FanOutComplete, said of the duplicate. *)
FanOut == \A d \in Alerts : dupOf[d] # NoAlert =>
  status[d] = IF status[dupOf[d]] \in HumanClosed THEN status[dupOf[d]] ELSE "duplicate"

(* A case is named by one of its own heads, and has all heads that name it. *)
CaseRows ==
  /\ \A c \in Alerts : IF caseStatus[c] = "none" THEN caseAlerts[c] = {}
                       ELSE c \in caseAlerts[c]
  /\ \A c \in Alerts : \A h \in caseAlerts[c] :
       status[h] # "absent" /\ dupOf[h] = NoAlert
  /\ \A h \in Alerts : dupOf[h] = NoAlert /\ caseOf[h] # NoAlert => h \in caseAlerts[caseOf[h]]

Escalations == \A u \in Analysts :
  /\ todo[u] \in Seq(Stored)
  /\ done[u] \subseteq Stored
  /\ trigger[u] = NoAlert => todo[u] = <<>> /\ done[u] = {}
  /\ trigger[u] # NoAlert => \/ trigger[u] \in done[u]
                             \/ todo[u] # <<>> /\ Head(todo[u]) = trigger[u]

(* A person has taken up what a rule had closed. *)
TakenUp(a) == a \in auto /\ status[a] # "auto_closed"

(* The advisory lock, and what a snapshot under it still leaves out. *)
Locks ==
  /\ \A v, w \in looked : KeyOf[work[v]] = KeyOf[work[w]] => v = w
  /\ \A w \in Workers : \A h \in cands[w] : h \in Heads
  /\ \A w \in looked : \A h \in Alerts :
       Absorbs(h) /\ KeyOf[h] = KeyOf[work[w]] => h \in cands[w] \/ TakenUp(h)

IInv == /\ Types /\ Absent /\ Depth /\ Counts /\ ReceiptTellsTruth
        /\ Shut /\ AutoMarked /\ Reviewed /\ FanOut /\ CaseRows /\ CasesAgree
        /\ Escalations /\ Locks /\ OneAbsorbingHead

-----------------------------------------------------------------------------
(* The actions that write rows of alerts or cases, and what the others     *)
(* leave alone.                                                            *)
RowsKept == UNCHANGED <<status, dupOf, occ, closed, sealed, auto, caseOf, seen,
                        caseStatus, caseAlerts>>

LEMMA WhoWritesRows ==
  ASSUME [Next]_vars
  PROVE  \/ \E w \in Workers, h \in Alerts : Merge(w, h)
         \/ \E w \in Workers, auto_closed \in BOOLEAN : OpenHead(w, auto_closed)
         \/ \E a \in Alerts : Acknowledge(a)
         \/ \E a \in Alerts : Reopen(a)
         \/ \E h \in Alerts, decision \in Decisions : \E s \in 1 .. occ[h] : Decide(h, decision, s)
         \/ \E u \in Analysts : EscalateCommit(u)
         \/ \E c \in Alerts, conclusion \in Conclusions : Conclude(c, conclusion)
         \/ RowsKept
<1>1. CASE \E w \in Workers : Pipeline(w)
  <2> PICK w \in Workers : Pipeline(w)  BY <1>1
  <2>1. ASSUME NEW a \in Alerts, Begin(w, a) PROVE RowsKept
    BY <2>1 DEF Begin, RowsKept, rowVars, caseVars
  <2>2. ASSUME Look(w) PROVE RowsKept
    BY <2>2 DEF Look, RowsKept, rowVars, caseVars
  <2>3. ASSUME NEW h \in Alerts, Skip(w, h) PROVE RowsKept
    BY <2>3 DEF Skip, RowsKept, rowVars, caseVars
  <2>4. ASSUME NEW h \in Alerts, MergeRefused(w, h) PROVE RowsKept
    BY <2>4 DEF MergeRefused, RowsKept, rowVars, caseVars
  <2>5. ASSUME NEW h \in Alerts, RejectLate(w, h) PROVE RowsKept
    BY <2>5 DEF RejectLate, RowsKept, rowVars, caseVars
  <2>6. ASSUME OpenHeadRefused(w) PROVE RowsKept
    BY <2>6 DEF OpenHeadRefused, RowsKept, rowVars, caseVars
  <2>7. ASSUME WorkAborts(w) PROVE RowsKept
    BY <2>7 DEF WorkAborts, RowsKept, rowVars, caseVars
  <2> QED BY <2>1, <2>2, <2>3, <2>4, <2>5, <2>6, <2>7 DEF Pipeline
<1>2. CASE \E u \in Analysts : Escalate(u)
  <2> PICK u \in Analysts : Escalate(u)  BY <1>2
  <2>1. ASSUME NEW t \in Alerts, EscalateStart(u, t) PROVE RowsKept
    BY <2>1 DEF EscalateStart, RowsKept, rowVars, caseVars
  <2>2. ASSUME EscalateInsert(u) PROVE RowsKept
    BY <2>2 DEF EscalateInsert, RowsKept, rowVars, caseVars
  <2>3. ASSUME EscalateStale(u) \/ EscalateRaises(u) \/ EscalateAborts(u) PROVE RowsKept
    BY <2>3 DEF EscalateStale, EscalateRaises, EscalateAborts, RowsKept, rowVars, caseVars
  <2> QED BY <2>1, <2>2, <2>3 DEF Escalate
<1>3. ASSUME NEW h \in Alerts, Ageing(h) PROVE RowsKept
  BY <1>3 DEF Ageing, RowsKept, caseVars
<1>4. CASE UNCHANGED vars
  BY <1>4 DEF vars, RowsKept, rowVars, caseVars
<1> QED BY <1>1, <1>2, <1>3, <1>4 DEF Next, Analyst

-----------------------------------------------------------------------------
(* Types. *)
LEMMA InitTypes == Init => Types
<1> SUFFICES ASSUME Init PROVE Types
  OBVIOUS
<1>1. Stored = {}
  BY DEF Init, Stored
<1>2. IsFiniteSet(Stored)
  BY <1>1, FS_EmptySet
<1>3. todo \in [Analysts -> Seq(Alerts)]
  BY EmptySeq DEF Init
<1>4. MaxSize \in Nat /\ 1 \in 1 .. MaxSize /\ 0 \in 0 .. MaxSize
  BY CeilingAssumption
<1>5. TypeOK
  BY <1>3, <1>4, TableAssumption DEF Init, TypeOK, Statuses, Outcomes, Ages
<1>6. Manned
  BY DEF Init, Manned
<1> QED BY <1>2, <1>5, <1>6 DEF Types

(* What a step of a worker does to the sessions of the workers. *)
WorkTypes ==
  /\ precedes \in [Alerts -> SUBSET Workers]
  /\ work \in [Workers -> Alerts \cup {NoAlert}]
  /\ looked \subseteq Workers
  /\ cands \in [Workers -> SUBSET Alerts]
  /\ older \in [Workers -> SUBSET Workers]
  /\ Manned

LEMMA WorkEndsTyped ==
  ASSUME Types, NEW w \in Workers, WorkEnds(w)
  PROVE  /\ work' \in [Workers -> Alerts \cup {NoAlert}]
         /\ looked' \subseteq Workers
         /\ cands' \in [Workers -> SUBSET Alerts]
         /\ older' \in [Workers -> SUBSET Workers]
         /\ Manned'
<1>1. Manned'
  BY DEF Types, TypeOK, Manned, WorkEnds
<1> QED BY <1>1 DEF Types, TypeOK, WorkEnds

LEMMA ForgetTyped ==
  ASSUME Types, NEW w \in Workers PROVE Forget(w) \in [Alerts -> SUBSET Workers]
BY DEF Types, TypeOK, Forget

LEMMA WorkTyped == Types /\ [Next]_vars => WorkTypes'
<1> SUFFICES ASSUME Types, [Next]_vars PROVE WorkTypes'
  OBVIOUS
<1>0. WorkTypes
  BY DEF WorkTypes, Types, TypeOK
<1>1. ASSUME NEW w \in Workers, NEW a \in Alerts, Begin(w, a) PROVE WorkTypes'
  <2>1. Manned'
    BY <1>0, <1>1, TableAssumption DEF Begin, WorkTypes, Manned
  <2>2. Busy \subseteq Workers
    BY DEF Busy
  <2> QED BY <1>0, <1>1, <2>1, <2>2 DEF Begin, WorkTypes
<1>2. ASSUME NEW w \in Workers, Look(w) PROVE WorkTypes'
  <2>1. Manned'
    BY <1>0, <1>2 DEF Look, WorkTypes, Manned, Busy
  <2>2. {h \in Heads : KeyOf[h] = KeyOf[work[w]] /\ Absorbs(h)} \subseteq Alerts
    BY DEF Heads
  <2> QED BY <1>0, <1>2, <2>1, <2>2 DEF Look, WorkTypes, Busy
<1>3. ASSUME NEW w \in Workers, NEW h \in Alerts, Skip(w, h) PROVE WorkTypes'
  <2>1. Manned'
    BY <1>0, <1>3 DEF Skip, WorkTypes, Manned
  <2> QED BY <1>0, <1>3, <2>1 DEF Skip, WorkTypes
<1>4. ASSUME NEW w \in Workers, WorkEnds(w), precedes' = Forget(w) PROVE WorkTypes'
  BY <1>4, WorkEndsTyped, ForgetTyped DEF WorkTypes
<1>5. ASSUME NEW w \in Workers, NEW auto_closed \in BOOLEAN, OpenHead(w, auto_closed)
      PROVE WorkTypes'
  <2>1. precedes' = [Forget(w) EXCEPT ![work[w]] = older[w]] /\ WorkEnds(w)
    BY <1>5 DEF OpenHead
  <2>2. older[w] \in SUBSET Workers
    BY DEF Types, TypeOK
  <2>3. precedes' \in [Alerts -> SUBSET Workers]
    BY <2>1, <2>2, ForgetTyped
  <2> QED BY <2>1, <2>3, WorkEndsTyped DEF WorkTypes
<1>6. ASSUME UNCHANGED <<precedes, workVars>> PROVE WorkTypes'
  BY <1>0, <1>6 DEF workVars, WorkTypes, Manned
<1>7. ASSUME NEW w \in Workers, Pipeline(w) PROVE WorkTypes'
  <2>1. ASSUME NEW h \in Alerts, Merge(w, h) \/ MergeRefused(w, h) \/ RejectLate(w, h)
        PROVE  precedes' = Forget(w) /\ WorkEnds(w)
    BY <2>1 DEF Merge, Joins, MergeRefused, RejectLate
  <2>2. ASSUME OpenHeadRefused(w) \/ WorkAborts(w) PROVE precedes' = Forget(w) /\ WorkEnds(w)
    BY <2>2 DEF OpenHeadRefused, WorkAborts
  <2> QED BY <1>1, <1>2, <1>3, <1>4, <1>5, <1>7, <2>1, <2>2 DEF Pipeline
<1>8. ASSUME Analyst \/ (\E h \in Alerts : Ageing(h)) \/ UNCHANGED vars
      PROVE UNCHANGED <<precedes, workVars>>
  BY <1>8 DEF Analyst, Acknowledge, Reopen, Decide, Escalate, EscalateStart, EscalateInsert,
     EscalateCommit, EscalateStale, EscalateRaises, EscalateAborts, Conclude, Concludes, Ageing, vars
<1> QED BY <1>6, <1>7, <1>8 DEF Next

-----------------------------------------------------------------------------
(* The rows keep their types. *)
LEMMA Conclusive == \A c \in Conclusions : AlertStatusOf[c] \in HumanClosed
BY TableAssumption DEF AlertStatusOf, HumanClosed

LEMMA Decisive == Decisions \subseteq HumanClosed
BY TableAssumption DEF HumanClosed

RowTypes ==
  /\ status \in [Alerts -> Statuses]
  /\ dupOf \in [Alerts -> Alerts \cup {NoAlert}]
  /\ occ \in [Alerts -> 1..MaxSize]
  /\ {closed, sealed, auto, acked} \subseteq SUBSET Alerts
  /\ caseOf \in [Alerts -> Alerts \cup {NoAlert}]
  /\ caseStatus \in [Alerts -> {"none", "investigating"} \cup Conclusions]
  /\ caseAlerts \in [Alerts -> SUBSET Alerts]
  /\ age \in [Alerts -> Ages]
  /\ seen \in [Alerts -> 0..MaxSize]

(* What Merge and OpenHead find, unpacked. *)
LEMMA MergeFinds ==
  ASSUME Types, NEW w \in Workers, NEW h \in Alerts, Merge(w, h)
  PROVE  /\ work[w] \in Alerts /\ w \in looked
         /\ status[work[w]] = "absent" /\ status[h] # "absent" /\ dupOf[h] = NoAlert
         /\ h \notin closed \/ h \notin sealed
         /\ occ[h] < MaxSize
         /\ work[w] # h
BY DEF Types, TypeOK, Manned, Merge, Joins, Open, Heads

LEMMA OpenHeadFinds ==
  ASSUME Types, NEW w \in Workers, NEW auto_closed \in BOOLEAN, OpenHead(w, auto_closed)
  PROVE  work[w] \in Alerts /\ w \in looked /\ status[work[w]] = "absent"
BY DEF Types, TypeOK, Manned, OpenHead

LEMMA RowsTyped == Types /\ [Next]_vars => RowTypes'
<1> SUFFICES ASSUME Types, [Next]_vars PROVE RowTypes'
  OBVIOUS
<1>0. RowTypes
  BY DEF RowTypes, Types, TypeOK
<1>1. ASSUME NEW w \in Workers, NEW h \in Alerts, Merge(w, h) PROVE RowTypes'
  <2>1. occ[h] + 1 \in 1 .. MaxSize
    BY <1>0, <1>1, MergeFinds, CeilingAssumption DEF RowTypes
  <2>2. work[w] \in Alerts /\ Joins(w, h)
    BY <1>1, MergeFinds DEF Merge
  <2>3. occ' \in [Alerts -> 1 .. MaxSize]
    BY <1>0, <2>1, <2>2 DEF Joins, RowTypes
  <2>4. status' \in [Alerts -> Statuses] /\ dupOf' \in [Alerts -> Alerts \cup {NoAlert}]
    BY <1>0, <2>2 DEF Joins, RowTypes, Statuses
  <2>5. {closed, sealed, auto, acked}' \subseteq SUBSET Alerts
    BY <1>0, <2>2 DEF Joins, RowTypes
  <2> QED BY <1>0, <2>2, <2>3, <2>4, <2>5 DEF Joins, RowTypes, caseVars
<1>2. ASSUME NEW w \in Workers, NEW auto_closed \in BOOLEAN, OpenHead(w, auto_closed)
      PROVE RowTypes'
  BY <1>0, <1>2, OpenHeadFinds DEF OpenHead, RowTypes, Statuses, caseVars
<1>3. ASSUME NEW a \in Alerts, Acknowledge(a) PROVE RowTypes'
  BY <1>0, <1>3 DEF Acknowledge, RowTypes, Statuses, caseVars
<1>4. ASSUME NEW a \in Alerts, Reopen(a) PROVE RowTypes'
  BY <1>0, <1>4 DEF Reopen, RowTypes, Statuses, caseVars
<1>5. ASSUME NEW h \in Alerts, NEW decision \in Decisions, NEW s \in 1 .. occ[h],
             Decide(h, decision, s)
      PROVE RowTypes'
  <2>1. s \in 0 .. MaxSize /\ decision \in Statuses
    BY <1>0, Decisive, CeilingAssumption DEF RowTypes, Statuses
  <2>2. {h} \cup Duplicates(h) \subseteq Alerts
    BY DEF Duplicates
  <2> QED BY <1>0, <1>5, <2>1, <2>2 DEF Decide, RowTypes, caseVars
<1>6. ASSUME NEW u \in Analysts, EscalateCommit(u) PROVE RowTypes'
  <2>1. trigger[u] \in Alerts /\ done[u] \subseteq Alerts
    BY <1>6 DEF EscalateCommit, Inserted, Escalating, Types, TypeOK
  <2> QED BY <1>0, <1>6, <2>1 DEF EscalateCommit, RowTypes, Statuses
<1>7. ASSUME NEW c \in Alerts, NEW conclusion \in Conclusions, Conclude(c, conclusion)
      PROVE RowTypes'
  <2> DEFINE all == {h \in HeadsOf(c) : status[h] = "escalated_tier2"}
                      \cup UNION {Duplicates(h) : h \in HeadsOf(c)}
  <2>1. all \subseteq Alerts
    BY DEF HeadsOf, Heads, Duplicates
  <2>2. AlertStatusOf[conclusion] \in Statuses
    BY Conclusive DEF Statuses
  <2>3. Concludes(c, conclusion, all)
    BY <1>7 DEF Conclude
  <2> HIDE DEF all
  <2> QED BY <1>0, <2>1, <2>2, <2>3 DEF Concludes, RowTypes
<1>8. ASSUME RowsKept PROVE RowTypes'
  <2>1. \/ acked' = acked /\ (age' = age \/ \E h \in Alerts : Ageing(h))
        \/ (\E w \in Workers, h \in Alerts : Merge(w, h))
        \/ (\E w \in Workers, auto_closed \in BOOLEAN : OpenHead(w, auto_closed))
        \/ \E a \in Alerts : Acknowledge(a)
    <3>1. ASSUME NEW w \in Workers, Pipeline(w)
          PROVE  \/ acked' = acked /\ age' = age
                 \/ \E h \in Alerts : Merge(w, h)
                 \/ \E auto_closed \in BOOLEAN : OpenHead(w, auto_closed)
      BY <3>1 DEF Pipeline, Begin, Look, Skip, MergeRefused, RejectLate, OpenHeadRefused,
         WorkAborts, rowVars
    <3>2. ASSUME Analyst
          PROVE (acked' = acked /\ age' = age) \/ \E a \in Alerts : Acknowledge(a)
      BY <3>2 DEF Analyst, Reopen, Decide, Escalate, EscalateStart, EscalateInsert, EscalateCommit,
         EscalateStale, EscalateRaises, EscalateAborts, Conclude, Concludes, rowVars
    <3>3. ASSUME NEW h \in Alerts, Ageing(h) PROVE acked' = acked
      BY <3>3 DEF Ageing
    <3> QED BY <3>1, <3>2, <3>3 DEF Next, vars, rowVars
  <2>2. ASSUME NEW h \in Alerts, Ageing(h) PROVE age' \in [Alerts -> Ages]
    BY <1>0, <2>2 DEF Ageing, RowTypes, Ages
  <2>3. ASSUME acked' = acked, age' \in [Alerts -> Ages] PROVE RowTypes'
    BY <1>0, <1>8, <2>3 DEF RowsKept, RowTypes
  <2> QED BY <1>0, <1>1, <1>2, <1>3, <2>1, <2>2, <2>3 DEF RowTypes
<1> QED BY <1>1, <1>2, <1>3, <1>4, <1>5, <1>6, <1>7, <1>8, WhoWritesRows

(* A row never goes away, and at most one comes in a step. *)
LEMMA StoredStep ==
  ASSUME Types, Absent, Escalations, [Next]_vars
  PROVE  Stored \subseteq Stored' /\ IsFiniteSet(Stored')
<1> DEFINE Grows == \E a \in Alerts : Stored \subseteq Stored' /\ Stored' \subseteq Stored \cup {a}
<1>0. status \in [Alerts -> Statuses] /\ IsFiniteSet(Stored)
  BY DEF Types, TypeOK
<1>1. ASSUME NEW w \in Workers, NEW h \in Alerts, Merge(w, h) PROVE Grows
  BY <1>0, <1>1, MergeFinds DEF Merge, Joins, Stored
<1>2. ASSUME NEW w \in Workers, NEW auto_closed \in BOOLEAN, OpenHead(w, auto_closed)
      PROVE Grows
  BY <1>0, <1>2, OpenHeadFinds DEF OpenHead, Stored
<1>3. ASSUME NEW a \in Alerts, Acknowledge(a) \/ Reopen(a) PROVE Stored' = Stored
  BY <1>0, <1>3 DEF Acknowledge, Reopen, Stored
<1>4. \A h \in Alerts : Duplicates(h) \subseteq Stored
  BY TableAssumption DEF Duplicates, Stored, Absent
<1>5. ASSUME NEW h \in Alerts, NEW decision \in Decisions, NEW s \in 1 .. occ[h],
             Decide(h, decision, s)
      PROVE Stored' = Stored
  <2>1. {h} \cup Duplicates(h) \subseteq Stored
    BY <1>4, <1>5 DEF Decide, Stored
  <2>2. decision # "absent"
    BY Decisive DEF HumanClosed
  <2> QED BY <1>0, <1>5, <2>1, <2>2 DEF Decide, Stored
<1>6. ASSUME NEW u \in Analysts, EscalateCommit(u) PROVE Stored' = Stored
  BY <1>0, <1>6 DEF EscalateCommit, Stored, Escalations
<1>7. ASSUME NEW c \in Alerts, NEW conclusion \in Conclusions, Conclude(c, conclusion)
      PROVE Stored' = Stored
  <2> DEFINE all == {h \in HeadsOf(c) : status[h] = "escalated_tier2"}
                      \cup UNION {Duplicates(h) : h \in HeadsOf(c)}
  <2>1. all \subseteq Stored
    BY <1>4 DEF HeadsOf, Heads, Stored
  <2>2. AlertStatusOf[conclusion] # "absent"
    BY Conclusive DEF HumanClosed
  <2>3. Concludes(c, conclusion, all)
    BY <1>7 DEF Conclude
  <2> HIDE DEF all
  <2> QED BY <1>0, <2>1, <2>2, <2>3 DEF Concludes, Stored
<1>8. ASSUME RowsKept PROVE Stored' = Stored
  BY <1>8 DEF RowsKept, Stored
<1>9. Grows \/ Stored' = Stored
  BY <1>1, <1>2, <1>3, <1>5, <1>6, <1>7, <1>8, WhoWritesRows
<1>10. ASSUME NEW a \in Alerts, Stored' \subseteq Stored \cup {a} PROVE IsFiniteSet(Stored')
  BY <1>0, <1>10, FS_AddElement, FS_Subset
<1> HIDE DEF Stored
<1> QED BY <1>0, <1>9, <1>10

-----------------------------------------------------------------------------
(* The sessions of escalations. *)
EscTypes ==
  /\ todo \in [Analysts -> Seq(Alerts)]
  /\ done \in [Analysts -> SUBSET Alerts]
  /\ trigger \in [Analysts -> Alerts \cup {NoAlert}]

(* What an escalation starts with: the alert itself, then heads. *)
LEMMA Candidates ==
  ASSUME Types, NEW t \in Stored, NEW s \in SetToSeqs(Correlated(t)),
         NEW ids, ids = IF Len(<<t>> \o s) > MaxPerCase
                        THEN SubSeq(<<t>> \o s, 1, MaxPerCase) ELSE <<t>> \o s
  PROVE  ids \in Seq(Stored) /\ ids # <<>> /\ Head(ids) = t
<1>1. Correlated(t) \subseteq Stored
  BY DEF Correlated, Heads, Stored
<1>2. Cardinality(Correlated(t)) \in Nat
  BY <1>1, FS_Subset, FS_CardinalityType DEF Types
<1>3. s \in [1 .. Cardinality(Correlated(t)) -> Correlated(t)]
  BY DEF SetToSeqs
<1>4. s \in Seq(Stored)
  BY <1>1, <1>2, <1>3
<1> DEFINE all == <<t>> \o s
<1>5. <<t>> \in Seq(Stored) /\ Len(<<t>>) = 1 /\ <<t>>[1] = t
  OBVIOUS
<1>6. all \in Seq(Stored) /\ Len(all) = 1 + Len(s) /\ all[1] = t
  BY <1>4, <1>5, ConcatProperties, LenProperties
<1> HIDE DEF all
<1>7. CASE Len(all) > MaxPerCase
  <2>1. \A i \in 1 .. MaxPerCase : all[i] \in Stored
    BY <1>4, <1>6, <1>7, CeilingAssumption, ElementOfSeq, LenProperties
  <2>2. /\ SubSeq(all, 1, MaxPerCase) \in Seq(Stored)
        /\ Len(SubSeq(all, 1, MaxPerCase)) = MaxPerCase
        /\ SubSeq(all, 1, MaxPerCase)[1] = all[1]
    BY <2>1, CeilingAssumption, SubSeqProperties
  <2>3. ids = SubSeq(all, 1, MaxPerCase)
    BY <1>7 DEF all
  <2>4. ids \in Seq(Stored) /\ Len(ids) = MaxPerCase /\ ids[1] = t
    BY <1>6, <2>2, <2>3
  <2>5. ids # <<>>
    BY <2>4, CeilingAssumption, EmptySeq
  <2>6. Head(ids) = ids[1]
    BY ONLY <2>4, <2>5
  <2> QED BY <2>4, <2>5, <2>6
<1>8. CASE ~(Len(all) > MaxPerCase)
  BY <1>4, <1>6, <1>8, LenProperties, EmptySeq DEF all
<1> QED BY <1>7, <1>8

LEMMA EscalationStep ==
  ASSUME Types, Escalations, NEW u \in Analysts, Escalate(u)
  PROVE  /\ EscTypes'
         /\ \A v \in Analysts \ {u} : /\ todo'[v] = todo[v] /\ done'[v] = done[v]
                                      /\ trigger'[v] = trigger[v]
         /\ todo'[u] \in Seq(Stored) /\ done'[u] \subseteq Stored
         /\ trigger'[u] = NoAlert => todo'[u] = <<>> /\ done'[u] = {}
         /\ trigger'[u] # NoAlert => \/ trigger'[u] \in done'[u]
                                     \/ todo'[u] # <<>> /\ Head(todo'[u]) = trigger'[u]
<1>0. EscTypes /\ Stored \subseteq Alerts /\ <<>> \in Seq(Stored) /\ <<>> \in Seq(Alerts)
  BY EmptySeq DEF EscTypes, Types, TypeOK, Stored
<1>1. ASSUME NEW t \in Alerts, EscalateStart(u, t)
      PROVE  \E ids \in Seq(Stored) : /\ ids # <<>> /\ Head(ids) = t
                                      /\ todo' = [todo EXCEPT ![u] = ids]
  <2>1. t \in Stored
    BY <1>1 DEF EscalateStart, Stored
  <2>2. PICK s \in SetToSeqs(Correlated(t)) :
          todo' = [todo EXCEPT ![u] = IF Len(<<t>> \o s) > MaxPerCase
                                      THEN SubSeq(<<t>> \o s, 1, MaxPerCase) ELSE <<t>> \o s]
    BY <1>1 DEF EscalateStart
  <2> QED BY <2>1, <2>2, Candidates
<1>2. ASSUME NEW t \in Alerts, EscalateStart(u, t), NEW ids \in Seq(Stored),
             ids # <<>> /\ Head(ids) = t, todo' = [todo EXCEPT ![u] = ids]
      PROVE  /\ EscTypes'
             /\ todo'[u] = ids /\ trigger'[u] = t /\ done' = done
             /\ \A v \in Analysts \ {u} : todo'[v] = todo[v] /\ trigger'[v] = trigger[v]
  <2>1. ids \in Seq(Alerts)
    BY <1>0, SeqMonotonic
  <2> QED BY <1>0, <1>2, <2>1 DEF EscalateStart, EscTypes
<1>3. ASSUME NEW t \in Alerts, EscalateStart(u, t)
      PROVE  done[u] = {} /\ t # NoAlert
  BY <1>3, TableAssumption DEF EscalateStart, Escalations, Escalating
<1>4. CASE \E t \in Alerts : EscalateStart(u, t)
  BY <1>1, <1>2, <1>3, <1>4
<1>5. CASE EscalateInsert(u)
  <2>1. todo[u] \in Seq(Stored) /\ todo[u] # <<>>
    BY <1>5 DEF EscalateInsert, Escalations
  <2>2. Head(todo[u]) \in Stored /\ Tail(todo[u]) \in Seq(Stored)
    BY <2>1, HeadTailProperties
  <2>3. Tail(todo[u]) \in Seq(Alerts)
    BY <1>0, <2>2, SeqMonotonic
  <2>4. EscTypes'
    BY <1>0, <1>5, <2>2, <2>3 DEF EscalateInsert, EscTypes
  <2>5. /\ todo'[u] = Tail(todo[u]) /\ done'[u] = done[u] \cup {Head(todo[u])}
        /\ trigger' = trigger
        /\ \A v \in Analysts \ {u} : todo'[v] = todo[v] /\ done'[v] = done[v]
    BY <1>0, <1>5 DEF EscalateInsert, EscTypes
  <2> QED BY <2>1, <2>2, <2>4, <2>5 DEF Escalations
<1>6. CASE EscalateEnds(u)
  BY <1>0, <1>6 DEF EscalateEnds, EscTypes
<1> QED BY <1>4, <1>5, <1>6 DEF Escalate, EscalateCommit, EscalateStale, EscalateRaises,
           EscalateAborts

LEMMA EscalationsKept ==
  ASSUME Types, Absent, Escalations, [Next]_vars
  PROVE  EscTypes' /\ Escalations'
<1>1. Stored \subseteq Stored' /\ Stored' \subseteq Alerts
  BY StoredStep DEF Stored
<1>2. \A q : q \in Seq(Stored) => q \in Seq(Stored')
  BY <1>1, SeqMonotonic
<1> HIDE DEF Stored
<1>3. CASE \E u \in Analysts : Escalate(u)
  <2> PICK u \in Analysts : Escalate(u)  BY <1>3
  <2>1. EscTypes'
    BY EscalationStep
  <2>2. ASSUME NEW v \in Analysts
        PROVE  /\ todo'[v] \in Seq(Stored')
               /\ done'[v] \subseteq Stored'
               /\ trigger'[v] = NoAlert => todo'[v] = <<>> /\ done'[v] = {}
               /\ trigger'[v] # NoAlert => \/ trigger'[v] \in done'[v]
                                           \/ todo'[v] # <<>> /\ Head(todo'[v]) = trigger'[v]
    <3>1. CASE v = u
      BY <1>1, <1>2, <3>1, EscalationStep
    <3>2. CASE v # u
      BY <1>1, <1>2, <3>2, EscalationStep DEF Escalations
    <3> QED BY <3>1, <3>2
  <2> QED BY <2>1, <2>2 DEF Escalations
<1>4. CASE UNCHANGED escVars
  BY <1>1, <1>2, <1>4 DEF escVars, Escalations, EscTypes, Types, TypeOK
<1>5. ASSUME ~\E u \in Analysts : Escalate(u) PROVE UNCHANGED escVars
  <2>1. ASSUME NEW w \in Workers, Pipeline(w) PROVE UNCHANGED escVars
    BY <2>1 DEF Pipeline, Begin, Look, Skip, Merge, Joins, MergeRefused, RejectLate, OpenHead,
       OpenHeadRefused, WorkAborts, escVars
  <2> QED BY <1>5, <2>1 DEF Next, Analyst, Acknowledge, Reopen, Decide, Conclude, Concludes,
         Ageing, vars, escVars
<1> QED BY <1>3, <1>4, <1>5

LEMMA ReceiptTyped == Types /\ [Next]_vars => receipt' \in [Alerts -> Outcomes]
<1> SUFFICES ASSUME Types, [Next]_vars PROVE receipt' \in [Alerts -> Outcomes]
  OBVIOUS
<1>0. receipt \in [Alerts -> Outcomes]
  BY DEF Types, TypeOK
<1>1. ASSUME NEW w \in Workers, Pipeline(w) PROVE receipt' \in [Alerts -> Outcomes]
  <2>1. ASSUME NEW h \in Alerts, Merge(w, h) \/ RejectLate(w, h)
        PROVE receipt' \in [Alerts -> Outcomes]
    BY <1>0, <2>1 DEF Merge, Joins, RejectLate, Outcomes
  <2>2. ASSUME NEW auto_closed \in BOOLEAN, OpenHead(w, auto_closed)
        PROVE receipt' \in [Alerts -> Outcomes]
    BY <1>0, <2>2 DEF OpenHead, Outcomes
  <2> QED BY <1>0, <1>1, <2>1, <2>2 DEF Pipeline, Begin, Look, Skip, MergeRefused,
         OpenHeadRefused, WorkAborts
<1>2. ASSUME Analyst \/ (\E h \in Alerts : Ageing(h)) \/ UNCHANGED vars PROVE receipt' = receipt
  BY <1>2 DEF Analyst, Acknowledge, Reopen, Decide, Escalate, EscalateStart, EscalateInsert,
     EscalateCommit, EscalateStale, EscalateRaises, EscalateAborts, Conclude, Concludes, Ageing, vars
<1> QED BY <1>0, <1>1, <1>2 DEF Next

LEMMA TypesKept ==
  ASSUME Types, Absent, Escalations, [Next]_vars PROVE Types'
<1>1. WorkTypes' /\ RowTypes' /\ EscTypes' /\ IsFiniteSet(Stored')
  BY WorkTyped, RowsTyped, EscalationsKept, StoredStep
<1>2. receipt' \in [Alerts -> Outcomes]
  BY ReceiptTyped
<1>3. TypeOK'
  BY <1>1, <1>2 DEF WorkTypes, RowTypes, EscTypes, TypeOK
<1> QED BY <1>1, <1>3 DEF WorkTypes, Types

-----------------------------------------------------------------------------
(* Rows that are not there, and the depth of clusters. *)

(* What a merge writes, for each alert. *)
LEMMA MergeWrites ==
  ASSUME Types, NEW w \in Workers, NEW h \in Alerts, Merge(w, h), NEW b \in Alerts
  PROVE  LET a == work[w] IN
         /\ status'[b] = IF b = a THEN "duplicate" ELSE status[b]
         /\ dupOf'[b] = IF b = a THEN h ELSE dupOf[b]
         /\ occ'[b] = IF b = h THEN occ[b] + 1 ELSE occ[b]
         /\ closed' = closed \cup {a} /\ sealed' = sealed \cup {a}
         /\ receipt'[b] = IF b = a THEN "duplicate" ELSE receipt[b]
         /\ UNCHANGED <<auto, caseOf, caseStatus, caseAlerts, seen>>
<1>1. work[w] \in Alerts /\ Joins(w, h)
  BY MergeFinds DEF Merge
<1> QED BY <1>1 DEF Joins, Types, TypeOK, caseVars

LEMMA OpenHeadWrites ==
  ASSUME Types, NEW w \in Workers, NEW auto_closed \in BOOLEAN, OpenHead(w, auto_closed),
         NEW b \in Alerts
  PROVE  LET a == work[w] IN
         /\ status'[b] = IF b # a THEN status[b]
                         ELSE IF auto_closed THEN "auto_closed" ELSE "queued_tier1"
         /\ closed' = IF auto_closed THEN closed \cup {a} ELSE closed
         /\ auto' = IF auto_closed THEN auto \cup {a} ELSE auto
         /\ receipt'[b] = IF b # a THEN receipt[b]
                          ELSE IF auto_closed THEN "auto_closed" ELSE "alert"
         /\ UNCHANGED <<dupOf, occ, sealed, caseOf, caseStatus, caseAlerts, seen>>
BY OpenHeadFinds DEF OpenHead, Types, TypeOK, caseVars

(* What the analysts write. *)
LEMMA TakeUpWrites ==
  ASSUME Types, NEW a \in Alerts, Acknowledge(a) \/ Reopen(a), NEW b \in Alerts
  PROVE  /\ status[a] \in {"queued_tier1", "auto_closed"}
         /\ status'[b] = IF b # a THEN status[b]
                         ELSE IF status[a] = "queued_tier1" THEN "tier1_active" ELSE "queued_tier1"
         /\ closed' \subseteq closed /\ closed \subseteq closed' \cup {a}
         /\ UNCHANGED <<dupOf, occ, sealed, auto, caseOf, caseStatus, caseAlerts, seen>>
BY DEF Acknowledge, Reopen, Types, TypeOK, caseVars

LEMMA DecideWrites ==
  ASSUME Types, NEW h \in Alerts, NEW decision \in Decisions, NEW s \in 1 .. occ[h],
         Decide(h, decision, s), NEW b \in Alerts
  PROVE  /\ status[h] = "tier1_active" /\ decision \in HumanClosed
         /\ occ[h] - s <= Tolerance
         /\ status'[b] = IF b = h \/ dupOf[b] = h THEN decision ELSE status[b]
         /\ closed' = closed \cup {h} \cup Duplicates(h)
         /\ sealed' = sealed \cup {h} \cup Duplicates(h)
         /\ seen'[b] = IF b = h THEN s ELSE seen[b]
         /\ UNCHANGED <<dupOf, occ, auto, caseOf, caseStatus, caseAlerts>>
BY Decisive DEF Decide, Duplicates, Types, TypeOK, caseVars

LEMMA CommitWrites ==
  ASSUME Types, NEW u \in Analysts, EscalateCommit(u), NEW b \in Alerts
  PROVE  /\ trigger[u] \in Alerts /\ done[u] \subseteq Alerts /\ todo[u] = <<>>
         /\ \A h \in done[u] : caseOf[h] = NoAlert /\ h \notin sealed
         /\ status'[b] = IF b \in done[u] THEN "escalated_tier2" ELSE status[b]
         /\ caseOf'[b] = IF b \in done[u] \/ dupOf[b] \in done[u] THEN trigger[u] ELSE caseOf[b]
         /\ caseStatus'[b] = IF b = trigger[u] THEN "investigating" ELSE caseStatus[b]
         /\ caseAlerts'[b] = IF b = trigger[u] THEN done[u] ELSE caseAlerts[b]
         /\ UNCHANGED <<dupOf, occ, closed, sealed, auto, seen>>
<1>1. trigger[u] \in Alerts /\ done[u] \subseteq Alerts
  BY DEF EscalateCommit, Inserted, Escalating, Types, TypeOK
<1>2. b \in UNION {Duplicates(h) : h \in done[u]} <=> dupOf[b] \in done[u]
  BY <1>1 DEF Duplicates
<1> QED BY <1>1, <1>2 DEF EscalateCommit, Inserted, AllTouched, RefusedByH3, Types, TypeOK

LEMMA ConcludeWrites ==
  ASSUME Types, NEW c \in Alerts, NEW conclusion \in Conclusions, Conclude(c, conclusion),
         NEW b \in Alerts
  PROVE  LET falls == \/ b \in HeadsOf(c) /\ status[b] = "escalated_tier2"
                      \/ dupOf[b] \in HeadsOf(c)
         IN
         /\ caseStatus[c] = "investigating"
         /\ caseStatus'[b] = IF b = c THEN conclusion ELSE caseStatus[b]
         /\ status'[b] = IF falls THEN AlertStatusOf[conclusion] ELSE status[b]
         /\ b \in closed' <=> b \in closed \/ falls
         /\ b \in sealed' <=> b \in sealed \/ falls
         /\ AlertStatusOf[conclusion] \in HumanClosed
         /\ UNCHANGED <<dupOf, occ, auto, caseOf, caseAlerts, seen>>
<1> DEFINE all == {h \in HeadsOf(c) : status[h] = "escalated_tier2"}
                    \cup UNION {Duplicates(h) : h \in HeadsOf(c)}
<1>1. b \in all <=> \/ b \in HeadsOf(c) /\ status[b] = "escalated_tier2"
                    \/ dupOf[b] \in HeadsOf(c)
  BY DEF Duplicates
<1>2. caseStatus[c] = "investigating" /\ Concludes(c, conclusion, all)
  BY DEF Conclude
<1> HIDE DEF all
<1> QED BY <1>1, <1>2, Conclusive DEF Concludes, Types, TypeOK

(* Each part of the invariant but the last two survives every step. *)
LEMMA AbsentKept == IInv /\ [Next]_vars => Absent'
<1> DEFINE Nothing(b) == /\ dupOf[b] = NoAlert /\ occ[b] = 1 /\ seen[b] = 0 /\ caseOf[b] = NoAlert
                         /\ b \notin closed /\ b \notin sealed /\ b \notin auto
<1> SUFFICES ASSUME IInv, [Next]_vars, NEW b \in Alerts, status'[b] = "absent"
             PROVE  Nothing(b)'
  BY DEF Absent
<1>0. /\ Types /\ status[b] = "absent" /\ Nothing(b) /\ NoAlert \notin Alerts
      /\ \A u \in Analysts : done[u] \subseteq Stored
  BY StoredStep, TableAssumption DEF IInv, Stored, Absent, Escalations
<1>1. ASSUME NEW w \in Workers, NEW h \in Alerts, Merge(w, h) PROVE Nothing(b)'
  BY <1>0, <1>1, MergeWrites, MergeFinds
<1>2. ASSUME NEW w \in Workers, NEW auto_closed \in BOOLEAN, OpenHead(w, auto_closed)
      PROVE Nothing(b)'
  BY <1>0, <1>2, OpenHeadWrites, OpenHeadFinds
<1>3. ASSUME NEW a \in Alerts, Acknowledge(a) \/ Reopen(a) PROVE Nothing(b)'
  BY <1>0, <1>3, TakeUpWrites
<1>4. ASSUME NEW h \in Alerts, NEW decision \in Decisions, NEW s \in 1 .. occ[h],
             Decide(h, decision, s)
      PROVE Nothing(b)'
  BY <1>0, <1>4, DecideWrites DEF Duplicates
<1>5. ASSUME NEW u \in Analysts, EscalateCommit(u) PROVE Nothing(b)'
  BY <1>0, <1>5, CommitWrites DEF Stored
<1>6. ASSUME NEW c \in Alerts, NEW conclusion \in Conclusions, Conclude(c, conclusion)
      PROVE Nothing(b)'
  BY <1>0, <1>6, ConcludeWrites DEF HeadsOf, Heads
<1>7. ASSUME RowsKept PROVE Nothing(b)'
  BY <1>0, <1>7 DEF RowsKept
<1> QED BY <1>1, <1>2, <1>3, <1>4, <1>5, <1>6, <1>7, WhoWritesRows

LEMMA DepthKept == IInv /\ [Next]_vars => Depth'
<1> DEFINE Beneath(d) == /\ dupOf[dupOf[d]] = NoAlert /\ status[dupOf[d]] # "absent"
                         /\ d \in closed /\ d \in sealed
<1> SUFFICES ASSUME IInv, [Next]_vars, NEW d \in Alerts, dupOf'[d] # NoAlert
             PROVE  Beneath(d)'
  BY DEF Depth
<1>0. /\ Types /\ dupOf[d] \in Alerts \cup {NoAlert}
      /\ Stored \subseteq Stored'
      /\ dupOf[d] # NoAlert => Beneath(d) /\ status[d] \in HumanClosed \cup {"duplicate"}
  BY StoredStep DEF IInv, Types, TypeOK, Depth, FanOut
<1>1. ASSUME NEW w \in Workers, NEW h \in Alerts, Merge(w, h) PROVE Beneath(d)'
  BY <1>0, <1>1, MergeWrites, MergeFinds DEF Stored
<1>2. ASSUME NEW w \in Workers, NEW auto_closed \in BOOLEAN, OpenHead(w, auto_closed)
      PROVE Beneath(d)'
  BY <1>0, <1>2, OpenHeadWrites, OpenHeadFinds DEF Stored
<1>3. ASSUME NEW a \in Alerts, Acknowledge(a) \/ Reopen(a) PROVE Beneath(d)'
  BY <1>0, <1>3, TakeUpWrites DEF Stored, HumanClosed
<1>4. ASSUME NEW h \in Alerts, NEW decision \in Decisions, NEW s \in 1 .. occ[h],
             Decide(h, decision, s)
      PROVE Beneath(d)'
  BY <1>0, <1>4, DecideWrites DEF Stored
<1>5. ASSUME NEW u \in Analysts, EscalateCommit(u) PROVE Beneath(d)'
  BY <1>0, <1>5, CommitWrites DEF Stored
<1>6. ASSUME NEW c \in Alerts, NEW conclusion \in Conclusions, Conclude(c, conclusion)
      PROVE Beneath(d)'
  BY <1>0, <1>6, ConcludeWrites DEF Stored
<1>7. ASSUME RowsKept PROVE Beneath(d)'
  BY <1>0, <1>7 DEF RowsKept
<1> QED BY <1>1, <1>2, <1>3, <1>4, <1>5, <1>6, <1>7, WhoWritesRows

LEMMA ShutKept == IInv /\ [Next]_vars => Shut'
<1> SUFFICES ASSUME IInv, [Next]_vars, NEW a \in Alerts, status'[a] \in HumanClosed
             PROVE  a \in closed' /\ a \in sealed'
  BY DEF Shut
<1>0. Types /\ (status[a] \in HumanClosed => a \in closed /\ a \in sealed)
  BY DEF IInv, Shut
<1>1. ASSUME NEW w \in Workers, NEW h \in Alerts, Merge(w, h)
      PROVE a \in closed' /\ a \in sealed'
  BY <1>0, <1>1, MergeWrites, MergeFinds DEF HumanClosed
<1>2. ASSUME NEW w \in Workers, NEW auto_closed \in BOOLEAN, OpenHead(w, auto_closed)
      PROVE a \in closed' /\ a \in sealed'
  BY <1>0, <1>2, OpenHeadWrites, OpenHeadFinds DEF HumanClosed
<1>3. ASSUME NEW t \in Alerts, Acknowledge(t) \/ Reopen(t) PROVE a \in closed' /\ a \in sealed'
  BY <1>0, <1>3, TakeUpWrites DEF HumanClosed
<1>4. ASSUME NEW h \in Alerts, NEW decision \in Decisions, NEW s \in 1 .. occ[h],
             Decide(h, decision, s)
      PROVE a \in closed' /\ a \in sealed'
  BY <1>0, <1>4, DecideWrites DEF Duplicates
<1>5. ASSUME NEW u \in Analysts, EscalateCommit(u) PROVE a \in closed' /\ a \in sealed'
  BY <1>0, <1>5, CommitWrites DEF HumanClosed
<1>6. ASSUME NEW c \in Alerts, NEW conclusion \in Conclusions, Conclude(c, conclusion)
      PROVE a \in closed' /\ a \in sealed'
  BY <1>0, <1>6, ConcludeWrites
<1>7. ASSUME RowsKept PROVE a \in closed' /\ a \in sealed'
  BY <1>0, <1>7 DEF RowsKept
<1> QED BY <1>1, <1>2, <1>3, <1>4, <1>5, <1>6, <1>7, WhoWritesRows

LEMMA AutoMarkedKept == IInv /\ [Next]_vars => AutoMarked'
<1> SUFFICES ASSUME IInv, [Next]_vars, NEW a \in Alerts, status'[a] = "auto_closed"
             PROVE  a \in auto'
  BY DEF AutoMarked
<1>0. Types /\ (status[a] = "auto_closed" => a \in auto)
  BY DEF IInv, AutoMarked
<1>1. ASSUME NEW w \in Workers, NEW h \in Alerts, Merge(w, h) PROVE a \in auto'
  BY <1>0, <1>1, MergeWrites, MergeFinds
<1>2. ASSUME NEW w \in Workers, NEW auto_closed \in BOOLEAN, OpenHead(w, auto_closed)
      PROVE a \in auto'
  BY <1>0, <1>2, OpenHeadWrites, OpenHeadFinds
<1>3. ASSUME NEW t \in Alerts, Acknowledge(t) \/ Reopen(t) PROVE a \in auto'
  BY <1>0, <1>3, TakeUpWrites
<1>4. ASSUME NEW h \in Alerts, NEW decision \in Decisions, NEW s \in 1 .. occ[h],
             Decide(h, decision, s)
      PROVE a \in auto'
  BY <1>0, <1>4, DecideWrites DEF HumanClosed
<1>5. ASSUME NEW u \in Analysts, EscalateCommit(u) PROVE a \in auto'
  BY <1>0, <1>5, CommitWrites
<1>6. ASSUME NEW c \in Alerts, NEW conclusion \in Conclusions, Conclude(c, conclusion)
      PROVE a \in auto'
  BY <1>0, <1>6, ConcludeWrites DEF HumanClosed
<1>7. ASSUME RowsKept PROVE a \in auto'
  BY <1>0, <1>7 DEF RowsKept
<1> QED BY <1>1, <1>2, <1>3, <1>4, <1>5, <1>6, <1>7, WhoWritesRows

LEMMA FewDuplicates ==
  ASSUME IInv, NEW h \in Alerts
  PROVE  IsFiniteSet(Duplicates(h)) /\ Cardinality(Duplicates(h)) \in Nat
<1>1. Duplicates(h) \subseteq Stored
  BY TableAssumption DEF IInv, Absent, Stored, Duplicates
<1>2. IsFiniteSet(Duplicates(h))
  BY <1>1, FS_Subset DEF IInv, Types
<1> QED BY <1>2, FS_CardinalityType

LEMMA CountsKept == IInv /\ [Next]_vars => Counts'
<1> SUFFICES ASSUME IInv, [Next]_vars, NEW g \in Alerts
             PROVE  occ'[g] = 1 + Cardinality(Duplicates(g)')
  BY DEF Counts
<1>0. /\ Types /\ occ[g] = 1 + Cardinality(Duplicates(g))
      /\ IsFiniteSet(Duplicates(g)) /\ Cardinality(Duplicates(g)) \in Nat
  BY FewDuplicates DEF IInv, Counts
<1>1. ASSUME NEW w \in Workers, NEW h \in Alerts, Merge(w, h)
      PROVE  occ'[g] = 1 + Cardinality(Duplicates(g)')
  <2>1. work[w] \in Alerts /\ dupOf[work[w]] = NoAlert
    BY <1>0, <1>1, MergeFinds DEF IInv, Absent
  <2>2. CASE g # h
    <3>1. Duplicates(g)' = Duplicates(g)
      BY <1>0, <1>1, <2>1, <2>2, MergeWrites, TableAssumption DEF Duplicates
    <3> QED BY <1>0, <1>1, <2>2, <3>1, MergeWrites
  <2>3. CASE g = h
    <3>1. Duplicates(g)' = Duplicates(g) \cup {work[w]} /\ work[w] \notin Duplicates(g)
      BY <1>0, <1>1, <2>1, <2>3, MergeWrites, TableAssumption DEF Duplicates
    <3>2. Cardinality(Duplicates(g)') = Cardinality(Duplicates(g)) + 1
      BY <1>0, <3>1, FS_AddElement
    <3>3. occ'[g] = occ[g] + 1
      BY <1>0, <1>1, <2>3, MergeWrites
    <3> QED BY <1>0, <3>2, <3>3
  <2> QED BY <2>2, <2>3
<1>2. ASSUME UNCHANGED <<dupOf, occ>> PROVE occ'[g] = 1 + Cardinality(Duplicates(g)')
  BY <1>0, <1>2 DEF Duplicates
<1>3. ASSUME ~\E w \in Workers, h \in Alerts : Merge(w, h) PROVE UNCHANGED <<dupOf, occ>>
  BY <1>0, <1>3, WhoWritesRows DEF OpenHead, Acknowledge, Reopen, Decide, EscalateCommit, Conclude,
     Concludes, RowsKept
<1> QED BY <1>1, <1>2, <1>3

LEMMA ReviewedKept == IInv /\ [Next]_vars => Reviewed'
<1> DEFINE Within(h) == status[h] \in HumanClosed /\ occ[h] <= Tolerance + seen[h]
<1> SUFFICES ASSUME IInv, [Next]_vars, NEW g \in Alerts, seen'[g] > 0
             PROVE  Within(g)'
  BY DEF Reviewed
<1>0. /\ Types /\ occ[g] \in Nat /\ seen[g] \in Nat /\ Tolerance \in Nat
      /\ seen[g] > 0 => Within(g) /\ g \in closed /\ g \in sealed
      /\ status[g] = "absent" => seen[g] = 0
      /\ \A u \in Analysts : \A h \in done[u] : h \in Alerts
      /\ dupOf[g] # NoAlert /\ status[g] \in HumanClosed => status[dupOf[g]] = status[g]
  BY CeilingAssumption DEF IInv, Types, TypeOK, Reviewed, Shut, Absent, FanOut, HumanClosed
<1>1. ASSUME NEW w \in Workers, NEW h \in Alerts, Merge(w, h) PROVE Within(g)'
  BY <1>0, <1>1, MergeWrites, MergeFinds
<1>2. ASSUME NEW w \in Workers, NEW auto_closed \in BOOLEAN, OpenHead(w, auto_closed)
      PROVE Within(g)'
  BY <1>0, <1>2, OpenHeadWrites, OpenHeadFinds
<1>3. ASSUME NEW t \in Alerts, Acknowledge(t) \/ Reopen(t) PROVE Within(g)'
  BY <1>0, <1>3, TakeUpWrites DEF HumanClosed
<1>4. ASSUME NEW h \in Alerts, NEW decision \in Decisions, NEW s \in 1 .. occ[h],
             Decide(h, decision, s)
      PROVE Within(g)'
  BY <1>0, <1>4, DecideWrites
<1>5. ASSUME NEW u \in Analysts, EscalateCommit(u) PROVE Within(g)'
  BY <1>0, <1>5, CommitWrites
<1>6. ASSUME NEW c \in Alerts, NEW conclusion \in Conclusions, Conclude(c, conclusion)
      PROVE Within(g)'
  BY <1>0, <1>6, ConcludeWrites
<1>7. ASSUME RowsKept PROVE Within(g)'
  BY <1>0, <1>7 DEF RowsKept
<1> QED BY <1>1, <1>2, <1>3, <1>4, <1>5, <1>6, <1>7, WhoWritesRows

(* The heads of a case under investigation are all escalated. *)
LEMMA HeadsEscalated ==
  ASSUME IInv, NEW c \in Alerts, caseStatus[c] = "investigating", NEW h \in HeadsOf(c)
  PROVE  h \in Alerts /\ dupOf[h] = NoAlert /\ status[h] = "escalated_tier2"
<1>1. h \in Alerts /\ dupOf[h] = NoAlert /\ caseOf[h] = c
  BY DEF HeadsOf, Heads
<1>2. h \in caseAlerts[c]
  BY <1>1, TableAssumption DEF IInv, CaseRows
<1> QED BY <1>1, <1>2 DEF IInv, CasesAgree

LEMMA FanOutKept == IInv /\ [Next]_vars => FanOut'
<1> DEFINE Follows(d) == status[d] = IF status[dupOf[d]] \in HumanClosed
                                     THEN status[dupOf[d]] ELSE "duplicate"
<1> SUFFICES ASSUME IInv, [Next]_vars, NEW d \in Alerts, dupOf'[d] # NoAlert
             PROVE  Follows(d)'
  BY DEF FanOut
<1>0. /\ Types /\ dupOf[d] \in Alerts \cup {NoAlert}
      /\ \A h \in Alerts : status[h] \in HumanClosed => h \in closed /\ h \in sealed
      /\ status[d] = "absent" => dupOf[d] = NoAlert
      /\ dupOf[d] # NoAlert => /\ Follows(d) /\ d \in sealed
                               /\ dupOf[dupOf[d]] = NoAlert /\ status[dupOf[d]] # "absent"
  BY DEF IInv, Types, TypeOK, FanOut, Shut, Depth, Absent
<1>1. ASSUME NEW w \in Workers, NEW h \in Alerts, Merge(w, h) PROVE Follows(d)'
  BY <1>0, <1>1, MergeWrites, MergeFinds
<1>2. ASSUME NEW w \in Workers, NEW auto_closed \in BOOLEAN, OpenHead(w, auto_closed)
      PROVE Follows(d)'
  BY <1>0, <1>2, OpenHeadWrites, OpenHeadFinds DEF HumanClosed
<1>3. ASSUME NEW t \in Alerts, Acknowledge(t) \/ Reopen(t) PROVE Follows(d)'
  BY <1>0, <1>3, TakeUpWrites DEF HumanClosed
<1>4. ASSUME NEW h \in Alerts, NEW decision \in Decisions, NEW s \in 1 .. occ[h],
             Decide(h, decision, s)
      PROVE Follows(d)'
  BY <1>0, <1>4, DecideWrites, TableAssumption DEF HumanClosed
<1>5. ASSUME NEW u \in Analysts, EscalateCommit(u) PROVE Follows(d)'
  BY <1>0, <1>5, CommitWrites DEF HumanClosed
<1>6. ASSUME NEW c \in Alerts, NEW conclusion \in Conclusions, Conclude(c, conclusion)
      PROVE Follows(d)'
  <2>1. \A h \in HeadsOf(c) : h \in Alerts /\ dupOf[h] = NoAlert /\ status[h] = "escalated_tier2"
    BY <1>6, HeadsEscalated DEF Conclude
  <2>2. dupOf[d] # NoAlert /\ dupOf[d] \in Alerts
    BY <1>0, <1>6, ConcludeWrites
  <2>3. d \notin HeadsOf(c) /\ dupOf[dupOf[d]] \notin HeadsOf(c)
    BY <1>0, <2>1, <2>2, TableAssumption
  <2> QED BY <1>0, <1>6, <2>1, <2>2, <2>3, ConcludeWrites
<1>7. ASSUME RowsKept PROVE Follows(d)'
  BY <1>0, <1>7 DEF RowsKept
<1> QED BY <1>1, <1>2, <1>3, <1>4, <1>5, <1>6, <1>7, WhoWritesRows

LEMMA ReceiptsKept == IInv /\ [Next]_vars => ReceiptTellsTruth'
<1> DEFINE Truth(a) == receipt[a] = IF status[a] = "absent" THEN
                                      IF receipt[a] = "rejected" THEN "rejected" ELSE "none"
                                    ELSE IF dupOf[a] # NoAlert THEN "duplicate"
                                    ELSE IF a \in auto THEN "auto_closed" ELSE "alert"
<1> SUFFICES ASSUME IInv, [Next]_vars, NEW a \in Alerts PROVE Truth(a)'
  BY DEF ReceiptTellsTruth
<1>0. /\ Types /\ Truth(a) /\ NoAlert \notin Alerts
      /\ status[a] = "absent" => dupOf[a] = NoAlert /\ a \notin auto
      /\ \A u \in Analysts : \A h \in done[u] : h \in Alerts /\ status[h] # "absent"
  BY TableAssumption DEF IInv, ReceiptTellsTruth, Absent, Escalations, Stored
<1>1. ASSUME NEW w \in Workers, NEW h \in Alerts, Merge(w, h) PROVE Truth(a)'
  BY <1>0, <1>1, MergeWrites, MergeFinds
<1>2. ASSUME NEW w \in Workers, NEW auto_closed \in BOOLEAN, OpenHead(w, auto_closed)
      PROVE Truth(a)'
  BY <1>0, <1>2, OpenHeadWrites, OpenHeadFinds
<1>3. ASSUME NEW w \in Workers, NEW h \in Alerts, RejectLate(w, h) PROVE Truth(a)'
  <2>1. UNCHANGED <<status, dupOf, auto>>
    BY <1>3 DEF RejectLate, rowVars
  <2>2. receipt'[a] = receipt[a] \/ (receipt[a] = "none" /\ receipt'[a] = "rejected")
    <3>1. receipt' = [receipt EXCEPT ![work[w]] = IF receipt[work[w]] = "none" THEN "rejected"
                                                  ELSE receipt[work[w]]]
      BY <1>3 DEF RejectLate
    <3>2. receipt \in [Alerts -> Outcomes]
      BY <1>0 DEF Types, TypeOK
    <3> QED BY <3>1, <3>2
  <2> QED BY <1>0, <2>1, <2>2
<1>4. ASSUME Analyst PROVE Truth(a)'
  <2>1. UNCHANGED <<receipt, dupOf, auto>>
    BY <1>4 DEF Analyst, Acknowledge, Reopen, Decide, Escalate, EscalateStart, EscalateInsert,
       EscalateCommit, EscalateStale, EscalateRaises, EscalateAborts, Conclude, Concludes, rowVars
  <2>2. status'[a] = "absent" <=> status[a] = "absent"
    <3>1. ASSUME NEW t \in Alerts, Acknowledge(t) \/ Reopen(t)
          PROVE status'[a] = "absent" <=> status[a] = "absent"
      BY <1>0, <3>1, TakeUpWrites
    <3>2. ASSUME NEW h \in Alerts, NEW decision \in Decisions, NEW s \in 1 .. occ[h],
                 Decide(h, decision, s)
          PROVE status'[a] = "absent" <=> status[a] = "absent"
      BY <1>0, <3>2, DecideWrites DEF HumanClosed
    <3>3. ASSUME NEW u \in Analysts, EscalateCommit(u)
          PROVE status'[a] = "absent" <=> status[a] = "absent"
      BY <1>0, <3>3, CommitWrites
    <3>4. ASSUME NEW c \in Alerts, NEW conclusion \in Conclusions, Conclude(c, conclusion)
          PROVE status'[a] = "absent" <=> status[a] = "absent"
      BY <1>0, <3>4, ConcludeWrites DEF HumanClosed, HeadsOf, Heads
    <3>5. ASSUME NEW u \in Analysts, Escalate(u), ~EscalateCommit(u) PROVE status' = status
      BY <3>5 DEF Escalate, EscalateStart, EscalateInsert, EscalateStale, EscalateRaises,
         EscalateAborts, rowVars
    <3> QED BY <1>4, <3>1, <3>2, <3>3, <3>4, <3>5 DEF Analyst
  <2> QED BY <1>0, <2>1, <2>2
<1>5. ASSUME UNCHANGED <<receipt, status, dupOf, auto>> PROVE Truth(a)'
  BY <1>0, <1>5
<1>6. ASSUME NEW w \in Workers, Pipeline(w),
             ~\E h \in Alerts : Merge(w, h) \/ RejectLate(w, h),
             ~\E auto_closed \in BOOLEAN : OpenHead(w, auto_closed)
      PROVE  UNCHANGED <<receipt, status, dupOf, auto>>
  BY <1>6 DEF Pipeline, Begin, Look, Skip, MergeRefused, OpenHeadRefused, WorkAborts, rowVars
<1>7. ASSUME (\E h \in Alerts : Ageing(h)) \/ UNCHANGED vars
      PROVE  UNCHANGED <<receipt, status, dupOf, auto>>
  BY <1>7 DEF Ageing, vars, rowVars
<1> QED BY <1>1, <1>2, <1>3, <1>4, <1>5, <1>6, <1>7 DEF Next

(* The case an escalation opens is new, and the heads it takes are open. *)
LEMMA CommitFinds ==
  ASSUME IInv, NEW u \in Analysts, EscalateCommit(u)
  PROVE  /\ trigger[u] \in done[u]
         /\ caseStatus[trigger[u]] = "none" /\ caseAlerts[trigger[u]] = {}
         /\ NoAlert \notin done[u]
         /\ \A h \in done[u] : /\ h \in Alerts /\ dupOf[h] = NoAlert /\ caseOf[h] = NoAlert
                               /\ status[h] # "absent" /\ status[h] \notin HumanClosed
<1>1. /\ trigger[u] \in Alerts /\ done[u] \subseteq Alerts /\ todo[u] = <<>>
      /\ \A h \in done[u] : caseOf[h] = NoAlert /\ h \notin sealed
  <2>1. Types  BY DEF IInv
  <2>2. trigger[u] \in Alerts  BY <2>1 DEF EscalateCommit, Inserted, Escalating, Types, TypeOK
  <2> QED BY <2>1, <2>2, CommitWrites
<1>2. trigger[u] \in done[u]
  BY <1>1, TableAssumption DEF IInv, Escalations
<1>3. caseStatus[trigger[u]] = "none"
  BY <1>1, <1>2, TableAssumption DEF IInv, CaseRows, CasesAgree
<1>4. caseAlerts[trigger[u]] = {}
  BY <1>1, <1>3 DEF IInv, CaseRows
<1>5. \A h \in done[u] : dupOf[h] = NoAlert /\ status[h] # "absent" /\ status[h] \notin HumanClosed
  BY <1>1 DEF IInv, Depth, Shut, Escalations, Stored
<1> QED BY <1>1, <1>2, <1>3, <1>4, <1>5, TableAssumption

LEMMA CaseRowsKept == IInv /\ [Next]_vars => CaseRows'
<1> DEFINE Named(c) == IF caseStatus[c] = "none" THEN caseAlerts[c] = {} ELSE c \in caseAlerts[c]
           Whole(h, c) == h \in caseAlerts[c] => status[h] # "absent" /\ dupOf[h] = NoAlert
           Has(h) == dupOf[h] = NoAlert /\ caseOf[h] # NoAlert => h \in caseAlerts[caseOf[h]]
<1> SUFFICES ASSUME IInv, [Next]_vars PROVE CaseRows'
  OBVIOUS
<1> SUFFICES ASSUME NEW c \in Alerts, NEW h \in Alerts
             PROVE  Named(c)' /\ Whole(h, c)' /\ Has(h)'
  <2>1. caseAlerts' \in [Alerts -> SUBSET Alerts]
    BY RowsTyped DEF IInv, RowTypes
  <2> QED BY <2>1 DEF CaseRows
<1>0. /\ Types /\ Named(c) /\ Whole(h, c) /\ Has(h) /\ NoAlert \notin Alerts
      /\ caseOf[h] \in Alerts \cup {NoAlert}
      /\ status[h] = "absent" => caseOf[h] = NoAlert
      /\ Stored \subseteq Stored'
  BY StoredStep, TableAssumption DEF IInv, CaseRows, Absent, Types, TypeOK
<1>1. ASSUME NEW w \in Workers, NEW g \in Alerts, Merge(w, g)
      PROVE Named(c)' /\ Whole(h, c)' /\ Has(h)'
  BY <1>0, <1>1, MergeWrites, MergeFinds
<1>2. ASSUME UNCHANGED <<dupOf, caseOf, caseAlerts>>, caseStatus'[c] = "none" <=> caseStatus[c] = "none"
      PROVE Named(c)' /\ Whole(h, c)' /\ Has(h)'
  BY <1>0, <1>2 DEF Stored
<1>3. ASSUME NEW u \in Analysts, EscalateCommit(u) PROVE Named(c)' /\ Whole(h, c)' /\ Has(h)'
  <2>1. ASSUME NEW b \in Alerts
        PROVE caseAlerts'[b] = IF b = trigger[u] THEN done[u] ELSE caseAlerts[b]
    BY <1>0, <1>3, CommitWrites
  <2>2. /\ status'[h] = IF h \in done[u] THEN "escalated_tier2" ELSE status[h]
        /\ caseOf'[h] = IF h \in done[u] \/ dupOf[h] \in done[u] THEN trigger[u] ELSE caseOf[h]
        /\ caseStatus'[c] = IF c = trigger[u] THEN "investigating" ELSE caseStatus[c]
        /\ dupOf' = dupOf
    BY <1>0, <1>3, CommitWrites
  <2>3. Named(c)' /\ Whole(h, c)'
    BY <1>0, <1>3, <2>1, <2>2, CommitFinds
  <2>4. Has(h)'
    BY <1>0, <1>3, <2>1, <2>2, CommitFinds
  <2> QED BY <2>3, <2>4
<1>4. ASSUME NEW w \in Workers, NEW auto_closed \in BOOLEAN, OpenHead(w, auto_closed)
      PROVE  UNCHANGED <<dupOf, caseOf, caseAlerts>> /\ caseStatus' = caseStatus
  BY <1>0, <1>4, OpenHeadWrites
<1>5. ASSUME NEW a \in Alerts, Acknowledge(a) \/ Reopen(a)
      PROVE  UNCHANGED <<dupOf, caseOf, caseAlerts>> /\ caseStatus' = caseStatus
  BY <1>0, <1>5, TakeUpWrites
<1>6. ASSUME NEW g \in Alerts, NEW decision \in Decisions, NEW s \in 1 .. occ[g],
             Decide(g, decision, s)
      PROVE  UNCHANGED <<dupOf, caseOf, caseAlerts>> /\ caseStatus' = caseStatus
  BY <1>0, <1>6, DecideWrites
<1>7. ASSUME NEW d \in Alerts, NEW conclusion \in Conclusions, Conclude(d, conclusion)
      PROVE  /\ UNCHANGED <<dupOf, caseOf, caseAlerts>>
             /\ caseStatus'[c] = "none" <=> caseStatus[c] = "none"
  <2>1. conclusion # "none"
    BY TableAssumption DEF AlertStatusOf
  <2> QED BY <1>0, <1>7, <2>1, ConcludeWrites
<1>8. ASSUME RowsKept PROVE UNCHANGED <<dupOf, caseOf, caseAlerts>> /\ caseStatus' = caseStatus
  BY <1>8 DEF RowsKept
<1> QED BY <1>1, <1>2, <1>3, <1>4, <1>5, <1>6, <1>7, <1>8, WhoWritesRows

LEMMA CasesAgreeKept == IInv /\ [Next]_vars => CasesAgree'
<1> DEFINE Agrees(c, h) ==
      caseStatus[c] # "none" /\ h \in caseAlerts[c] =>
        /\ caseOf[h] = c
        /\ status[h] = IF caseStatus[c] = "investigating"
                       THEN "escalated_tier2" ELSE AlertStatusOf[caseStatus[c]]
           Held(a) == status[a] = "escalated_tier2" => \E c \in Alerts : a \in caseAlerts[c]
<1> SUFFICES ASSUME IInv, [Next]_vars PROVE CasesAgree'
  OBVIOUS
<1> SUFFICES ASSUME NEW c \in Alerts, NEW h \in Alerts
             PROVE  Agrees(c, h)' /\ Held(h)'
  <2>1. caseAlerts' \in [Alerts -> SUBSET Alerts]
    BY RowsTyped DEF IInv, RowTypes
  <2> QED BY <2>1 DEF CasesAgree, InSomeCase
<1>0. /\ Types /\ Agrees(c, h) /\ Held(h) /\ NoAlert \notin Alerts
      /\ h \in caseAlerts[c] => status[h] # "absent" /\ dupOf[h] = NoAlert
      /\ caseStatus[c] \in {"none", "investigating"} \cup Conclusions
      /\ \A conclusion \in Conclusions : AlertStatusOf[conclusion] \in HumanClosed
      /\ \A conclusion \in Conclusions : conclusion \notin {"none", "investigating"}
  <2>1. Types /\ Agrees(c, h) /\ Held(h)  BY DEF IInv, CasesAgree, InSomeCase
  <2>2. h \in caseAlerts[c] => status[h] # "absent" /\ dupOf[h] = NoAlert  BY DEF IInv, CaseRows
  <2>3. caseStatus[c] \in {"none", "investigating"} \cup Conclusions
    BY DEF IInv, Types, TypeOK
  <2>4. \A conclusion \in Conclusions : conclusion \notin {"none", "investigating"}
    BY TableAssumption DEF AlertStatusOf
  <2> QED BY <2>1, <2>2, <2>3, <2>4, Conclusive, TableAssumption
<1>1. ASSUME NEW w \in Workers, NEW g \in Alerts, Merge(w, g) PROVE Agrees(c, h)' /\ Held(h)'
  BY <1>0, <1>1, MergeWrites, MergeFinds
<1>2. ASSUME NEW w \in Workers, NEW auto_closed \in BOOLEAN, OpenHead(w, auto_closed)
      PROVE Agrees(c, h)' /\ Held(h)'
  BY <1>0, <1>2, OpenHeadWrites, OpenHeadFinds
<1>3. ASSUME NEW a \in Alerts, Acknowledge(a) \/ Reopen(a) PROVE Agrees(c, h)' /\ Held(h)'
  BY <1>0, <1>3, TakeUpWrites DEF HumanClosed
<1>4. ASSUME NEW g \in Alerts, NEW decision \in Decisions, NEW s \in 1 .. occ[g],
             Decide(g, decision, s)
      PROVE Agrees(c, h)' /\ Held(h)'
  BY <1>0, <1>4, DecideWrites DEF HumanClosed
<1>5. ASSUME NEW u \in Analysts, EscalateCommit(u) PROVE Agrees(c, h)' /\ Held(h)'
  <2>1. ASSUME NEW b \in Alerts
        PROVE  /\ caseAlerts'[b] = IF b = trigger[u] THEN done[u] ELSE caseAlerts[b]
               /\ caseStatus'[b] = IF b = trigger[u] THEN "investigating" ELSE caseStatus[b]
    BY <1>0, <1>5, CommitWrites
  <2>2. /\ status'[h] = IF h \in done[u] THEN "escalated_tier2" ELSE status[h]
        /\ caseOf'[h] = IF h \in done[u] \/ dupOf[h] \in done[u] THEN trigger[u] ELSE caseOf[h]
        /\ trigger[u] \in Alerts
    BY <1>0, <1>5, CommitWrites
  <2>3. Agrees(c, h)'
    BY <1>0, <1>5, <2>1, <2>2, CommitFinds
  <2>4. Held(h)'
    BY <1>0, <1>5, <2>1, <2>2, CommitFinds
  <2> QED BY <2>3, <2>4
<1>6. ASSUME NEW d \in Alerts, NEW conclusion \in Conclusions, Conclude(d, conclusion)
      PROVE Agrees(c, h)' /\ Held(h)'
  <2>1. /\ caseAlerts' = caseAlerts /\ caseOf' = caseOf
        /\ caseStatus[d] = "investigating"
        /\ caseStatus'[c] = IF c = d THEN conclusion ELSE caseStatus[c]
        /\ AlertStatusOf[conclusion] \in HumanClosed
    BY <1>0, <1>6, ConcludeWrites
  <2>2. status'[h] = IF (h \in HeadsOf(d) /\ status[h] = "escalated_tier2") \/ dupOf[h] \in HeadsOf(d)
                     THEN AlertStatusOf[conclusion] ELSE status[h]
    BY <1>0, <1>6, ConcludeWrites
  <2>3. Held(h)'
    BY <1>0, <2>1, <2>2 DEF HumanClosed
  <2>4. ASSUME h \in caseAlerts[c], caseStatus'[c] # "none" PROVE Agrees(c, h)'
    <3>1. caseOf[h] = c /\ h \in HeadsOf(c) /\ dupOf[h] \notin HeadsOf(d)
      BY <1>0, <2>1, <2>4 DEF HeadsOf, Heads
    <3>2. CASE c = d
      BY <1>0, <2>1, <2>2, <2>4, <3>1, <3>2
    <3>3. CASE c # d
      <4>1. h \notin HeadsOf(d)
        BY <3>1, <3>3 DEF HeadsOf
      <4> QED BY <1>0, <2>1, <2>2, <2>4, <3>1, <3>3, <4>1
    <3> QED BY <3>2, <3>3
  <2> QED BY <2>1, <2>3, <2>4
<1>7. ASSUME RowsKept PROVE Agrees(c, h)' /\ Held(h)'
  BY <1>0, <1>7 DEF RowsKept
<1> QED BY <1>1, <1>2, <1>3, <1>4, <1>5, <1>6, <1>7, WhoWritesRows

-----------------------------------------------------------------------------
(* Who absorbs, and what a snapshot under the advisory lock leaves out. *)

(* now() only moves on. *)
LEMMA AgeStep ==
  ASSUME Types, [Next]_vars, NEW h \in Alerts
  PROVE  \/ age' = age
         \/ /\ RowsKept
            /\ age'[h] = "fresh" => age[h] = "fresh"
            /\ age'[h] = "mid" => age[h] = "mid" \/ (age[h] = "fresh" /\ status[h] = "auto_closed")
<1>1. ASSUME NEW g \in Alerts, Ageing(g)
      PROVE  /\ RowsKept
             /\ age'[h] = "fresh" => age[h] = "fresh"
             /\ age'[h] = "mid" => age[h] = "mid" \/ (age[h] = "fresh" /\ status[h] = "auto_closed")
  <2>1. RowsKept
    BY <1>1 DEF Ageing, RowsKept, caseVars
  <2> QED BY <1>1, <2>1 DEF Ageing, Types, TypeOK
<1>2. ASSUME NEW w \in Workers, Pipeline(w) PROVE age' = age
  BY <1>2 DEF Pipeline, Begin, Look, Skip, Merge, Joins, MergeRefused, RejectLate, OpenHead,
     OpenHeadRefused, WorkAborts, rowVars
<1>3. ASSUME Analyst PROVE age' = age
  BY <1>3 DEF Analyst, Acknowledge, Reopen, Decide, Escalate, EscalateStart, EscalateInsert,
     EscalateCommit, EscalateStale, EscalateRaises, EscalateAborts, Conclude, Concludes, rowVars
<1> QED BY <1>1, <1>2, <1>3 DEF Next, vars, rowVars

(* A head absorbs from when it is opened until it stops, unless a person   *)
(* takes it up; and taken up it stays.                                     *)
LEMMA AbsorbStep ==
  ASSUME IInv, [Next]_vars, NEW h \in Alerts
  PROVE  /\ TakenUp(h) => TakenUp(h)'
         /\ Absorbs(h)' => \/ Absorbs(h)
                           \/ TakenUp(h)'
                           \/ \E w \in looked : /\ work[w] = h /\ cands[w] = {}
                                                /\ looked' = looked \ {w}
<1> DEFINE Goal == /\ TakenUp(h) => TakenUp(h)'
                   /\ Absorbs(h)' => \/ Absorbs(h)
                                     \/ TakenUp(h)'
                                     \/ \E w \in looked : /\ work[w] = h /\ cands[w] = {}
                                                          /\ looked' = looked \ {w}
<1>0. /\ Types /\ NoAlert \notin Alerts
      /\ status[h] = "absent" => h \notin auto
      /\ status[h] = "auto_closed" => h \in auto
      /\ occ[h] \in Nat
      /\ status[h] = "absent" => ~Absorbs(h)
  BY TableAssumption, CeilingAssumption
     DEF IInv, Absent, AutoMarked, Types, TypeOK, Absorbs, Open, Heads
<1>1. ASSUME NEW w \in Workers, NEW g \in Alerts, Merge(w, g) PROVE Goal
  <2>1. age' = age
    BY <1>1 DEF Merge, Joins
  <2> QED BY <1>0, <1>1, <2>1, MergeWrites, MergeFinds
         DEF TakenUp, Absorbs, Open, Heads, InWindow
<1>2. ASSUME NEW w \in Workers, NEW auto_closed \in BOOLEAN, OpenHead(w, auto_closed) PROVE Goal
  <2>1. age' = age /\ w \in looked /\ cands[w] = {} /\ looked' = looked \ {w}
    BY <1>2 DEF OpenHead, WorkEnds
  <2> QED BY <1>0, <1>2, <2>1, OpenHeadWrites, OpenHeadFinds
         DEF TakenUp, Absorbs, Open, Heads, InWindow
<1>3. ASSUME NEW a \in Alerts, Acknowledge(a) \/ Reopen(a) PROVE Goal
  <2>1. age' = age
    BY <1>3 DEF Acknowledge, Reopen
  <2>2. ASSUME Acknowledge(a) PROVE closed' = closed /\ status[a] = "queued_tier1"
    BY <2>2 DEF Acknowledge
  <2>3. ASSUME Reopen(a) PROVE status[a] = "auto_closed"
    BY <2>3 DEF Reopen
  <2> QED BY <1>0, <1>3, <2>1, <2>2, <2>3, TakeUpWrites DEF TakenUp, Absorbs, Open, Heads, InWindow
<1>4. ASSUME NEW g \in Alerts, NEW decision \in Decisions, NEW s \in 1 .. occ[g],
             Decide(g, decision, s)
      PROVE Goal
  <2>1. age' = age
    BY <1>4 DEF Decide
  <2> QED BY <1>0, <1>4, <2>1, DecideWrites
         DEF TakenUp, Absorbs, Open, Heads, InWindow, HumanClosed, Duplicates
<1>5. ASSUME NEW u \in Analysts, EscalateCommit(u) PROVE Goal
  <2>1. age' = age
    BY <1>5 DEF EscalateCommit
  <2>2. h \in done[u] => status[h] # "absent"
    BY <1>5, CommitFinds
  <2> QED BY <1>0, <1>5, <2>1, <2>2, CommitWrites DEF TakenUp, Absorbs, Open, Heads, InWindow
<1>6. ASSUME NEW c \in Alerts, NEW conclusion \in Conclusions, Conclude(c, conclusion)
      PROVE Goal
  <2>1. age' = age
    BY <1>6 DEF Conclude, Concludes
  <2> QED BY <1>0, <1>6, <2>1, ConcludeWrites
         DEF TakenUp, Absorbs, Open, Heads, InWindow, HumanClosed
<1>7. ASSUME RowsKept PROVE Goal
  <2>1. \/ age' = age
        \/ /\ age'[h] = "fresh" => age[h] = "fresh"
           /\ age'[h] = "mid" => age[h] = "mid" \/ (age[h] = "fresh" /\ status[h] = "auto_closed")
    BY <1>0, AgeStep
  <2> QED BY <1>7, <2>1 DEF RowsKept, TakenUp, Absorbs, Open, Heads, InWindow
<1> QED BY <1>1, <1>2, <1>3, <1>4, <1>5, <1>6, <1>7, WhoWritesRows

(* What a step does to the transactions of the pipeline. *)
LEMMA SessionStep ==
  ASSUME [Next]_vars
  PROVE  \/ UNCHANGED <<work, looked, cands>>
         \/ \E w \in Workers : \/ \E a \in Alerts : Begin(w, a)
                               \/ Look(w)
                               \/ \E h \in Alerts : Skip(w, h)
                               \/ WorkEnds(w)
<1>1. ASSUME NEW w \in Workers, Pipeline(w)
      PROVE  (\E a \in Alerts : Begin(w, a)) \/ Look(w) \/ (\E h \in Alerts : Skip(w, h)) \/ WorkEnds(w)
  BY <1>1 DEF Pipeline, Merge, Joins, MergeRefused, RejectLate, OpenHead, OpenHeadRefused, WorkAborts
<1>2. ASSUME Analyst \/ (\E h \in Alerts : Ageing(h)) \/ UNCHANGED vars
      PROVE  UNCHANGED <<work, looked, cands>>
  BY <1>2 DEF Analyst, Acknowledge, Reopen, Decide, Escalate, EscalateStart, EscalateInsert,
     EscalateCommit, EscalateStale, EscalateRaises, EscalateAborts, Conclude, Concludes, Ageing,
     vars, workVars
<1> QED BY <1>1, <1>2 DEF Next

LEMMA HeadsGrow == IInv /\ [Next]_vars => Heads \subseteq Heads'
<1> SUFFICES ASSUME IInv, [Next]_vars, NEW h \in Heads PROVE h \in Heads'
  OBVIOUS
<1>0. h \in Alerts /\ status[h] # "absent" /\ dupOf[h] = NoAlert /\ h \in Stored' /\ Types
  BY StoredStep DEF Heads, Stored, IInv
<1>1. ASSUME NEW w \in Workers, NEW g \in Alerts, Merge(w, g) PROVE dupOf'[h] = dupOf[h]
  BY <1>0, <1>1, MergeWrites, MergeFinds
<1>2. ASSUME ~\E w \in Workers, g \in Alerts : Merge(w, g) PROVE dupOf' = dupOf
  BY <1>0, <1>2, WhoWritesRows DEF OpenHead, Acknowledge, Reopen, Decide, EscalateCommit, Conclude,
     Concludes, RowsKept
<1> QED BY <1>0, <1>1, <1>2 DEF Heads, Stored

LEMMA LocksKept == IInv /\ [Next]_vars => Locks'
<1> DEFINE Known(w, h) == Absorbs(h) /\ KeyOf[h] = KeyOf[work[w]] => h \in cands[w] \/ TakenUp(h)
<1> SUFFICES ASSUME IInv, [Next]_vars PROVE Locks'
  OBVIOUS
<1>0. /\ Types /\ Locks /\ Heads \subseteq Heads'
      /\ work \in [Workers -> Alerts \cup {NoAlert}] /\ looked \subseteq Workers
      /\ cands \in [Workers -> SUBSET Alerts] /\ NoAlert \notin Alerts
      /\ \A w \in looked : work[w] \in Alerts
  BY HeadsGrow, TableAssumption DEF IInv, Types, TypeOK, Manned
<1> DEFINE Distinct == \A v, w \in looked : KeyOf[work[v]] = KeyOf[work[w]] => v = w
           Tops == \A w \in Workers : \A h \in cands[w] : h \in Heads
           All == \A w \in looked : \A h \in Alerts : Known(w, h)
<1>1. Distinct /\ Tops /\ All
  BY <1>0 DEF Locks
\* A worker that keeps its transaction misses nothing that is opened meanwhile.
<1>2. ASSUME NEW w \in looked, w \in looked', work'[w] = work[w], NEW h \in Alerts,
             Absorbs(h)', KeyOf[h] = KeyOf[work[w]]
      PROVE  h \in cands[w] \/ TakenUp(h)'
  <2>1. \/ Absorbs(h)
        \/ TakenUp(h)'
        \/ \E v \in looked : work[v] = h /\ cands[v] = {} /\ looked' = looked \ {v}
    BY <1>2, AbsorbStep
  <2>2. TakenUp(h) => TakenUp(h)'
    BY AbsorbStep
  <2>3. ASSUME NEW v \in looked, work[v] = h, looked' = looked \ {v} PROVE FALSE
    BY <1>1, <1>2, <2>3
  <2> QED BY <1>1, <1>2, <2>1, <2>2, <2>3
<1>3. CASE UNCHANGED <<work, looked, cands>>
  BY <1>0, <1>1, <1>2, <1>3 DEF Locks
<1>4. ASSUME NEW w \in Workers, NEW a \in Alerts, Begin(w, a) PROVE Locks'
  <2>1. /\ looked' = looked /\ cands' = cands /\ w \notin looked
        /\ \A v \in looked : work'[v] = work[v]
    BY <1>0, <1>4 DEF Begin
  <2> QED BY <1>0, <1>1, <1>2, <2>1 DEF Locks
<1>5. ASSUME NEW w \in Workers, Look(w) PROVE Locks'
  <2>1. /\ work' = work /\ looked' = looked \cup {w}
        /\ \A v \in looked : KeyOf[work[v]] # KeyOf[work[w]]
        /\ UNCHANGED <<rowVars>>
    BY <1>5 DEF Look
  <2>2. /\ cands'[w] = {h \in Heads : KeyOf[h] = KeyOf[work[w]] /\ Absorbs(h)}
        /\ \A v \in Workers \ {w} : cands'[v] = cands[v]
    BY <1>0, <1>5 DEF Look
  <2>3. Distinct'
    BY <1>1, <2>1
  <2>4. Tops'
    BY <1>0, <1>1, <2>2
  <2>5. \A h \in Alerts : Absorbs(h)' => Absorbs(h) /\ h \in Heads
    BY <2>1 DEF rowVars, Absorbs, Open, Heads, InWindow
  <2>6. ASSUME NEW v \in looked', NEW h \in Alerts PROVE Known(v, h)'
    <3>1. CASE v = w
      BY <2>1, <2>2, <2>5, <3>1
    <3>2. CASE v # w
      BY <1>0, <1>2, <2>1, <2>2, <3>2
    <3> QED BY <3>1, <3>2
  <2> QED BY <2>3, <2>4, <2>6 DEF Locks
<1>6. ASSUME NEW w \in Workers, NEW g \in Alerts, Skip(w, g) PROVE Locks'
  <2>1. work' = work /\ looked' = looked /\ ~Open(g) /\ UNCHANGED rowVars
    BY <1>6 DEF Skip
  <2>2. \A v \in Workers : cands'[v] = IF v = w THEN cands[v] \ {g} ELSE cands[v]
    BY <1>0, <1>6 DEF Skip
  <2>3. ~Absorbs(g)'
    BY <2>1 DEF rowVars, Absorbs, Open, Heads
  <2>4. Distinct'
    BY <1>1, <2>1
  <2>5. Tops'
    BY <1>0, <1>1, <2>2
  <2>6. ASSUME NEW v \in looked', NEW h \in Alerts PROVE Known(v, h)'
    BY <1>0, <1>2, <2>1, <2>2, <2>3
  <2> QED BY <2>4, <2>5, <2>6 DEF Locks
<1>7. ASSUME NEW w \in Workers, WorkEnds(w) PROVE Locks'
  <2>1. /\ looked' = looked \ {w}
        /\ \A v \in Workers : work'[v] = IF v = w THEN NoAlert ELSE work[v]
        /\ \A v \in Workers : cands'[v] = IF v = w THEN {} ELSE cands[v]
    BY <1>0, <1>7 DEF WorkEnds
  <2>2. Distinct'
    BY <1>0, <1>1, <2>1
  <2>3. Tops'
    BY <1>0, <1>1, <2>1
  <2>4. ASSUME NEW v \in looked', NEW h \in Alerts PROVE Known(v, h)'
    BY <1>0, <1>2, <2>1
  <2> QED BY <2>2, <2>3, <2>4 DEF Locks
<1> QED BY <1>3, <1>4, <1>5, <1>6, <1>7, SessionStep

LEMMA OneAbsorbingHeadKept == IInv /\ [Next]_vars => OneAbsorbingHead'
<1> SUFFICES ASSUME IInv, [Next]_vars, NEW g \in Alerts, NEW h \in Alerts,
                    Absorbs(g)', Absorbs(h)', KeyOf[g] = KeyOf[h], g # h,
                    ~TakenUp(g)', ~TakenUp(h)'
             PROVE  FALSE
  BY DEF OneAbsorbingHead, TakenUp
<1> DEFINE Opened(a) == \E w \in looked : work[w] = a /\ cands[w] = {}
<1>1. (Absorbs(g) \/ Opened(g)) /\ (Absorbs(h) \/ Opened(h)) /\ ~TakenUp(g) /\ ~TakenUp(h)
  BY AbsorbStep
<1>2. ASSUME NEW a \in Alerts, NEW b \in Alerts, Absorbs(a), Opened(b), KeyOf[a] = KeyOf[b],
             ~TakenUp(a)
      PROVE  FALSE
  BY <1>2 DEF IInv, Locks
<1>3. ASSUME Opened(g), Opened(h) PROVE FALSE
  BY <1>3 DEF IInv, Locks
<1>4. ASSUME Absorbs(g), Absorbs(h) PROVE FALSE
  BY <1>1, <1>4 DEF IInv, OneAbsorbingHead, TakenUp
<1> QED BY <1>1, <1>2, <1>3, <1>4

-----------------------------------------------------------------------------
(* The invariant, and the properties it implies. *)
LEMMA InitInv == Init => IInv
<1> SUFFICES ASSUME Init PROVE IInv
  OBVIOUS
<1>1. Types
  BY InitTypes
<1>2. \A h \in Alerts : Duplicates(h) = {}
  BY TableAssumption DEF Init, Duplicates
<1>3. Counts
  <2>1. \A h \in Alerts : occ[h] = 1 /\ Cardinality(Duplicates(h)) = 0
    BY <1>2, FS_EmptySet DEF Init
  <2> QED BY <2>1 DEF Counts
<1>4. Absent /\ Depth /\ Shut /\ AutoMarked /\ Reviewed /\ FanOut
  BY DEF Init, Absent, Depth, Shut, AutoMarked, Reviewed, FanOut, HumanClosed
<1>5. ReceiptTellsTruth /\ CaseRows /\ CasesAgree
  BY DEF Init, ReceiptTellsTruth, CaseRows, CasesAgree
<1>6. Escalations
  BY EmptySeq DEF Init, Escalations
<1>7. Locks /\ OneAbsorbingHead
  BY DEF Init, Locks, OneAbsorbingHead, Absorbs, Open, Heads
<1> QED BY <1>1, <1>3, <1>4, <1>5, <1>6, <1>7 DEF IInv

LEMMA StepInv == IInv /\ [Next]_vars => IInv'
<1> SUFFICES ASSUME IInv, [Next]_vars PROVE IInv'
  OBVIOUS
<1>1. Types' /\ Escalations'
  BY TypesKept, EscalationsKept DEF IInv
<1> QED BY <1>1, AbsentKept, DepthKept, CountsKept, ReceiptsKept, ShutKept, AutoMarkedKept,
       ReviewedKept, FanOutKept, CaseRowsKept, CasesAgreeKept, LocksKept, OneAbsorbingHeadKept
       DEF IInv

LEMMA Inductive == Spec => []IInv
BY InitInv, StepInv, PTL DEF Spec

\* The tables and the sessions keep their types.
THEOREM TypeCorrect == Spec => []TypeOK
<1>1. IInv => TypeOK
  BY DEF IInv, Types
<1> QED BY <1>1, Inductive, PTL

\* occurrence_count is the size of the cluster, and clusters are one level deep.
THEOREM CountsAreTrue == Spec => []CountMatchesMembers
<1>1. IInv => CountMatchesMembers
  <2> SUFFICES ASSUME IInv, NEW h \in Heads
               PROVE  /\ occ[h] = 1 + Cardinality(Duplicates(h))
                      /\ \A d \in Duplicates(h) : Duplicates(d) = {}
    BY DEF CountMatchesMembers
  <2>1. \A d \in Duplicates(h) : Duplicates(d) = {}
    BY TableAssumption DEF IInv, Depth, Duplicates, Heads
  <2> QED BY <2>1 DEF IInv, Counts, Heads
<1> QED BY <1>1, Inductive, PTL

\* Two heads of one key absorb together only when a person has taken one up.
THEOREM AbsorbingHeadIsOne == Spec => []OneAbsorbingHead
<1>1. IInv => OneAbsorbingHead
  BY DEF IInv
<1> QED BY <1>1, Inductive, PTL

\* A cluster closed by a person is closed as a whole.
THEOREM FanOutIsComplete == Spec => []FanOutComplete
<1>1. IInv => FanOutComplete
  BY TableAssumption DEF IInv, FanOut, FanOutComplete, Heads, Duplicates
<1> QED BY <1>1, Inductive, PTL

\* No decision ever hides more than the tolerance from the analyst who took it.
THEOREM DecisionsWereSeen == Spec => []DecidedOnWhatWasSeen
<1>1. IInv => DecidedOnWhatWasSeen
  <2> SUFFICES ASSUME IInv, NEW h \in Alerts, seen[h] > 0
               PROVE  1 + Cardinality(Duplicates(h)) - seen[h] <= Tolerance
    BY DEF DecidedOnWhatWasSeen
  <2>1. occ[h] <= Tolerance + seen[h] /\ occ[h] = 1 + Cardinality(Duplicates(h))
    BY DEF IInv, Reviewed, Counts
  <2>2. occ[h] \in Nat /\ seen[h] \in Nat /\ Tolerance \in Nat
    BY CeilingAssumption DEF IInv, Types, TypeOK
  <2> QED BY <2>1, <2>2, FewDuplicates
<1> QED BY <1>1, Inductive, PTL

\* A case and its heads agree, and an escalated alert is in a case.
THEOREM CasesAlwaysAgree == Spec => []CasesAgree
<1>1. IInv => CasesAgree
  BY DEF IInv
<1> QED BY <1>1, Inductive, PTL

\* The receipt of an intake row says what became of its alert.
THEOREM ReceiptsTellTruth == Spec => []ReceiptTellsTruth
<1>1. IInv => ReceiptTellsTruth
  BY DEF IInv
<1> QED BY <1>1, Inductive, PTL

-----------------------------------------------------------------------------
(* The refinement of ClusterVerdicts. *)
Cluster(a) == IF status[a] = "absent" THEN NoAlert ELSE IF dupOf[a] = NoAlert THEN a ELSE dupOf[a]
Standing(a) == IF status[a] \in HumanClosed THEN status[a] ELSE "open"
ClusterOf == [a \in Alerts |-> Cluster(a)]
StandingOf == [a \in Alerts |-> Standing(a)]

LEMMA OpenedIs ==
  ASSUME NEW a \in Alerts, ClusterOf[a] = NoAlert,
         ClusterOf' = [ClusterOf EXCEPT ![a] = a], StandingOf' = StandingOf
  PROVE  Verdicts!Next
<1>1. Verdicts!Open(a)
  BY DEF Verdicts!Open, ClusterOf, StandingOf, Cluster, Standing
<1> QED BY <1>1 DEF Verdicts!Next

LEMMA JoinedIs ==
  ASSUME NEW a \in Alerts, NEW h \in Alerts, ClusterOf[a] = NoAlert, ClusterOf[h] = h,
         StandingOf[h] = "open",
         ClusterOf' = [ClusterOf EXCEPT ![a] = h], StandingOf' = StandingOf
  PROVE  Verdicts!Next
<1>1. Verdicts!Join(a, h)
  BY DEF Verdicts!Join, ClusterOf, StandingOf, Cluster, Standing
<1> QED BY <1>1 DEF Verdicts!Next

LEMMA ClosedIs ==
  ASSUME NEW heads \in SUBSET Alerts, NEW v \in HumanClosed, heads # {},
         \A h \in heads : ClusterOf[h] = h /\ StandingOf[h] = "open",
         StandingOf' = [a \in Alerts |-> IF ClusterOf[a] \in heads THEN v ELSE StandingOf[a]],
         ClusterOf' = ClusterOf
  PROVE  Verdicts!Next
<1>1. Verdicts!Close(heads, v)
  BY DEF Verdicts!Close, ClusterOf, StandingOf, Cluster, Standing
<1> QED BY <1>1 DEF Verdicts!Next

(* Every step opens a head, joins one, closes clusters, or changes nothing *)
(* that ClusterVerdicts speaks of.                                         *)
LEMMA StepVerdicts ==
  ASSUME IInv, [Next]_vars
  PROVE  Verdicts!Next \/ UNCHANGED <<ClusterOf, StandingOf>>
<1>0. /\ Types /\ NoAlert \notin Alerts
      /\ \A a \in Alerts : /\ status[a] = "absent" => dupOf[a] = NoAlert
                           /\ dupOf[a] \in Alerts \cup {NoAlert}
                           /\ dupOf[a] # NoAlert =>
                                /\ status[dupOf[a]] # "absent" /\ dupOf[dupOf[a]] = NoAlert
                                /\ status[a] = IF status[dupOf[a]] \in HumanClosed
                                               THEN status[dupOf[a]] ELSE "duplicate"
  BY TableAssumption DEF IInv, Absent, Depth, FanOut, Types, TypeOK
<1>1. ASSUME NEW w \in Workers, NEW h \in Alerts, Merge(w, h) PROVE Verdicts!Next
  <2> DEFINE a == work[w]
  <2>1. /\ a \in Alerts /\ status[a] = "absent" /\ status[h] # "absent" /\ dupOf[h] = NoAlert
        /\ a # h /\ (h \notin closed \/ h \notin sealed)
    BY <1>0, <1>1, MergeFinds
  <2>2. status[h] \notin HumanClosed
    BY <1>0, <1>1, MergeFinds DEF IInv, Shut
  <2>3. \A b \in Alerts : Cluster(b)' = IF b = a THEN h ELSE Cluster(b)
    BY <1>0, <1>1, <2>1, MergeWrites DEF Cluster
  <2>4. \A b \in Alerts : Standing(b)' = Standing(b)
    BY <1>0, <1>1, <2>1, MergeWrites DEF Standing, HumanClosed
  <2>5. a \in Alerts /\ ClusterOf[a] = NoAlert /\ ClusterOf[h] = h /\ StandingOf[h] = "open"
    BY <1>1, <2>1, <2>2, MergeFinds DEF ClusterOf, StandingOf, Cluster, Standing
  <2>6. ClusterOf' = [ClusterOf EXCEPT ![a] = h] /\ StandingOf' = StandingOf
    BY <2>3, <2>4, <2>5 DEF ClusterOf, StandingOf
  <2> HIDE DEF a
  <2>7. \A b \in Alerts : /\ ClusterOf[b] = NoAlert
                          /\ ClusterOf' = [ClusterOf EXCEPT ![b] = h]
                          => Verdicts!Next
    BY <2>5, <2>6, JoinedIs
  <2> QED BY <2>5, <2>6, <2>7
<1>2. ASSUME NEW w \in Workers, NEW auto_closed \in BOOLEAN, OpenHead(w, auto_closed)
      PROVE Verdicts!Next
  <2> DEFINE a == work[w]
  <2>1. a \in Alerts /\ status[a] = "absent" /\ dupOf[a] = NoAlert
    BY <1>0, <1>2, OpenHeadFinds
  <2>2. \A b \in Alerts : Cluster(b)' = IF b = a THEN a ELSE Cluster(b)
    BY <1>0, <1>2, <2>1, OpenHeadWrites DEF Cluster
  <2>3. \A b \in Alerts : Standing(b)' = Standing(b)
    BY <1>0, <1>2, <2>1, OpenHeadWrites DEF Standing, HumanClosed
  <2>4. ClusterOf[a] = NoAlert
    BY <2>1 DEF ClusterOf, Cluster
  <2>5. ClusterOf' = [ClusterOf EXCEPT ![a] = a] /\ StandingOf' = StandingOf
    BY <2>1, <2>2, <2>3 DEF ClusterOf, StandingOf
  <2> HIDE DEF a
  <2>6. \A b \in Alerts : /\ ClusterOf[b] = NoAlert
                          /\ ClusterOf' = [ClusterOf EXCEPT ![b] = b]
                          => Verdicts!Next
    BY <2>5, OpenedIs
  <2> QED BY <2>1, <2>4, <2>5, <2>6
<1>3. ASSUME NEW h \in Alerts, NEW decision \in Decisions, NEW s \in 1 .. occ[h],
             Decide(h, decision, s)
      PROVE Verdicts!Next
  <2>1. decision \in HumanClosed /\ status[h] = "tier1_active"
    BY <1>0, <1>3, DecideWrites
  <2>2. dupOf[h] = NoAlert
    BY <1>0, <2>1 DEF HumanClosed
  <2>3. \A b \in Alerts : Cluster(b)' = Cluster(b)
    BY <1>0, <1>3, <2>1, DecideWrites DEF Cluster, HumanClosed
  <2>4. \A b \in Alerts : Standing(b)' = IF Cluster(b) \in {h} THEN decision ELSE Standing(b)
    BY <1>0, <1>3, <2>1, <2>2, DecideWrites DEF Cluster, Standing, HumanClosed
  <2>5. ClusterOf' = ClusterOf
    BY <2>3 DEF ClusterOf
  <2>6. StandingOf' = [a \in Alerts |-> IF ClusterOf[a] \in {h} THEN decision ELSE StandingOf[a]]
    BY <2>4 DEF ClusterOf, StandingOf
  <2>7. ClusterOf[h] = h /\ StandingOf[h] = "open"
    BY <2>1, <2>2 DEF ClusterOf, StandingOf, Cluster, Standing, HumanClosed
  <2>8. {h} \in SUBSET Alerts /\ {h} # {} /\ \A g \in {h} : ClusterOf[g] = g /\ StandingOf[g] = "open"
    BY <2>7
  <2> QED BY <2>1, <2>5, <2>6, <2>8, ClosedIs
<1>4. ASSUME NEW c \in Alerts, NEW conclusion \in Conclusions, Conclude(c, conclusion)
      PROVE Verdicts!Next
  <2> DEFINE v == AlertStatusOf[conclusion]
  <2>1. caseStatus[c] = "investigating" /\ v \in HumanClosed
    BY <1>4, Conclusive DEF Conclude
  <2>2. \A h \in HeadsOf(c) : h \in Alerts /\ dupOf[h] = NoAlert /\ status[h] = "escalated_tier2"
    BY <2>1, HeadsEscalated
  <2>3. c \in HeadsOf(c)
    BY <2>1 DEF IInv, CaseRows, CasesAgree, HeadsOf, Heads
  <2>4. ASSUME NEW b \in Alerts
        PROVE  status'[b] = IF b \in HeadsOf(c) \/ dupOf[b] \in HeadsOf(c) THEN v ELSE status[b]
    BY <1>0, <1>4, <2>2, ConcludeWrites
  <2>5. dupOf' = dupOf
    BY <1>0, <1>4, ConcludeWrites
  <2> HIDE DEF v
  <2>6. \A b \in Alerts : Cluster(b)' = Cluster(b)
    BY <1>0, <2>1, <2>2, <2>4, <2>5 DEF Cluster, HumanClosed
  <2>7. \A b \in Alerts : Standing(b)' = IF Cluster(b) \in HeadsOf(c) THEN v ELSE Standing(b)
    BY <1>0, <2>1, <2>2, <2>4 DEF Cluster, Standing, HumanClosed
  <2>8. ClusterOf' = ClusterOf
    BY <2>6 DEF ClusterOf
  <2>9. StandingOf' = [a \in Alerts |-> IF ClusterOf[a] \in HeadsOf(c) THEN v ELSE StandingOf[a]]
    BY <2>7 DEF ClusterOf, StandingOf
  <2>10. \A h \in HeadsOf(c) : ClusterOf[h] = h /\ StandingOf[h] = "open"
    BY <2>2 DEF ClusterOf, StandingOf, Cluster, Standing, HumanClosed
  <2>11. \A heads \in SUBSET Alerts, x \in HumanClosed :
           /\ heads # {} /\ \A h \in heads : ClusterOf[h] = h /\ StandingOf[h] = "open"
           /\ StandingOf' = [a \in Alerts |-> IF ClusterOf[a] \in heads THEN x ELSE StandingOf[a]]
           => Verdicts!Next
    BY <2>8, ClosedIs
  <2>12. HeadsOf(c) \in SUBSET Alerts /\ HeadsOf(c) # {}
    BY <2>2, <2>3
  <2> HIDE DEF HeadsOf
  <2> QED BY <2>1, <2>9, <2>10, <2>11, <2>12
<1>5. ASSUME dupOf' = dupOf,
             \A b \in Alerts : (status'[b] = "absent" <=> status[b] = "absent") /\ Standing(b)' = Standing(b)
      PROVE  UNCHANGED <<ClusterOf, StandingOf>>
  BY <1>5 DEF ClusterOf, StandingOf, Cluster
<1>6. ASSUME NEW a \in Alerts, Acknowledge(a) \/ Reopen(a)
      PROVE UNCHANGED <<ClusterOf, StandingOf>>
  BY <1>0, <1>5, <1>6, TakeUpWrites DEF Standing, HumanClosed
<1>7. ASSUME NEW u \in Analysts, EscalateCommit(u) PROVE UNCHANGED <<ClusterOf, StandingOf>>
  <2>1. dupOf' = dupOf
    BY <1>7 DEF EscalateCommit
  <2>2. ASSUME NEW b \in Alerts
        PROVE (status'[b] = "absent" <=> status[b] = "absent") /\ Standing(b)' = Standing(b)
    BY <1>0, <1>7, CommitWrites, CommitFinds DEF Standing, HumanClosed
  <2> QED BY <1>5, <2>1, <2>2
<1>8. ASSUME RowsKept PROVE UNCHANGED <<ClusterOf, StandingOf>>
  BY <1>8 DEF RowsKept, ClusterOf, StandingOf, Cluster, Standing
<1> QED BY <1>1, <1>2, <1>3, <1>4, <1>6, <1>7, <1>8, WhoWritesRows

\* The tables implement ClusterVerdicts: an alert enters once, a verdict falls
\* on whole clusters, and none is revised.
THEOREM VerdictsStayFinal == Spec => VerdictsAreFinal
<1>1. Init => Verdicts!Init
  BY TableAssumption DEF Init, Verdicts!Init, HumanClosed
<1>2. ASSUME IInv, [Next]_vars
      PROVE  Verdicts!Next \/ UNCHANGED <<[a \in Alerts |-> IF status[a] = "absent" THEN NoAlert
                                                            ELSE IF dupOf[a] = NoAlert THEN a
                                                                 ELSE dupOf[a]],
                                          [a \in Alerts |-> IF status[a] \in HumanClosed
                                                            THEN status[a] ELSE "open"]>>
  BY <1>2, StepVerdicts DEF ClusterOf, StandingOf, Cluster, Standing
<1> QED BY <1>1, <1>2, Inductive, PTL DEF Spec, VerdictsAreFinal, Verdicts!Spec
=============================================================================
