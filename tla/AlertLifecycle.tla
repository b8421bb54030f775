--------------------------- MODULE AlertLifecycle ---------------------------
(***************************************************************************)
(* The alerts, cases and case_alerts tables under concurrent transactions. *)
(*                                                                         *)
(* soar/pipeline.py turns an intake row into an alert: it takes the        *)
(* advisory lock of the cluster key, looks for a head that still absorbs   *)
(* (ingest/dedup.py) and writes a duplicate or a new head.  Analysts act   *)
(* through domain/transitions.py: acknowledge, decide, escalate, reopen,   *)
(* conclude_case.                                                          *)
(*                                                                         *)
(* PostgreSQL at READ COMMITTED is modelled by its visible effects.  A     *)
(* transaction that never waits after its first row lock is one action.    *)
(* Two are longer: the pipeline (BEGIN; the statement snapshot taken under *)
(* the advisory lock; the lock of the row it found) and escalate (its      *)
(* reads; one case_alerts insert at a time; the update and COMMIT), whose  *)
(* inserts hold a unique entry and a FOR KEY SHARE lock until it ends.     *)
(*                                                                         *)
(* A case is named by the alert whose escalation opened it: case_alerts is *)
(* unique per alert, so an alert opens at most one.                        *)
(***************************************************************************)
EXTENDS Naturals, Sequences, FiniteSets, SequencesExt

CONSTANTS
  Alerts,       \* documents that parse, one intake row and one alert_id each
  NoAlert,      \* not an alert
  KeyOf,        \* cluster key of each alert: rule_id, srcip, dstip, agent_name
  Related,      \* alerts that the correlation predicate links to each alert
  Workers,      \* worker processes
  Analysts,     \* sessions of the analyst API
  Decisions,    \* what decide closes with: closed_fp, closed_benign
  Conclusions,  \* what conclude_case concludes with
  MaxSize,      \* MAX_CLUSTER_SIZE
  MaxPerCase,   \* MAX_ALERTS_PER_CASE
  Tolerance     \* REVIEW_DELTA_TOLERANCE

\* _CONCLUSION_TO_ALERT_STATUS
AlertStatusOf ==
  [concluded_fp               |-> "closed_fp",
   concluded_policy_violation |-> "closed_benign",
   confirmed_incident         |-> "closed_confirmed"]

ASSUME TableAssumption ==
  /\ NoAlert \notin Alerts
  /\ DOMAIN KeyOf = Alerts
  /\ Related \in [Alerts -> SUBSET Alerts]
  /\ Decisions \subseteq {"closed_fp", "closed_benign"}
  /\ Conclusions \subseteq DOMAIN AlertStatusOf

ASSUME CeilingAssumption ==
  /\ MaxSize \in Nat \ {0}
  /\ MaxPerCase \in Nat \ {0}
  /\ Tolerance \in Nat

VARIABLES
  \* The database.
  status,      \* alerts.status, "absent" for an alert with no row
  dupOf,       \* alerts.duplicate_of
  occ,         \* alerts.occurrence_count
  closed,      \* alerts with closed_at
  sealed,      \* alerts with sealed_at
  auto,        \* alerts with autoclose_rule_id
  acked,       \* alerts with acknowledged_at
  caseOf,      \* alerts.case_id
  caseStatus,  \* cases.status
  caseAlerts,  \* case_alerts
  receipt,     \* intake.outcome
  age,         \* which windows first_seen_at and last_seen_at are still in
  precedes,    \* pipeline transactions that began before first_seen_at
  \* Sessions.
  work,        \* the alert a worker's pipeline transaction is about
  looked,      \* whether it holds the advisory lock and has its snapshot
  cands,       \* the heads of that snapshot it has not locked yet
  older,       \* the pipeline transactions that began before it
  todo,        \* the case_alerts rows an escalation has still to insert
  done,        \* the ones it has inserted
  trigger,     \* the alert it escalates
  \* Remembered for the properties.
  seen         \* the occurrence_count a decision was taken on

rowVars == <<status, dupOf, occ, closed, sealed, auto, acked, caseOf, age>>
caseVars == <<caseStatus, caseAlerts>>
workVars == <<work, looked, cands, older>>
escVars == <<todo, done, trigger>>
vars == <<rowVars, caseVars, receipt, precedes, workVars, escVars, seen>>

HumanClosed == {"closed_fp", "closed_benign", "closed_confirmed"}
Statuses == {"absent", "duplicate", "auto_closed", "queued_tier1",
             "tier1_active", "escalated_tier2"} \cup HumanClosed
Outcomes == {"none", "duplicate", "auto_closed", "alert", "rejected"}
Ages == {"fresh", "mid", "past"}

Heads == {a \in Alerts : status[a] # "absent" /\ dupOf[a] = NoAlert}
Duplicates(h) == {d \in Alerts : dupOf[d] = h}
Busy == {w \in Workers : work[w] # NoAlert}
Escalating(u) == trigger[u] # NoAlert

(***************************************************************************)
(* FIND_OPEN_CLUSTER_SQL.  `age` abstracts its two windows: "fresh" is in  *)
(* both; "mid" is past MAX_CLUSTER_AGE_AUTOCLOSED_MINUTES only; "past" is  *)
(* idle for DEDUP_IDLE_GAP_MINUTES, or older than MAX_CLUSTER_AGE_HOURS.   *)
(***************************************************************************)
InWindow(h) == age[h] = "fresh" \/ (age[h] = "mid" /\ status[h] # "auto_closed")
Open(h) ==
  /\ h \in Heads
  /\ h \notin closed \/ h \notin sealed
  /\ occ[h] < MaxSize
Absorbs(h) == Open(h) /\ InWindow(h)

-----------------------------------------------------------------------------
Init ==
  /\ status = [a \in Alerts |-> "absent"]
  /\ dupOf = [a \in Alerts |-> NoAlert]
  /\ occ = [a \in Alerts |-> 1]
  /\ closed = {} /\ sealed = {} /\ auto = {} /\ acked = {}
  /\ caseOf = [a \in Alerts |-> NoAlert]
  /\ caseStatus = [a \in Alerts |-> "none"]
  /\ caseAlerts = [a \in Alerts |-> {}]
  /\ receipt = [a \in Alerts |-> "none"]
  /\ age = [a \in Alerts |-> "fresh"]
  /\ precedes = [a \in Alerts |-> {}]
  /\ work = [w \in Workers |-> NoAlert]
  /\ looked = {}
  /\ cands = [w \in Workers |-> {}]
  /\ older = [w \in Workers |-> {}]
  /\ todo = [u \in Analysts |-> <<>>]
  /\ done = [u \in Analysts |-> {}]
  /\ trigger = [u \in Analysts |-> NoAlert]
  /\ seen = [a \in Alerts |-> 0]

-----------------------------------------------------------------------------
(* The pipeline transaction. *)

\* BEGIN fixes now(); the intake row has no receipt yet.
Begin(w, a) ==
  /\ work[w] = NoAlert
  /\ receipt[a] = "none"
  /\ work' = [work EXCEPT ![w] = a]
  /\ older' = [older EXCEPT ![w] = Busy]
  /\ UNCHANGED <<rowVars, caseVars, receipt, precedes, looked, cands, escVars, seen>>

\* Mutant: no advisory lock around the look-up.
LookUnlocked(w) ==
  /\ w \in Busy \ looked
  /\ looked' = looked \cup {w}
  /\ cands' = [cands EXCEPT ![w] = {h \in Heads : KeyOf[h] = KeyOf[work[w]] /\ Absorbs(h)}]
  /\ UNCHANGED <<rowVars, caseVars, receipt, precedes, work, older, escVars, seen>>

\* cluster_lock, then the statement snapshot of find_open_cluster.
Look(w) ==
  /\ w \in Busy \ looked
  /\ \A v \in looked : KeyOf[work[v]] # KeyOf[work[w]]
  /\ looked' = looked \cup {w}
  /\ cands' = [cands EXCEPT ![w] = {h \in Heads : KeyOf[h] = KeyOf[work[w]] /\ Absorbs(h)}]
  /\ UNCHANGED <<rowVars, caseVars, receipt, precedes, work, older, escVars, seen>>

\* The transaction is over, and with it its locks and its now().
WorkEnds(w) ==
  /\ work' = [work EXCEPT ![w] = NoAlert]
  /\ looked' = looked \ {w}
  /\ cands' = [cands EXCEPT ![w] = {}]
  /\ older' = [v \in Workers |-> IF v = w THEN {} ELSE older[v] \ {w}]

Forget(w) == [a \in Alerts |-> precedes[a] \ {w}]

\* FOR UPDATE waits while an escalation has the head under FOR KEY SHARE.
Unlocked(h) == \A u \in Analysts : h \notin done[u]

\* The locked row is read again: no longer open, so the next one is tried.
Skip(w, h) ==
  /\ h \in cands[w]
  /\ Unlocked(h)
  /\ ~Open(h)
  /\ cands' = [cands EXCEPT ![w] = @ \ {h}]
  /\ UNCHANGED <<rowVars, caseVars, receipt, precedes, work, looked, older, escVars, seen>>

Joins(w, h) ==
  LET a == work[w] IN
  /\ w \notin precedes[h]
  /\ status[a] = "absent"
  /\ status' = [status EXCEPT ![a] = "duplicate"]
  /\ dupOf' = [dupOf EXCEPT ![a] = h]
  /\ occ' = [occ EXCEPT ![h] = @ + 1]
  /\ closed' = closed \cup {a}
  /\ sealed' = sealed \cup {a}
  /\ receipt' = [receipt EXCEPT ![a] = "duplicate"]
  /\ precedes' = Forget(w)
  /\ WorkEnds(w)
  /\ UNCHANGED <<auto, acked, caseOf, age, caseVars, escVars, seen>>

\* Mutant: the row is not read again once it is locked.
MergeUnchecked(w, h) == h \in cands[w] /\ Unlocked(h) /\ Joins(w, h)

\* bump_parent, open_alert(kind="duplicate"), the receipt, finish_job, COMMIT.
Merge(w, h) == h \in cands[w] /\ Unlocked(h) /\ Open(h) /\ Joins(w, h)

\* Mutant: the insert does nothing on conflict, and the bump is committed.
MergeAgain(w, h) ==
  /\ h \in cands[w]
  /\ Unlocked(h)
  /\ status[work[w]] # "absent"
  /\ occ' = [occ EXCEPT ![h] = @ + 1]
  /\ precedes' = Forget(w)
  /\ WorkEnds(w)
  /\ UNCHANGED <<status, dupOf, closed, sealed, auto, acked, caseOf, age,
                 caseVars, receipt, escVars, seen>>

\* The same transaction when the alert has a row by now: the INSERT raises
\* UniqueViolation, open_alert turns it into StaleState, all is rolled back.
MergeRefused(w, h) ==
  /\ h \in cands[w]
  /\ Unlocked(h)
  /\ Open(h)
  /\ w \notin precedes[h]
  /\ status[work[w]] # "absent"
  /\ precedes' = Forget(w)
  /\ WorkEnds(w)
  /\ UNCHANGED <<rowVars, caseVars, receipt, escVars, seen>>

\* Mutant: a rejection overwrites the receipt another worker has written.
RejectUnpinned(w, h) ==
  /\ h \in cands[w]
  /\ Unlocked(h)
  /\ Open(h)
  /\ w \in precedes[h]
  /\ receipt' = [receipt EXCEPT ![work[w]] = "rejected"]
  /\ precedes' = Forget(w)
  /\ WorkEnds(w)
  /\ UNCHANGED <<rowVars, caseVars, escVars, seen>>

\* The same transaction when it began before the head it found was inserted:
\* bump_parent writes last_seen_at = now() < first_seen_at, which
\* ck_alerts_last_seen_khong_lui refuses.  An IntegrityError is permanent: the
\* rejection receipt is written, unless the row carries one (017 pins it).
RejectLate(w, h) ==
  /\ h \in cands[w]
  /\ Unlocked(h)
  /\ Open(h)
  /\ w \in precedes[h]
  /\ receipt' = [receipt EXCEPT ![work[w]] = IF @ = "none" THEN "rejected" ELSE @]
  /\ precedes' = Forget(w)
  /\ WorkEnds(w)
  /\ UNCHANGED <<rowVars, caseVars, escVars, seen>>

\* No head absorbs the alert.  autoclose.evaluate chooses the kind: a head
\* that is auto_closed, or received, enriched and queued in one transaction.
OpenHead(w, auto_closed) ==
  LET a == work[w] IN
  /\ w \in looked
  /\ cands[w] = {}
  /\ status[a] = "absent"
  /\ status' = [status EXCEPT ![a] = IF auto_closed THEN "auto_closed" ELSE "queued_tier1"]
  /\ closed' = IF auto_closed THEN closed \cup {a} ELSE closed
  /\ auto' = IF auto_closed THEN auto \cup {a} ELSE auto
  /\ receipt' = [receipt EXCEPT ![a] = IF auto_closed THEN "auto_closed" ELSE "alert"]
  /\ precedes' = [Forget(w) EXCEPT ![a] = older[w]]
  /\ WorkEnds(w)
  /\ UNCHANGED <<dupOf, occ, sealed, acked, caseOf, age, caseVars, escVars, seen>>

OpenHeadRefused(w) ==
  /\ w \in looked
  /\ cands[w] = {}
  /\ status[work[w]] # "absent"
  /\ precedes' = Forget(w)
  /\ WorkEnds(w)
  /\ UNCHANGED <<rowVars, caseVars, receipt, escVars, seen>>

\* A crash, the 3 s statement timeout in a lock wait, any transient error.
WorkAborts(w) ==
  /\ w \in Busy
  /\ precedes' = Forget(w)
  /\ WorkEnds(w)
  /\ UNCHANGED <<rowVars, caseVars, receipt, escVars, seen>>

Pipeline(w) ==
  \/ \E a \in Alerts : Begin(w, a)
  \/ Look(w)
  \/ \E h \in Alerts : \/ Skip(w, h) \/ Merge(w, h)
                       \/ MergeRefused(w, h) \/ RejectLate(w, h)
  \/ \E auto_closed \in BOOLEAN : OpenHead(w, auto_closed)
  \/ OpenHeadRefused(w)
  \/ WorkAborts(w)

-----------------------------------------------------------------------------
(* The analysts' transactions. *)

Acknowledge(a) ==
  /\ status[a] = "queued_tier1"
  /\ a \notin acked
  /\ status' = [status EXCEPT ![a] = "tier1_active"]
  /\ acked' = acked \cup {a}
  /\ UNCHANGED <<dupOf, occ, closed, sealed, auto, caseOf, age, caseVars,
                 receipt, precedes, workVars, escVars, seen>>

\* SELECT ... FOR UPDATE and both updates.  The analyst saw the cluster when
\* it counted s: any value the counter has had.
Decide(h, decision, s) ==
  LET cluster == {h} \cup Duplicates(h) IN
  /\ status[h] = "tier1_active"
  /\ Unlocked(h)
  /\ occ[h] - s <= Tolerance
  /\ status' = [a \in Alerts |-> IF a \in cluster THEN decision ELSE status[a]]
  /\ closed' = closed \cup cluster
  /\ sealed' = sealed \cup cluster
  /\ seen' = [seen EXCEPT ![h] = s]
  /\ UNCHANGED <<dupOf, occ, auto, acked, caseOf, age, caseVars, receipt,
                 precedes, workVars, escVars>>

Reopen(a) ==
  /\ status[a] = "auto_closed"
  /\ status' = [status EXCEPT ![a] = "queued_tier1"]
  /\ closed' = closed \ {a}
  /\ UNCHANGED <<dupOf, occ, sealed, auto, acked, caseOf, age, caseVars,
                 receipt, precedes, workVars, escVars, seen>>

\* correlated_cluster_ids, most occurrences first.
Correlated(t) ==
  {h \in Related[t] \ {t} : h \in Heads /\ status[h] \in {"queued_tier1", "tier1_active"}}
ByOccurrence(s) == \A i, j \in DOMAIN s : i < j => occ[s[i]] >= occ[s[j]]

\* The trigger and the correlated heads, cut at MAX_ALERTS_PER_CASE.
EscalateStart(u, t) ==
  /\ ~Escalating(u)
  /\ status[t] # "absent"
  /\ \E s \in SetToSeqs(Correlated(t)) :
       /\ ByOccurrence(s)
       /\ LET ids == <<t>> \o s IN
          todo' = [todo EXCEPT ![u] =
                     IF Len(ids) > MaxPerCase THEN SubSeq(ids, 1, MaxPerCase) ELSE ids]
  /\ trigger' = [trigger EXCEPT ![u] = t]
  /\ UNCHANGED <<rowVars, caseVars, receipt, precedes, workVars, done, seen>>

InSomeCase(a) == \E c \in Alerts : a \in caseAlerts[c]

\* One case_alerts row.  It waits for another escalation that has inserted
\* the same alert, and raises UniqueViolation if a committed one has.
EscalateInsert(u) ==
  LET h == Head(todo[u]) IN
  /\ todo[u] # <<>>
  /\ \A v \in Analysts \ {u} : h \notin done[v]
  /\ ~InSomeCase(h)
  /\ todo' = [todo EXCEPT ![u] = Tail(@)]
  /\ done' = [done EXCEPT ![u] = @ \cup {h}]
  /\ UNCHANGED <<rowVars, caseVars, receipt, precedes, workVars, trigger, seen>>

EscalateEnds(u) ==
  /\ todo' = [todo EXCEPT ![u] = <<>>]
  /\ done' = [done EXCEPT ![u] = {}]
  /\ trigger' = [trigger EXCEPT ![u] = NoAlert]

Inserted(u) == Escalating(u) /\ todo[u] = <<>>

\* Mutant: no CHECK forbids an escalated row with sealed_at.
RefusedByNoCheck(u) == FALSE

\* ck_alerts_h3_escalate_khong_seal, on a row the update would touch.
RefusedByH3(u) == \E h \in done[u] : caseOf[h] = NoAlert /\ h \in sealed

\* The rowcount of the update is that of the case_alerts rows.
AllTouched(u) == \A h \in done[u] : caseOf[h] = NoAlert

\* UPDATE the heads, then case_id of their duplicates, COMMIT.
EscalateCommit(u) ==
  LET members == UNION {Duplicates(h) : h \in done[u]} IN
  /\ Inserted(u)
  /\ ~RefusedByH3(u)
  /\ AllTouched(u)
  /\ status' = [a \in Alerts |-> IF a \in done[u] THEN "escalated_tier2" ELSE status[a]]
  /\ caseOf' = [a \in Alerts |-> IF a \in done[u] \cup members THEN trigger[u] ELSE caseOf[a]]
  /\ caseStatus' = [caseStatus EXCEPT ![trigger[u]] = "investigating"]
  /\ caseAlerts' = [caseAlerts EXCEPT ![trigger[u]] = done[u]]
  /\ EscalateEnds(u)
  /\ UNCHANGED <<dupOf, occ, closed, sealed, auto, acked, age,
                 receipt, precedes, workVars, seen>>

\* StaleState: a candidate is in another case.
EscalateStale(u) ==
  /\ \/ todo[u] # <<>> /\ InSomeCase(Head(todo[u]))
     \/ Inserted(u) /\ ~RefusedByH3(u) /\ ~AllTouched(u)
  /\ EscalateEnds(u)
  /\ UNCHANGED <<rowVars, caseVars, receipt, precedes, workVars, seen>>

\* CheckViolation: the trigger is no head any more, or was closed, or a
\* candidate was closed after it was read.
EscalateRaises(u) ==
  /\ Inserted(u)
  /\ RefusedByH3(u)
  /\ EscalateEnds(u)
  /\ UNCHANGED <<rowVars, caseVars, receipt, precedes, workVars, seen>>

\* The victim of a deadlock, a statement timeout, a lost connection.
EscalateAborts(u) ==
  /\ Escalating(u)
  /\ EscalateEnds(u)
  /\ UNCHANGED <<rowVars, caseVars, receipt, precedes, workVars, seen>>

Escalate(u) ==
  \/ \E t \in Alerts : EscalateStart(u, t)
  \/ EscalateInsert(u)
  \/ EscalateCommit(u)
  \/ EscalateStale(u)
  \/ EscalateRaises(u)
  \/ EscalateAborts(u)

Concludes(c, conclusion, alerts) ==
  /\ caseStatus' = [caseStatus EXCEPT ![c] = conclusion]
  /\ status' = [a \in Alerts |-> IF a \in alerts THEN AlertStatusOf[conclusion] ELSE status[a]]
  /\ closed' = closed \cup alerts
  /\ sealed' = sealed \cup alerts
  /\ UNCHANGED <<dupOf, occ, auto, acked, caseOf, age, caseAlerts, receipt,
                 precedes, workVars, escVars, seen>>

HeadsOf(c) == {h \in Heads : caseOf[h] = c}

\* Mutant: the duplicates are found by case_id, which late ones do not have.
ConcludeByCase(c, conclusion) ==
  /\ caseStatus[c] = "investigating"
  /\ Concludes(c, conclusion, {a \in Alerts : caseOf[a] = c})

\* Mutant: a concluded case may be concluded again.
ConcludeAgain(c, conclusion) ==
  /\ caseStatus[c] # "none"
  /\ Concludes(c, conclusion, {h \in HeadsOf(c) : status[h] = "escalated_tier2"})

\* cases, its escalated heads, and every duplicate of every head.
Conclude(c, conclusion) ==
  /\ caseStatus[c] = "investigating"
  /\ Concludes(c, conclusion,
       {h \in HeadsOf(c) : status[h] = "escalated_tier2"}
         \cup UNION {Duplicates(h) : h \in HeadsOf(c)})

\* now() passes a window of a head that is still read for it; a transaction
\* that has the head in its snapshot keeps its own now().
Ageing(h) ==
  /\ Open(h)
  /\ \A w \in Workers : h \notin cands[w]
  /\ \/ age[h] = "fresh" /\ status[h] = "auto_closed" /\ age' = [age EXCEPT ![h] = "mid"]
     \/ age[h] # "past" /\ age' = [age EXCEPT ![h] = "past"]
  /\ UNCHANGED <<status, dupOf, occ, closed, sealed, auto, acked, caseOf,
                 caseVars, receipt, precedes, workVars, escVars, seen>>

Analyst ==
  \/ \E a \in Alerts : Acknowledge(a) \/ Reopen(a)
  \/ \E h \in Alerts, decision \in Decisions : \E s \in 1..occ[h] : Decide(h, decision, s)
  \/ \E u \in Analysts : Escalate(u)
  \/ \E c \in Alerts, conclusion \in Conclusions : Conclude(c, conclusion)

Next ==
  \/ \E w \in Workers : Pipeline(w)
  \/ Analyst
  \/ \E h \in Alerts : Ageing(h)

Spec == Init /\ [][Next]_vars

-----------------------------------------------------------------------------
\* Type correctness of the tables and of the sessions' local state.
TypeOK ==
  /\ status \in [Alerts -> Statuses]
  /\ dupOf \in [Alerts -> Alerts \cup {NoAlert}]
  /\ occ \in [Alerts -> 1..MaxSize]
  /\ {closed, sealed, auto, acked} \subseteq SUBSET Alerts
  /\ caseOf \in [Alerts -> Alerts \cup {NoAlert}]
  /\ caseStatus \in [Alerts -> {"none", "investigating"} \cup Conclusions]
  /\ caseAlerts \in [Alerts -> SUBSET Alerts]
  /\ receipt \in [Alerts -> Outcomes]
  /\ age \in [Alerts -> Ages]
  /\ precedes \in [Alerts -> SUBSET Workers]
  /\ work \in [Workers -> Alerts \cup {NoAlert}]
  /\ looked \subseteq Workers
  /\ cands \in [Workers -> SUBSET Alerts]
  /\ older \in [Workers -> SUBSET Workers]
  /\ todo \in [Analysts -> Seq(Alerts)]
  /\ done \in [Analysts -> SUBSET Alerts]
  /\ trigger \in [Analysts -> Alerts \cup {NoAlert}]
  /\ seen \in [Alerts -> 0..MaxSize]

\* occurrence_count of a head is the number of alerts in its cluster, however
\* the pipelines of two workers interleave, are refused or die, and clusters
\* are one level deep (no duplicate is ever a parent).
CountMatchesMembers ==
  \A h \in Heads :
    /\ occ[h] = 1 + Cardinality(Duplicates(h))
    /\ \A d \in Duplicates(h) : Duplicates(d) = {}

\* Two heads of one cluster key never absorb at the same time, unless one of
\* them was auto-closed and a person has taken it up since (a reopened or
\* escalated head gets the longer window back while a new head may exist).
OneAbsorbingHead ==
  \A g, h \in Alerts :
    Absorbs(g) /\ Absorbs(h) /\ KeyOf[g] = KeyOf[h] =>
      g = h \/ \E a \in {g, h} : a \in auto /\ status[a] # "auto_closed"

\* A cluster closed by a person is closed as a whole: every duplicate carries
\* the status of its head, those that joined during the investigation too;
\* before that it is a `duplicate`.
FanOutComplete ==
  \A h \in Heads : \A d \in Duplicates(h) :
    status[d] = IF status[h] \in HumanClosed THEN status[h] ELSE "duplicate"

\* No decision hides more than REVIEW_DELTA_TOLERANCE alerts the analyst did
\* not see: neither merged before it was taken nor slipped in after.
DecidedOnWhatWasSeen ==
  \A h \in Alerts : seen[h] > 0 =>
    1 + Cardinality(Duplicates(h)) - seen[h] <= Tolerance

\* A case and its heads agree: under investigation its heads are escalated,
\* concluded they are closed as the conclusion says; no head is in two cases,
\* and an escalated alert is always in one.
CasesAgree ==
  /\ \A c \in Alerts : caseStatus[c] # "none" =>
       \A h \in caseAlerts[c] :
         /\ caseOf[h] = c
         /\ status[h] = IF caseStatus[c] = "investigating"
                        THEN "escalated_tier2" ELSE AlertStatusOf[caseStatus[c]]
  /\ \A a \in Alerts : status[a] = "escalated_tier2" => InSomeCase(a)

\* The receipt of an intake row says what became of its alert, and commits
\* with it: no alert without a receipt, no receipt without its alert.
ReceiptTellsTruth ==
  \A a \in Alerts :
    receipt[a] = IF status[a] = "absent" THEN
                   IF receipt[a] = "rejected" THEN "rejected" ELSE "none"
                 ELSE IF dupOf[a] # NoAlert THEN "duplicate"
                 ELSE IF a \in auto THEN "auto_closed" ELSE "alert"

\* The tables implement ClusterVerdicts: alerts enter once, no verdict is
\* ever revised, and it falls on all of a cluster at once.
Verdicts == INSTANCE ClusterVerdicts WITH
  head <- [a \in Alerts |-> IF status[a] = "absent" THEN NoAlert
                            ELSE IF dupOf[a] = NoAlert THEN a ELSE dupOf[a]],
  verdict <- [a \in Alerts |-> IF status[a] \in HumanClosed THEN status[a] ELSE "open"],
  Verdicts <- HumanClosed
VerdictsAreFinal == Verdicts!Spec
=============================================================================
