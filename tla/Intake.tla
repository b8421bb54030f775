------------------------------- MODULE Intake -------------------------------
(***************************************************************************)
(* How documents become intake rows: the pull job, the backfill and replay *)
(* commands (infra/puller.py) and the webhook (infra/intake.py,            *)
(* web/routers/webhook.py), and the pipeline job each row is queued for.   *)
(*                                                                         *)
(* A session is one database transaction: a pull reads the cursor, fetches *)
(* page after page from the indexer, stores hit after hit, and commits     *)
(* rows, jobs and cursor together.  Rows a session has not committed make  *)
(* another session that inserts the same document wait, which is what      *)
(* UNIQUE (manager_id, source_alert_id) does in PostgreSQL.                *)
(*                                                                         *)
(* The indexer is external: it holds time-stamped documents, each visible  *)
(* at most Lateness after its timestamp, and answers a search_after page   *)
(* sorted by timestamp alone, ties in any order.  One time unit stands for *)
(* whatever PULL_OVERLAP_S is counted in.  Of jobs only `pipeline` is      *)
(* here, and no more of the pull loop than whether it is armed: JobQueue   *)
(* models both.                                                            *)
(***************************************************************************)
EXTENDS Naturals, FiniteSets, FiniteSetsExt

CONSTANTS
  Alerts,      \* documents that become alerts
  Heartbeats,  \* documents whose rule.id is HEARTBEAT_RULE_ID
  Faulty,      \* documents without an id
  Pullers,     \* workers that may run the pull job
  Backfills,   \* runs of `backfill --since`
  Replays,     \* runs of `replay --archive-file`
  Archive,     \* the documents of that file
  PageSize,    \* PULL_PAGE
  Overlap,     \* PULL_OVERLAP_S
  Lateness,    \* how late after its timestamp a document may be indexed
  MaxPull,     \* how long a pull may take
  MaxTime      \* bound on the clock

Documents == Alerts \cup Heartbeats \cup Faulty
Sessions == Pullers \cup Backfills \cup Replays

ASSUME DocumentAssumption ==
  /\ Archive \subseteq Alerts \cup Heartbeats
  /\ Alerts \cap Heartbeats = {} /\ (Alerts \cup Heartbeats) \cap Faulty = {}
  /\ PageSize \in Nat \ {0}

\* What the overlap is for: a document indexed late, or while a pull is on
\* its way past it, is still inside the window of the next pull.
ASSUME OverlapAssumption ==
  /\ {Overlap, Lateness, MaxPull} \subseteq Nat /\ MaxTime \in Nat \ {0}
  /\ Lateness + MaxPull <= Overlap

VARIABLES
  now,      \* the clock
  stamp,    \* a document's timestamp in the indexer, 0 while it is not there
  rows,     \* intake
  receipt,  \* intake.outcome
  job,      \* jobs('pipeline', intake_id).status
  cursor,   \* source_cursor.last_sort, 0 for NULL
  loop,     \* the pull job: "armed", on "retry" after a failure, or "ended"
  at,       \* what a session does next
  start,    \* the cursor it read
  begun,    \* when a pull began
  after,    \* search_after, 0 for none
  page,     \* hits of its page still to store
  more,     \* whether the page was full
  final,    \* sort of the last hit stored
  new       \* rows it has inserted and not committed

tables == <<rows, receipt, job, cursor, loop>>
session == <<at, start, begun, after, page, more, final, new>>
vars == <<now, stamp, tables, session>>

Indexed(d) == stamp[d] # 0
Stamps(docs) == {stamp[d] : d \in docs}

Init ==
  /\ now = 1
  /\ stamp = [d \in Documents |-> 0]
  /\ rows = {}
  /\ receipt = [d \in Documents |-> "none"]
  /\ job = [d \in Documents |-> "none"]
  /\ cursor = 0
  /\ loop = "armed"
  /\ at = [s \in Sessions |-> "idle"]
  /\ start = [s \in Sessions |-> 0]
  /\ begun = [s \in Sessions |-> 0]
  /\ after = [s \in Sessions |-> 0]
  /\ page = [s \in Sessions |-> {}]
  /\ more = [s \in Sessions |-> FALSE]
  /\ final = [s \in Sessions |-> 0]
  /\ new = [s \in Sessions |-> {}]

-----------------------------------------------------------------------------
(* The indexer and the clock. *)

Index(d, t) ==
  /\ ~Indexed(d)
  /\ t + Lateness >= now
  /\ stamp' = [stamp EXCEPT ![d] = t]
  /\ UNCHANGED <<now, tables, session>>

Tick ==
  /\ now < MaxTime
  /\ \A p \in Pullers : at[p] = "idle" \/ now - begun[p] < MaxPull
  /\ now' = now + 1
  /\ UNCHANGED <<stamp, tables, session>>

-----------------------------------------------------------------------------
(* Sessions. *)

\* BEGIN; a pull reads the cursor, a backfill has none.  Two pulls are on
\* their way at once when the lease of the first ran out.
Begin(s) ==
  /\ at[s] = "idle"
  /\ s \in Pullers => loop # "ended"
  /\ at' = [at EXCEPT ![s] = IF s \in Replays THEN "replay" ELSE "fetch"]
  /\ start' = [start EXCEPT ![s] = IF s \in Pullers THEN cursor ELSE 0]
  /\ final' = [final EXCEPT ![s] = IF s \in Pullers THEN cursor ELSE 0]
  /\ begun' = [begun EXCEPT ![s] = IF s \in Pullers THEN now ELSE 0]
  /\ UNCHANGED <<now, stamp, tables, after, page, more, new>>

\* Mutant: the window starts at the cursor.
GteNoOverlap(c) == c

\* range.timestamp.gte
Gte(c) == IF c > Overlap THEN c - Overlap ELSE 0

Visible(s) ==
  {d \in Documents : /\ Indexed(d)
                     /\ stamp[d] >= Gte(start[s])
                     /\ stamp[d] > after[s]}

\* A page is a first part of what is visible, in timestamp order.
Pages(docs) ==
  {p \in SUBSET docs :
     /\ Cardinality(p) = PageSize \/ (p = docs /\ Cardinality(p) < PageSize)
     /\ \A x \in p, y \in docs \ p : stamp[x] <= stamp[y]}

Fetch(s) ==
  /\ at[s] = "fetch"
  /\ \E p \in Pages(Visible(s)) :
       /\ page' = [page EXCEPT ![s] = p]
       /\ more' = [more EXCEPT ![s] = Cardinality(p) = PageSize]
       /\ after' = [after EXCEPT ![s] = IF p = {} THEN @ ELSE Max(Stamps(p))]
       /\ at' = [at EXCEPT ![s] = IF p = {} THEN "commit" ELSE "store"]
  /\ UNCHANGED <<now, stamp, tables, start, begun, final, new>>

\* Another session has inserted the document and not committed.
Contended(s, d) == \E t \in Sessions \ {s} : d \in new[t]

Stores(s, d) ==
  /\ at[s] = "store"
  /\ d \in page[s] \ Faulty
  /\ ~Contended(s, d)
  /\ new' = [new EXCEPT ![s] = @ \cup ({d} \ rows)]
  /\ final' = [final EXCEPT ![s] = stamp[d]]
  /\ page' = [page EXCEPT ![s] = @ \ {d}]
  /\ at' = [at EXCEPT ![s] = IF page[s] # {d} THEN "store"
                             ELSE IF more[s] THEN "fetch" ELSE "commit"]
  /\ UNCHANGED <<now, stamp, tables, start, begun, after, more>>

First(s) == {d \in page[s] : stamp[d] = Min(Stamps(page[s]))}

\* Mutant: the hits of a page are stored in any order.
StoreOutOfOrder(s) == \E d \in page[s] : Stores(s, d)

\* The next hit: INSERT ... ON CONFLICT DO NOTHING, and a job beside the row.
Store(s) == \E d \in First(s) : Stores(s, d)

\* One line of the archive.
ReplayLine(s, d) ==
  /\ at[s] = "replay"
  /\ d \in Archive
  /\ ~Contended(s, d)
  /\ new' = [new EXCEPT ![s] = @ \cup ({d} \ rows)]
  /\ UNCHANGED <<now, stamp, tables, at, start, begun, after, page, more, final>>

Leaves(s) ==
  /\ at' = [at EXCEPT ![s] = "idle"]
  /\ start' = [start EXCEPT ![s] = 0]
  /\ begun' = [begun EXCEPT ![s] = 0]
  /\ after' = [after EXCEPT ![s] = 0]
  /\ page' = [page EXCEPT ![s] = {}]
  /\ more' = [more EXCEPT ![s] = FALSE]
  /\ final' = [final EXCEPT ![s] = 0]
  /\ new' = [new EXCEPT ![s] = {}]

\* New rows appear: an alert with a pipeline job, a heartbeat with a receipt.
Append(docs) ==
  /\ rows' = rows \cup docs
  /\ job' = [d \in Documents |-> IF d \in docs \cap Alerts THEN "live" ELSE job[d]]
  /\ receipt' = [d \in Documents |-> IF d \in docs \cap Heartbeats THEN "heartbeat" ELSE receipt[d]]

\* COMMIT of a pull or a backfill, or of a batch of replayed lines.  A pull is
\* re-armed in a second commit, which a crash prevents.
Commit(s) ==
  /\ at[s] \in {"commit", "replay"}
  /\ Append(new[s])
  /\ cursor' = IF s \in Pullers THEN final[s] ELSE cursor
  /\ loop' \in IF s \in Pullers THEN {"armed", "ended"} ELSE {loop}
  /\ Leaves(s)
  /\ UNCHANGED <<now, stamp>>

\* A refused connection, a 5xx, a lost database connection, a statement
\* timeout, a deadlock: all is rolled back.  A pull is tried again, unless it
\* was its last attempt or the answer was a 4xx.
Fails(s) ==
  /\ at[s] # "idle"
  /\ Leaves(s)
  /\ loop' \in IF s \in Pullers THEN {"retry", "ended"} ELSE {loop}
  /\ UNCHANGED <<now, stamp, rows, receipt, job, cursor>>

\* source["id"] raises KeyError, which is permanent: the pull job fails.
Poisoned(s) ==
  /\ at[s] = "store"
  /\ First(s) \cap Faulty # {}
  /\ Leaves(s)
  /\ loop' = IF s \in Pullers THEN "ended" ELSE loop
  /\ UNCHANGED <<now, stamp, rows, receipt, job, cursor>>

\* A worker starts and seeds the pull job.
Rearm ==
  /\ loop = "ended"
  /\ loop' = "armed"
  /\ UNCHANGED <<now, stamp, rows, receipt, job, cursor, session>>

-----------------------------------------------------------------------------
(* The webhook and the pipeline job. *)

\* Mutant: the row is inserted and no job is queued.
ReceiveUnqueued(d) ==
  /\ d \notin Faulty \cup rows
  /\ \A s \in Sessions : d \notin new[s]
  /\ rows' = rows \cup {d}
  /\ receipt' = [receipt EXCEPT ![d] = IF d \in Heartbeats THEN "heartbeat" ELSE @]
  /\ UNCHANGED <<now, stamp, job, cursor, loop, session>>

\* POST /webhook/alerts of a document not stored yet.  One stored already
\* changes nothing (409 for an alert), nor does a faulty one (400).
Receive(d) ==
  /\ d \notin Faulty \cup rows
  /\ \A s \in Sessions : d \notin new[s]
  /\ Append({d})
  /\ UNCHANGED <<now, stamp, cursor, loop, session>>

Pipeline(d, outcome, result) ==
  /\ job[d] = "live"
  /\ receipt' = [receipt EXCEPT ![d] = outcome]
  /\ job' = [job EXCEPT ![d] = result]
  /\ UNCHANGED <<now, stamp, rows, cursor, loop, session>>

\* The row becomes an alert, or the parser refuses it; the receipt and the end
\* of the job are one commit.
Process(d) ==
  /\ receipt[d] = "none"
  /\ \E outcome \in {"processed", "rejected"} : Pipeline(d, outcome, "succeeded")

\* A permanent error: the receipt is committed before the job is finished.
Reject(d) == receipt[d] = "none" /\ Pipeline(d, "rejected", "live")

\* The job after its receipt: failed, or run again once more and returning.
Finish(d) ==
  /\ receipt[d] # "none"
  /\ \E result \in {"failed", "succeeded"} : Pipeline(d, receipt[d], result)

\* Transient errors until JOB_MAX_ATTEMPTS.
Exhaust(d) == receipt[d] = "none" /\ Pipeline(d, "none", "failed")

Resolve(d) == Process(d) \/ Reject(d) \/ Finish(d) \/ Exhaust(d)

Work(s) ==
  \/ Fetch(s)
  \/ Store(s)
  \/ Commit(s)
  \/ Poisoned(s)

Next ==
  \/ \E d \in Documents, t \in 1..now : Index(d, t)
  \/ Tick
  \/ \E s \in Sessions : Begin(s) \/ Work(s) \/ Fails(s)
  \/ \E s \in Replays, d \in Archive : ReplayLine(s, d)
  \/ Rearm
  \/ \E d \in Documents : Receive(d) \/ Resolve(d)

Spec == Init /\ [][Next]_vars

(***************************************************************************)
(* An armed pull is claimed and a live pipeline job is run                 *)
(* (JobQueue!Settles).  A pull that waits for a row gets it when the one   *)
(* who holds it lets go, hence strong fairness, or times out.  Nothing is  *)
(* assumed of backfills, replays, the webhook or a restart.                *)
(***************************************************************************)
TimesOut(s) == (\E d \in page[s] : Contended(s, d)) /\ Fails(s)

Fairness ==
  /\ \A p \in Pullers : WF_vars(Begin(p)) /\ SF_vars(Work(p)) /\ WF_vars(TimesOut(p))
  /\ \A d \in Alerts : WF_vars(Resolve(d))

FairSpec == Spec /\ Fairness

-----------------------------------------------------------------------------
\* Type correctness of the tables and of the sessions.
TypeOK ==
  /\ now \in 1..MaxTime
  /\ stamp \in [Documents -> 0..MaxTime]
  /\ rows \subseteq Documents \ Faulty
  /\ receipt \in [Documents -> {"none", "heartbeat", "processed", "rejected"}]
  /\ job \in [Documents -> {"none", "live", "succeeded", "failed"}]
  /\ cursor \in 0..MaxTime
  /\ loop \in {"armed", "retry", "ended"}
  /\ at \in [Sessions -> {"idle", "fetch", "store", "commit", "replay"}]
  /\ start \in [Sessions -> 0..MaxTime]
  /\ begun \in [Sessions -> 0..MaxTime]
  /\ after \in [Sessions -> 0..MaxTime]
  /\ page \in [Sessions -> SUBSET Documents]
  /\ more \in [Sessions -> BOOLEAN]
  /\ final \in [Sessions -> 0..MaxTime]
  /\ new \in [Sessions -> SUBSET (Documents \ Faulty)]

Tied(d) == \E e \in Documents \ {d} : stamp[e] = stamp[d]
LeftBehind(d) == Indexed(d) /\ d \notin rows /\ stamp[d] < Gte(cursor)

\* A document indexed in time, whose timestamp no other document has, is
\* stored or still in the window of the next pull, whatever pages, failures,
\* overlapping pulls and late arrivals there were.
NothingLeftBehind == \A d \in Documents : LeftBehind(d) => Tied(d)

\* Every stored alert has its receipt, or a pipeline job that is live or has
\* used up its attempts; heartbeats are complete on arrival and never queued;
\* nothing else has a job or a receipt.
LedgerComplete ==
  \A d \in Documents :
    /\ d \in rows \cap Alerts /\ receipt[d] = "none" => job[d] \in {"live", "failed"}
    /\ d \in rows \cap Heartbeats => receipt[d] = "heartbeat"
    /\ d \notin rows => receipt[d] = "none"
    /\ d \notin rows \cap Alerts => job[d] = "none"

\* The cursor goes back only in a pull that another pull overtook
\* (puller.py, _update_cursor: "this never moves the cursor back").
CursorMovesOn ==
  [][cursor' < cursor => \E p \in Pullers : Commit(p) /\ start[p] # cursor]_vars

\* Once pulls have stopped failing, an alert the indexer shows is stored and
\* gets its receipt, or its job uses up its attempts.
AlertsAreResolved ==
  <>[](loop = "armed") =>
    \A d \in Alerts : Indexed(d) ~> Tied(d) \/ receipt[d] # "none" \/ job[d] = "failed"
=============================================================================
