------------------------------ MODULE JobQueue ------------------------------
(***************************************************************************)
(* The jobs table and the worker loop over it.                             *)
(*                                                                         *)
(* backend/app/infra/jobs.py gives the four statements on the table        *)
(* (enqueue, claim_job, finish_job, reclaim_stale), infra/worker.py the    *)
(* loop that calls them, web/worker.py the process that seeds the `pull`   *)
(* job and enters the loop.  One action is one committed transaction, or   *)
(* one event of the environment (a process dies, time passes).             *)
(*                                                                         *)
(* Time is abstracted to what the statements compare.  `due` holds the     *)
(* jobs whose scheduled_at has passed; ahead[j] the ones whose             *)
(* scheduled_at is earlier than j's, which is the order claim_job reads;   *)
(* `stale` the running jobs whose locked_at is older than                  *)
(* JOB_LOCK_TIMEOUT_S.  A job slot may be used again once its row is       *)
(* terminal and no worker still holds it: no statement reads such a row.   *)
(***************************************************************************)
EXTENDS Naturals, FiniteSets

CONSTANTS
  Workers,       \* worker processes (N_WORKER, and any second one started)
  Keys,          \* the (job_type, subject_id) pairs
  Pull,          \* the key ("pull", "indexer"), whose handler asks for a re-run
  NoKey,         \* not a key
  JobIds,        \* row slots of the jobs table
  NoJob,         \* not a slot
  MaxAttempts,   \* JOB_MAX_ATTEMPTS
  BackoffLen,    \* Len(JOB_BACKOFF)
  AttemptBound   \* attempts are counted up to here and no further

ASSUME KeyAssumption ==
  /\ Pull \in Keys
  /\ NoKey \notin Keys
  /\ NoJob \notin JobIds

\* docker-compose.yml starts one; a second may be started beside it.
ASSUME WorkerAssumption == Workers # {}

ASSUME AttemptAssumption ==
  /\ MaxAttempts \in Nat \ {0}
  /\ BackoffLen \in Nat
  /\ AttemptBound \in Nat
  /\ AttemptBound > MaxAttempts

VARIABLES
  key,        \* jobs.(job_type, subject_id)
  status,     \* jobs.status, "none" for a slot never used
  attempts,   \* jobs.attempts
  due,        \* jobs with scheduled_at <= now()
  ahead,      \* ahead[j]: due jobs with an earlier scheduled_at than j
  stale,      \* running jobs with locked_at < now() - JOB_LOCK_TIMEOUT_S
  pc,         \* where each worker is in run_forever
  held,       \* the Job object each worker got from claim_job
  \* What the properties remember and no statement reads:
  late,       \* jobs whose lease ran out while a worker was still on them
  reclaimed,  \* jobs that reclaim_stale has returned to pending
  exhausted,  \* jobs with a job.exhausted audit row
  pullFailed  \* the pull job ended `failed` and no pull job was inserted since

rowVars == <<key, status, attempts, due, ahead, stale>>
ghosts == <<late, reclaimed, exhausted, pullFailed>>
vars == <<key, status, attempts, due, ahead, stale, pc, held,
          late, reclaimed, exhausted, pullFailed>>

Statuses == {"none", "pending", "running", "succeeded", "failed"}
PCs == {"down", "reclaim", "claim", "run", "rearm"}
Claims == [job : JobIds, attempts : 1..AttemptBound]
NoClaim == [job |-> NoJob, attempts |-> 0]

Live(j) == status[j] \in {"pending", "running"}
LiveKey(k) == \E j \in JobIds : Live(j) /\ key[j] = k
Holds(w, j) == pc[w] = "run" /\ held[w].job = j
Held(j) == \E w \in Workers : Holds(w, j)

(***************************************************************************)
(* INSERT ... ON CONFLICT (job_type, subject_id) WHERE status IN           *)
(* ('pending','running') DO NOTHING: no row while a live one has the key.  *)
(***************************************************************************)
Free(j) == ~Live(j) /\ ~Held(j)
FreeSlot == CHOOSE j \in JobIds : Free(j)
\* Mutant: the index covers pending rows only.
ConflictsPendingOnly(k) == \E j \in JobIds : status[j] = "pending" /\ key[j] = k
Conflicts(k) == LiveKey(k)
Inserted(k) == IF k = NoKey \/ Conflicts(k) THEN {} ELSE {FreeSlot}
HasSlot(k) == k = NoKey \/ Conflicts(k) \/ \E j \in JobIds : Free(j)

\* The columns of the inserted row other than status and scheduled_at.
Insert(k) ==
  LET new == Inserted(k) IN
  /\ HasSlot(k)
  /\ key' = [j \in JobIds |-> IF j \in new THEN k ELSE key[j]]
  /\ attempts' = [j \in JobIds |-> IF j \in new THEN 0 ELSE attempts[j]]
  /\ late' = late \ new
  /\ reclaimed' = reclaimed \ new
  /\ exhausted' = exhausted \ new

\* scheduled_at moves: `gone` leave the due order, `come` join at its end.
Order(gone, come) ==
  /\ due' = (due \ gone) \cup come
  /\ ahead' = [j \in JobIds |-> IF j \in gone THEN {}
                               ELSE IF j \in come THEN due \ gone
                               ELSE ahead[j] \ gone]

SetStatus(jobs, s) == [j \in JobIds |-> IF j \in jobs THEN s ELSE status[j]]

-----------------------------------------------------------------------------
Init ==
  /\ key = [j \in JobIds |-> NoKey]
  /\ status = [j \in JobIds |-> "none"]
  /\ attempts = [j \in JobIds |-> 0]
  /\ due = {}
  /\ ahead = [j \in JobIds |-> {}]
  /\ stale = {}
  /\ pc = [w \in Workers |-> "down"]
  /\ held = [w \in Workers |-> NoClaim]
  /\ late = {}
  /\ reclaimed = {}
  /\ exhausted = {}
  /\ pullFailed = FALSE

\* The webhook, the puller or another handler queues work, due at once.
Enqueue(k) ==
  /\ k # Pull
  /\ Insert(k)
  /\ status' = SetStatus(Inserted(k), "pending")
  /\ Order({}, Inserted(k))
  /\ UNCHANGED <<stale, pc, held, pullFailed>>

\* Mutant: the process enters the loop without seeding the pull job.
StartUnseeded(w) ==
  /\ pc[w] = "down"
  /\ pc' = [pc EXCEPT ![w] = "reclaim"]
  /\ UNCHANGED <<rowVars, held, ghosts>>

\* main(): seed the pull job, commit, enter the loop.
Start(w) ==
  /\ pc[w] = "down"
  /\ Insert(Pull)
  /\ status' = SetStatus(Inserted(Pull), "pending")
  /\ Order({}, Inserted(Pull))
  /\ pc' = [pc EXCEPT ![w] = "reclaim"]
  /\ pullFailed' = FALSE
  /\ UNCHANGED <<stale, held>>

Requeue(w, old) ==
  /\ pc[w] = "reclaim"
  /\ status' = SetStatus(old, "pending")
  /\ stale' = stale \ old
  /\ reclaimed' = reclaimed \cup old
  /\ pc' = [pc EXCEPT ![w] = "claim"]
  /\ UNCHANGED <<key, attempts, due, ahead, held, late, exhausted, pullFailed>>

Running == {j \in JobIds : status[j] = "running"}

\* Mutants: every running job is taken back, or none is.
ReclaimRunning(w) == Requeue(w, Running)
ReclaimNothing(w) == Requeue(w, {})

\* reclaim_stale and its commit.
Reclaim(w) == Requeue(w, stale \cap Running)

\* The oldest pending job that is due, attempts + 1, and the commit.
Claimable(j) ==
  /\ status[j] = "pending"
  /\ j \in due
  /\ \A i \in ahead[j] : status[i] # "pending"

Counted(n) == IF n < AttemptBound THEN n + 1 ELSE n

Claim(w, j) ==
  /\ pc[w] = "claim"
  /\ Claimable(j)
  /\ status' = SetStatus({j}, "running")
  /\ attempts' = [attempts EXCEPT ![j] = Counted(attempts[j])]
  /\ stale' = stale \ {j}
  /\ held' = [held EXCEPT ![w] = [job |-> j, attempts |-> Counted(attempts[j])]]
  /\ pc' = [pc EXCEPT ![w] = "run"]
  /\ UNCHANGED <<key, due, ahead, ghosts>>

\* claim_job returns None; the worker sleeps and starts over.
ClaimNone(w) ==
  /\ pc[w] = "claim"
  /\ \A j \in JobIds : ~Claimable(j)
  /\ pc' = [pc EXCEPT ![w] = "reclaim"]
  /\ UNCHANGED <<rowVars, held, ghosts>>

LetGo(w, where) ==
  /\ pc' = [pc EXCEPT ![w] = where]
  /\ held' = [held EXCEPT ![w] = NoClaim]

\* Mutant: the re-arm is enqueued in the handler's own transaction, where the
\* row of the run that asks for it is still live and the insert conflicts.
HandlerSucceedsRearmsEarly(w, follow) ==
  LET j == held[w].job IN
  /\ pc[w] = "run"
  /\ follow # Pull
  /\ Insert(follow)
  /\ status' = [i \in JobIds |-> IF i = j THEN "succeeded"
                                 ELSE IF i \in Inserted(follow) THEN "pending"
                                 ELSE status[i]]
  /\ Order({j}, Inserted(follow))
  /\ stale' = stale \ {j}
  /\ LetGo(w, "reclaim")
  /\ UNCHANGED pullFailed

\* The handler returns: what it wrote, the job it queued (follow, or NoKey)
\* and finish_job(succeeded) commit together.  The UPDATE names job_id only:
\* whatever the row says by now, it says succeeded after.
HandlerSucceeds(w, follow) ==
  LET j == held[w].job IN
  /\ pc[w] = "run"
  /\ follow # Pull
  /\ Insert(follow)
  /\ status' = [i \in JobIds |-> IF i = j THEN "succeeded"
                                 ELSE IF i \in Inserted(follow) THEN "pending"
                                 ELSE status[i]]
  /\ Order({j}, Inserted(follow))
  /\ stale' = stale \ {j}
  /\ LetGo(w, IF key[j] = Pull THEN "rearm" ELSE "reclaim")
  /\ UNCHANGED pullFailed

\* Reschedule: enqueue again with a delay, only after `succeeded` committed.
Rearm(w) ==
  /\ pc[w] = "rearm"
  /\ Insert(Pull)
  /\ status' = SetStatus(Inserted(Pull), "pending")
  /\ Order(Inserted(Pull), {})
  /\ pc' = [pc EXCEPT ![w] = "reclaim"]
  /\ pullFailed' = FALSE
  /\ UNCHANGED <<stale, held>>

FinishAs(w, s) ==
  LET j == held[w].job IN
  /\ status' = SetStatus({j}, s)
  /\ Order({j}, {})
  /\ stale' = stale \ {j}
  /\ pullFailed' = (pullFailed \/ key[j] = Pull)
  /\ LetGo(w, "reclaim")
  /\ UNCHANGED <<key, attempts, late, reclaimed>>

\* finish_job writes `failed`, in a transaction of its own after the rollback.
Fail(w) == FinishAs(w, "failed")

FailPermanent(w) ==
  /\ pc[w] = "run"
  /\ Fail(w)
  /\ UNCHANGED exhausted

\* Mutant: the audit row is written and the job is queued again.
ExhaustRequeues(w) ==
  /\ pc[w] = "run"
  /\ held[w].attempts >= MaxAttempts
  /\ FinishAs(w, "pending")
  /\ exhausted' = exhausted \cup {held[w].job}

\* A transient error on the last attempt: failed and a job.exhausted row.
\* finish_job reads the attempts of the claim, not those of the row.
Exhaust(w) ==
  /\ pc[w] = "run"
  /\ held[w].attempts >= MaxAttempts
  /\ Fail(w)
  /\ exhausted' = exhausted \cup {held[w].job}

OtherLive(j) == \E i \in JobIds \ {j} : Live(i) /\ key[i] = key[j]

Backoff(w) ==
  LET j == held[w].job IN
  /\ pc[w] = "run"
  /\ held[w].attempts <= BackoffLen
  /\ ~OtherLive(j)
  /\ status' = SetStatus({j}, "pending")
  /\ Order({j}, {})
  /\ stale' = stale \ {j}
  /\ LetGo(w, "reclaim")
  /\ UNCHANGED <<key, attempts, ghosts>>

\* Mutant: one attempt too many.
RetryOffByOne(w) == held[w].attempts <= MaxAttempts /\ Backoff(w)

\* A transient error with attempts left: pending again, JOB_BACKOFF later.
Retry(w) == held[w].attempts < MaxAttempts /\ Backoff(w)

\* The same branch when finish_job itself raises: JOB_BACKOFF is too short
\* (IndexError), or the partial unique index refuses a second live row
\* (UniqueViolation).  It raises inside the except block: the loop ends.
RetryRaises(w) ==
  LET j == held[w].job IN
  /\ pc[w] = "run"
  /\ held[w].attempts < MaxAttempts
  /\ held[w].attempts > BackoffLen \/ OtherLive(j)
  /\ LetGo(w, "down")
  /\ UNCHANGED <<rowVars, ghosts>>

\* The process or its connection dies; an open transaction rolls back.
Crash(w) ==
  /\ pc[w] # "down"
  /\ LetGo(w, "down")
  /\ UNCHANGED <<rowVars, ghosts>>

\* now() passes locked_at + JOB_LOCK_TIMEOUT_S.
LeaseExpires(j) ==
  /\ status[j] = "running"
  /\ j \notin stale
  /\ stale' = stale \cup {j}
  /\ late' = IF Held(j) THEN late \cup {j} ELSE late
  /\ UNCHANGED <<key, status, attempts, due, ahead, pc, held,
                 reclaimed, exhausted, pullFailed>>

\* now() passes scheduled_at.
BackoffElapses(j) ==
  /\ status[j] = "pending"
  /\ j \notin due
  /\ Order({}, {j})
  /\ UNCHANGED <<key, status, attempts, stale, pc, held, ghosts>>

\* Everything a running handler can end in, and what follows it.
HandlerEnds(w) ==
  \/ \E follow \in Keys \cup {NoKey} : HandlerSucceeds(w, follow)
  \/ FailPermanent(w)
  \/ Exhaust(w)
  \/ Retry(w)
  \/ RetryRaises(w)

LoopStep(w) ==
  \/ Reclaim(w)
  \/ \E j \in JobIds : Claim(w, j)
  \/ ClaimNone(w)
  \/ HandlerEnds(w)
  \/ Rearm(w)

Next ==
  \/ \E k \in Keys : Enqueue(k)
  \/ \E w \in Workers : Start(w) \/ LoopStep(w) \/ Crash(w)
  \/ \E j \in JobIds : LeaseExpires(j) \/ BackoffElapses(j)

Spec == Init /\ [][Next]_vars

(***************************************************************************)
(* Time passes; a started loop keeps running, and its handlers return or   *)
(* raise (statement_timeout, HTTP and LLM timeouts bound every wait); a    *)
(* dead worker is started again (docker-compose.yml, restart:              *)
(* unless-stopped).  Nothing is assumed of Enqueue or Crash.               *)
(***************************************************************************)
Fairness ==
  /\ \A w \in Workers : WF_vars(LoopStep(w)) /\ WF_vars(Start(w))
  /\ \A j \in JobIds : WF_vars(LeaseExpires(j)) /\ WF_vars(BackoffElapses(j))

FairSpec == Spec /\ Fairness

-----------------------------------------------------------------------------
\* Type correctness of the table columns and of the workers' local state.
TypeOK ==
  /\ key \in [JobIds -> Keys \cup {NoKey}]
  /\ status \in [JobIds -> Statuses]
  /\ attempts \in [JobIds -> 0..AttemptBound]
  /\ due \subseteq JobIds
  /\ ahead \in [JobIds -> SUBSET JobIds]
  /\ stale \subseteq JobIds
  /\ pc \in [Workers -> PCs]
  /\ held \in [Workers -> Claims \cup {NoClaim}]
  /\ late \subseteq JobIds
  /\ reclaimed \subseteq JobIds
  /\ exhausted \subseteq JobIds
  /\ pullFailed \in BOOLEAN

\* At most one live job per (job_type, subject_id), through every insert,
\* re-queue, reclaim and re-arm (012_d0d7.sql: two live jobs of one kind and
\* subject are what the partial index exists to forbid).
OneLivePerKey ==
  \A i, j \in JobIds : Live(i) /\ Live(j) /\ key[i] = key[j] => i = j

\* A job whose lease never ran out under a worker is run by one worker only,
\* and the row says `running` for as long as it is (jobs.py: "concurrent
\* workers never block on each other or double-claim").
LeaseExclusive ==
  \A w \in Workers, j \in JobIds \ late : Holds(w, j) =>
    /\ status[j] = "running"
    /\ \A v \in Workers : Holds(v, j) => v = w

\* JOB_MAX_ATTEMPTS bounds the runs of a job that reclaim_stale never
\* returned: it is not queued again after its last attempt.
AttemptCap ==
  \A j \in JobIds \ reclaimed :
    /\ attempts[j] <= MaxAttempts
    /\ status[j] = "pending" => attempts[j] < MaxAttempts

\* A job with a job.exhausted row used up its attempts and is failed for
\* good, unless a worker finished it after losing its lease.
ExhaustedIsFinal ==
  \A j \in exhausted \ late : status[j] = "failed" /\ attempts[j] >= MaxAttempts

\* jobs.attempts tells the truth: it bounds the runs of a job, and a job
\* reported exhausted has used them up and will not run again.
AttemptsCounted == AttemptCap /\ ExhaustedIsFinal

\* The pull loop is armed: a pull job is live, or a worker is about to
\* re-arm it, or a worker that is down will seed it when it starts; only a
\* pull job that ended failed leaves the loop unarmed.
PullArmed ==
  \/ LiveKey(Pull)
  \/ \E w \in Workers : pc[w] \in {"rearm", "down"}
  \/ pullFailed

\* finish_job ends a worker loop only on a job whose lease that worker lost
\* (or when JOB_BACKOFF is shorter than the retries it must cover).
KilledOnlyWhenLate ==
  [][\A w \in Workers : RetryRaises(w) =>
        held[w].job \in late \/ BackoffLen < MaxAttempts - 1]_vars

\* Every live job ends succeeded or failed, whatever order jobs arrive and
\* fail in, as long as workers do not crash again and again forever.
Settles ==
  \/ []<><<\E w \in Workers : Crash(w)>>_vars
  \/ \A j \in JobIds : Live(j) ~> ~Live(j)

\* Unless workers crash forever or the last pull job ended failed for good,
\* the source is polled again and again.
PullPolls ==
  \/ []<><<\E w \in Workers : Crash(w)>>_vars
  \/ <>[]pullFailed
  \/ []<>LiveKey(Pull)
=============================================================================
