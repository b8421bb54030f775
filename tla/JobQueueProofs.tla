--------------------------- MODULE JobQueueProofs ---------------------------
(***************************************************************************)
(* Proofs about JobQueue for any set of workers, keys and row slots and    *)
(* any JOB_MAX_ATTEMPTS and JOB_BACKOFF.                                   *)
(*                                                                         *)
(* The claim of a worker and the row it names agree for as long as the     *)
(* lease was not lost.  LeaseInv and ReclaimInv say so, in the two senses  *)
(* the properties need: until the lease ran out under a worker, and until  *)
(* reclaim_stale took the row back.                                        *)
(***************************************************************************)
EXTENDS JobQueue, TLAPS

\* A worker that runs a handler has a claim.
RunHasClaim == \A w \in Workers : pc[w] = "run" => held[w] \in Claims

\* The row is still what the claim of w made of it, and w's alone.
Exclusive(w, j) ==
  /\ status[j] = "running"
  /\ attempts[j] = held[w].attempts
  /\ \A v \in Workers : Holds(v, j) => v = w

LeaseInv ==
  \A w \in Workers, j \in JobIds \ late :
    Holds(w, j) => Exclusive(w, j) /\ j \notin stale

ReclaimInv ==
  \A w \in Workers, j \in JobIds \ reclaimed : Holds(w, j) => Exclusive(w, j)

Typed == TypeOK /\ RunHasClaim

-----------------------------------------------------------------------------
\* The slot an insert takes exists, is not live and is nobody's claim.
LEMMA InsertedFree ==
  ASSUME NEW k, HasSlot(k)
  PROVE  \A j \in Inserted(k) : j \in JobIds /\ Free(j)
<1>1. CASE k = NoKey \/ Conflicts(k)
  BY <1>1 DEF Inserted
<1>2. CASE ~(k = NoKey \/ Conflicts(k))
  <2>1. \E j \in JobIds : Free(j)
    BY <1>2 DEF HasSlot
  <2>2. FreeSlot \in JobIds /\ Free(FreeSlot)
    BY <2>1 DEF FreeSlot
  <2> QED
    BY <1>2, <2>2 DEF Inserted
<1> QED
  BY <1>1, <1>2

\* Type correctness of the columns an insert writes.
LEMMA InsertTyped ==
  ASSUME TypeOK, NEW k \in Keys \cup {NoKey}, Insert(k)
  PROVE  /\ key' \in [JobIds -> Keys \cup {NoKey}]
         /\ attempts' \in [JobIds -> 0..AttemptBound]
         /\ late' \subseteq JobIds
         /\ reclaimed' \subseteq JobIds
         /\ exhausted' \subseteq JobIds
         /\ Inserted(k) \subseteq JobIds
<1>1. Inserted(k) \subseteq JobIds
  BY InsertedFree DEF Insert
<1>2. k \in Keys \cup {NoKey} /\ 0 \in 0..AttemptBound
  BY AttemptAssumption
<1> QED
  BY <1>1, <1>2 DEF Insert, TypeOK

\* Type correctness of the two columns that abstract scheduled_at.
LEMMA OrderTyped ==
  ASSUME TypeOK, NEW gone \in SUBSET JobIds, NEW come \in SUBSET JobIds,
         Order(gone, come)
  PROVE  due' \subseteq JobIds /\ ahead' \in [JobIds -> SUBSET JobIds]
  BY DEF Order, TypeOK

LEMMA StatusTyped ==
  ASSUME TypeOK, NEW jobs, NEW s \in Statuses
  PROVE  SetStatus(jobs, s) \in [JobIds -> Statuses]
  BY DEF SetStatus, TypeOK

\* Type correctness of a worker that ends its run.
LEMMA LetGoTyped ==
  ASSUME Typed, NEW w \in Workers, NEW where \in PCs \ {"run"}, LetGo(w, where)
  PROVE  /\ pc' \in [Workers -> PCs]
         /\ held' \in [Workers -> Claims \cup {NoClaim}]
         /\ RunHasClaim'
  BY DEF LetGo, Typed, TypeOK, RunHasClaim

LEMMA InitTyped == Init => Typed
<1> SUFFICES ASSUME Init PROVE Typed
  OBVIOUS
<1>1. RunHasClaim
  BY DEF Init, RunHasClaim
<1>2. attempts \in [JobIds -> 0..AttemptBound]
  BY AttemptAssumption DEF Init
<1>3. held \in [Workers -> Claims \cup {NoClaim}]
  BY DEF Init
<1>4. TypeOK
  BY <1>2, <1>3 DEF Init, TypeOK, Statuses, PCs
<1> QED
  BY <1>1, <1>4 DEF Typed

-----------------------------------------------------------------------------
\* Every step keeps the columns and the claims well typed.
LEMMA StepTyped == Typed /\ [Next]_vars => Typed'
<1> SUFFICES ASSUME Typed, [Next]_vars PROVE Typed'
  OBVIOUS
<1> USE DEF Typed
<1>1. ASSUME NEW k \in Keys \cup {NoKey}, Insert(k)
      PROVE  /\ key' \in [JobIds -> Keys \cup {NoKey}]
             /\ attempts' \in [JobIds -> 0..AttemptBound]
             /\ late' \subseteq JobIds
             /\ reclaimed' \subseteq JobIds
             /\ exhausted' \subseteq JobIds
             /\ Inserted(k) \subseteq JobIds
  BY <1>1, InsertTyped
<1>2. ASSUME NEW gone \in SUBSET JobIds, NEW come \in SUBSET JobIds, Order(gone, come)
      PROVE  due' \subseteq JobIds /\ ahead' \in [JobIds -> SUBSET JobIds]
  BY <1>2, OrderTyped
<1>3. ASSUME NEW w \in Workers, NEW where \in PCs \ {"run"}, LetGo(w, where)
      PROVE  /\ pc' \in [Workers -> PCs]
             /\ held' \in [Workers -> Claims \cup {NoClaim}]
             /\ RunHasClaim'
  BY <1>3, LetGoTyped
<1>4. ASSUME NEW jobs, NEW s \in Statuses
      PROVE  SetStatus(jobs, s) \in [JobIds -> Statuses]
  BY <1>4, StatusTyped
<1>5. ASSUME NEW w \in Workers, pc[w] = "run"
      PROVE  held[w].job \in JobIds /\ held[w].attempts \in 1..AttemptBound
  BY <1>5 DEF RunHasClaim, Claims
<1>6. ASSUME NEW k \in Keys, Enqueue(k) PROVE Typed'
  <2>1. Insert(k) /\ Order({}, Inserted(k)) /\ status' \in [JobIds -> Statuses]
    BY <1>6, <1>4 DEF Enqueue, Statuses
  <2> QED
    BY <2>1, <1>1, <1>2, <1>6 DEF Enqueue, TypeOK, RunHasClaim
<1>7. ASSUME NEW w \in Workers, Start(w) PROVE Typed'
  <2>1. Insert(Pull) /\ Order({}, Inserted(Pull)) /\ status' \in [JobIds -> Statuses]
    BY <1>7, <1>4 DEF Start, Statuses
  <2>2. pc' \in [Workers -> PCs] /\ RunHasClaim'
    BY <1>7 DEF Start, TypeOK, RunHasClaim, PCs
  <2> QED
    BY <2>1, <2>2, <1>1, <1>2, <1>7, KeyAssumption DEF Start, TypeOK
<1>8. ASSUME NEW w \in Workers, Reclaim(w) PROVE Typed'
  <2>1. status' \in [JobIds -> Statuses]
    BY <1>8, <1>4 DEF Reclaim, Requeue, Statuses
  <2>2. pc' \in [Workers -> PCs] /\ RunHasClaim'
    BY <1>8 DEF Reclaim, Requeue, TypeOK, RunHasClaim, PCs
  <2> QED
    BY <2>1, <2>2, <1>8 DEF Reclaim, Requeue, Running, TypeOK
<1>9. ASSUME NEW w \in Workers, NEW j \in JobIds, Claim(w, j) PROVE Typed'
  <2>1. Counted(attempts[j]) \in 1..AttemptBound
    BY AttemptAssumption DEF Counted, TypeOK
  <2>2. /\ attempts' \in [JobIds -> 0..AttemptBound]
        /\ held' \in [Workers -> Claims \cup {NoClaim}]
        /\ held'[w] \in Claims
    BY <2>1, <1>9 DEF Claim, TypeOK, Claims
  <2>3. pc' \in [Workers -> PCs] /\ RunHasClaim'
    BY <2>2, <1>9 DEF Claim, TypeOK, RunHasClaim, PCs
  <2>4. status' \in [JobIds -> Statuses]
    BY <1>9, <1>4 DEF Claim, Statuses
  <2> QED
    BY <2>2, <2>3, <2>4, <1>9 DEF Claim, TypeOK, ghosts
<1>10. ASSUME NEW w \in Workers, ClaimNone(w) PROVE Typed'
  BY <1>10 DEF ClaimNone, TypeOK, RunHasClaim, PCs, rowVars, ghosts
<1>11. ASSUME NEW w \in Workers, NEW follow \in Keys \cup {NoKey}, HandlerSucceeds(w, follow)
       PROVE  Typed'
  <2> DEFINE j == held[w].job
  <2>1. Insert(follow) /\ j \in JobIds /\ Order({j}, Inserted(follow))
    BY <1>11, <1>5 DEF HandlerSucceeds
  <2>2. status' \in [JobIds -> Statuses]
    BY <1>11 DEF HandlerSucceeds, TypeOK, Statuses
  <2>3. \E where \in PCs \ {"run"} : LetGo(w, where)
    BY <1>11 DEF HandlerSucceeds, PCs
  <2>4. stale' \subseteq JobIds /\ pullFailed' \in BOOLEAN
    BY <1>11 DEF HandlerSucceeds, TypeOK
  <2> QED
    BY <2>1, <2>2, <2>3, <2>4, <1>1, <1>2, <1>3 DEF TypeOK
<1>12. ASSUME NEW w \in Workers, Rearm(w) PROVE Typed'
  <2>1. Insert(Pull) /\ Order(Inserted(Pull), {}) /\ status' \in [JobIds -> Statuses]
    BY <1>12, <1>4 DEF Rearm, Statuses
  <2>2. pc' \in [Workers -> PCs] /\ RunHasClaim'
    BY <1>12 DEF Rearm, TypeOK, RunHasClaim, PCs
  <2> QED
    BY <2>1, <2>2, <1>1, <1>2, <1>12, KeyAssumption DEF Rearm, TypeOK
<1>13. ASSUME NEW w \in Workers, pc[w] = "run", Fail(w), exhausted' \subseteq JobIds
       PROVE  Typed'
  <2> DEFINE j == held[w].job
  <2>1. j \in JobIds /\ Order({j}, {}) /\ LetGo(w, "reclaim") /\ status' \in [JobIds -> Statuses]
    BY <1>13, <1>4, <1>5 DEF Fail, FinishAs, Statuses
  <2>2. stale' \subseteq JobIds /\ pullFailed' \in BOOLEAN
    BY <1>13 DEF Fail, FinishAs, TypeOK
  <2>3. due' \subseteq JobIds /\ ahead' \in [JobIds -> SUBSET JobIds]
    BY <2>1, <1>2
  <2>4. /\ pc' \in [Workers -> PCs]
        /\ held' \in [Workers -> Claims \cup {NoClaim}]
        /\ RunHasClaim'
    BY <2>1, <1>3 DEF PCs
  <2> QED
    BY <2>1, <2>2, <2>3, <2>4, <1>13 DEF Fail, FinishAs, TypeOK
<1>14. ASSUME NEW w \in Workers, FailPermanent(w) \/ Exhaust(w) PROVE Typed'
  <2>1. pc[w] = "run" /\ Fail(w) /\ exhausted' \subseteq JobIds
    BY <1>14, <1>5 DEF FailPermanent, Exhaust, TypeOK
  <2> QED
    BY <2>1, <1>13
<1>15. ASSUME NEW w \in Workers, Retry(w) PROVE Typed'
  <2> DEFINE j == held[w].job
  <2>1. j \in JobIds /\ Order({j}, {}) /\ LetGo(w, "reclaim") /\ status' \in [JobIds -> Statuses]
    BY <1>15, <1>4, <1>5 DEF Retry, Backoff, Statuses
  <2>2. stale' \subseteq JobIds
    BY <1>15 DEF Retry, Backoff, TypeOK
  <2>3. due' \subseteq JobIds /\ ahead' \in [JobIds -> SUBSET JobIds]
    BY <2>1, <1>2
  <2>4. /\ pc' \in [Workers -> PCs]
        /\ held' \in [Workers -> Claims \cup {NoClaim}]
        /\ RunHasClaim'
    BY <2>1, <1>3 DEF PCs
  <2> QED
    BY <2>1, <2>2, <2>3, <2>4, <1>15 DEF Retry, Backoff, TypeOK, ghosts
<1>16. ASSUME NEW w \in Workers, RetryRaises(w) \/ Crash(w) PROVE Typed'
  <2>1. LetGo(w, "down") /\ UNCHANGED <<rowVars, ghosts>>
    BY <1>16 DEF RetryRaises, Crash
  <2> QED
    BY <2>1, <1>3 DEF TypeOK, PCs, rowVars, ghosts
<1>17. ASSUME NEW j \in JobIds, LeaseExpires(j) PROVE Typed'
  BY <1>17 DEF LeaseExpires, TypeOK, RunHasClaim
<1>18. ASSUME NEW j \in JobIds, BackoffElapses(j) PROVE Typed'
  <2>1. Order({}, {j})
    BY <1>18 DEF BackoffElapses
  <2> QED
    BY <2>1, <1>2, <1>18 DEF BackoffElapses, TypeOK, RunHasClaim, ghosts
<1>19. CASE UNCHANGED vars
  BY <1>19 DEF vars, TypeOK, RunHasClaim
<1> QED
  BY <1>6, <1>7, <1>8, <1>9, <1>10, <1>11, <1>12, <1>14, <1>15, <1>16, <1>17, <1>18, <1>19
     DEF Next, LoopStep, HandlerEnds

\* The columns of the jobs table and the workers' claims are always well typed.
THEOREM TypeCorrect == Spec => []TypeOK
<1>1. Spec => []Typed
  BY InitTyped, StepTyped, PTL DEF Spec
<1>2. Typed => TypeOK
  BY DEF Typed
<1> QED
  BY <1>1, <1>2, PTL

-----------------------------------------------------------------------------
\* What an insert does to the rows, one fact per column.
LEMMA InsertRows ==
  ASSUME Typed, NEW k \in Keys \cup {NoKey}, Insert(k)
  PROVE  /\ \A j \in JobIds \ Inserted(k) : key'[j] = key[j] /\ attempts'[j] = attempts[j]
         /\ \A j \in Inserted(k) : /\ j \in JobIds
                                  /\ key'[j] = k
                                  /\ attempts'[j] = 0
                                  /\ ~Live(j)
                                  /\ ~Held(j)
         /\ \A i, j \in Inserted(k) : i = j
         /\ Inserted(k) # {} => ~LiveKey(k)
         /\ k # NoKey => LiveKey(k) \/ Inserted(k) # {}
<1>1. \A j \in Inserted(k) : j \in JobIds /\ Free(j)
  BY InsertedFree DEF Insert
<1>2. \A i, j \in Inserted(k) : i = j
  BY DEF Inserted
<1>3. Inserted(k) # {} => ~LiveKey(k)
  BY DEF Inserted, Conflicts
<1>4. k # NoKey => LiveKey(k) \/ Inserted(k) # {}
  BY DEF Inserted, Conflicts
<1> QED
  BY <1>1, <1>2, <1>3, <1>4 DEF Insert, Free

\* One live row per key survives an insert, whatever else the step ends.
LEMMA OneLiveInsert ==
  ASSUME Typed, OneLivePerKey, NEW k \in Keys \cup {NoKey}, Insert(k),
         \A j \in JobIds : Live(j)' => Live(j) \/ j \in Inserted(k)
  PROVE  OneLivePerKey'
<1> SUFFICES ASSUME NEW i \in JobIds, NEW j \in JobIds,
                    Live(i)', Live(j)', key'[i] = key'[j]
             PROVE  i = j
  BY DEF OneLivePerKey
<1>1. CASE i \in Inserted(k) /\ j \in Inserted(k)
  BY <1>1, InsertRows
<1>2. CASE i \notin Inserted(k) /\ j \notin Inserted(k)
  BY <1>2, InsertRows DEF OneLivePerKey
<1>3. CASE i \in Inserted(k) /\ j \notin Inserted(k)
  BY <1>3, InsertRows DEF LiveKey
<1>4. CASE i \notin Inserted(k) /\ j \in Inserted(k)
  BY <1>4, InsertRows DEF LiveKey
<1> QED
  BY <1>1, <1>2, <1>3, <1>4

\* ... and every step that makes no row live.
LEMMA OneLiveKept ==
  ASSUME OneLivePerKey, UNCHANGED key, \A j \in JobIds : Live(j)' => Live(j)
  PROVE  OneLivePerKey'
  BY DEF OneLivePerKey

LEMMA OneLiveStep == Typed /\ OneLivePerKey /\ [Next]_vars => OneLivePerKey'
<1> SUFFICES ASSUME Typed, OneLivePerKey, [Next]_vars PROVE OneLivePerKey'
  OBVIOUS
<1>1. ASSUME NEW k \in Keys, Enqueue(k) PROVE OneLivePerKey'
  <2>1. Insert(k) /\ \A j \in JobIds : Live(j)' => Live(j) \/ j \in Inserted(k)
    BY <1>1 DEF Enqueue, SetStatus, Live
  <2> QED
    BY <2>1, OneLiveInsert
<1>2. ASSUME NEW w \in Workers, Start(w) \/ Rearm(w) PROVE OneLivePerKey'
  <2>1. Insert(Pull) /\ \A j \in JobIds : Live(j)' => Live(j) \/ j \in Inserted(Pull)
    BY <1>2 DEF Start, Rearm, SetStatus, Live
  <2> QED
    BY <2>1, OneLiveInsert, KeyAssumption
<1>3. ASSUME NEW w \in Workers, NEW follow \in Keys \cup {NoKey}, HandlerSucceeds(w, follow)
      PROVE  OneLivePerKey'
  <2>1. Insert(follow) /\ \A j \in JobIds : Live(j)' => Live(j) \/ j \in Inserted(follow)
    BY <1>3 DEF HandlerSucceeds, Live
  <2> QED
    BY <2>1, OneLiveInsert
<1>4. ASSUME NEW w \in Workers, Reclaim(w) PROVE OneLivePerKey'
  <2>1. UNCHANGED key /\ \A j \in JobIds : Live(j)' => Live(j)
    BY <1>4 DEF Reclaim, Requeue, Running, SetStatus, Live
  <2> QED
    BY <2>1, OneLiveKept
<1>5. ASSUME NEW w \in Workers, NEW j \in JobIds, Claim(w, j) PROVE OneLivePerKey'
  <2>1. UNCHANGED key /\ \A i \in JobIds : Live(i)' => Live(i)
    BY <1>5 DEF Claim, Claimable, SetStatus, Live
  <2> QED
    BY <2>1, OneLiveKept
<1>6. ASSUME NEW w \in Workers, FailPermanent(w) \/ Exhaust(w) PROVE OneLivePerKey'
  <2>1. UNCHANGED key /\ \A j \in JobIds : Live(j)' => Live(j)
    BY <1>6 DEF FailPermanent, Exhaust, Fail, FinishAs, SetStatus, Live
  <2> QED
    BY <2>1, OneLiveKept
<1>7. ASSUME NEW w \in Workers, Retry(w) PROVE OneLivePerKey'
  <2> DEFINE j == held[w].job
  <2>1. UNCHANGED key /\ ~OtherLive(j) /\ status' = SetStatus({j}, "pending")
    BY <1>7 DEF Retry, Backoff
  <2>2. \A i \in JobIds : Live(i)' => Live(i) \/ i = j
    BY <2>1 DEF SetStatus, Live
  <2> QED
    BY <2>1, <2>2 DEF OneLivePerKey, OtherLive
<1>8. ASSUME \/ \E w \in Workers : ClaimNone(w) \/ RetryRaises(w) \/ Crash(w)
             \/ \E j \in JobIds : LeaseExpires(j) \/ BackoffElapses(j)
             \/ UNCHANGED vars
      PROVE  OneLivePerKey'
  <2>1. UNCHANGED <<key, status>>
    BY <1>8 DEF ClaimNone, RetryRaises, Crash, LeaseExpires, BackoffElapses, rowVars, vars
  <2> QED
    BY <2>1, OneLiveKept DEF Live
<1> QED
  BY <1>1, <1>2, <1>3, <1>4, <1>5, <1>6, <1>7, <1>8 DEF Next, LoopStep, HandlerEnds

\* Two live jobs of one kind and subject never exist: the partial unique index
\* is respected through every insert, re-queue, reclaim and re-arm.
THEOREM LiveJobsUnique == Spec => []OneLivePerKey
<1>1. Init => OneLivePerKey
  BY DEF Init, OneLivePerKey, Live
<1> QED
  BY <1>1, InitTyped, StepTyped, OneLiveStep, PTL DEF Spec

-----------------------------------------------------------------------------
\* A step that leaves the row and its holders alone leaves them agreeing.
LEMMA ExclusiveKept ==
  ASSUME NEW v \in Workers, NEW i \in JobIds, Holds(v, i)',
         \A x \in Workers : Holds(x, i) => Exclusive(x, i),
         \A x \in Workers : Holds(x, i)' => Holds(x, i) /\ held'[x] = held[x],
         status[i] = "running" => status'[i] = "running" /\ attempts'[i] = attempts[i]
  PROVE  Exclusive(v, i)'
  BY DEF Exclusive

\* If the holders of a row agree with it, no step but the reclaim of that row
\* makes them disagree: a row that runs is claimed by nobody else, and a row
\* that is claimed was held by nobody.
LEMMA ExclusiveStep ==
  ASSUME Typed, [Next]_vars,
         NEW v \in Workers, NEW i \in JobIds, Holds(v, i)',
         \A x \in Workers : Holds(x, i) => Exclusive(x, i),
         \A x \in Workers : Reclaim(x) => ~(Held(i) /\ i \in stale)
  PROVE  Exclusive(v, i)'
<1> USE DEF Typed
<1>1. ASSUME NEW k \in Keys \cup {NoKey}, Insert(k), status[i] = "running"
      PROVE  i \notin Inserted(k) /\ attempts'[i] = attempts[i]
  BY <1>1, InsertRows DEF Live
<1>2. ASSUME NEW k \in Keys, Enqueue(k) PROVE Exclusive(v, i)'
  <2>1. \A x \in Workers : Holds(x, i)' => Holds(x, i) /\ held'[x] = held[x]
    BY <1>2 DEF Enqueue, Holds
  <2>2. status[i] = "running" => status'[i] = "running" /\ attempts'[i] = attempts[i]
    BY <1>1, <1>2 DEF Enqueue, SetStatus
  <2> QED
    BY <2>1, <2>2, ExclusiveKept
<1>3. ASSUME NEW w \in Workers, Start(w) \/ Rearm(w) PROVE Exclusive(v, i)'
  <2>1. \A x \in Workers : Holds(x, i)' => Holds(x, i) /\ held'[x] = held[x]
    BY <1>3 DEF Start, Rearm, Holds, TypeOK
  <2>2. status[i] = "running" => status'[i] = "running" /\ attempts'[i] = attempts[i]
    BY <1>1, <1>3, KeyAssumption DEF Start, Rearm, SetStatus
  <2> QED
    BY <2>1, <2>2, ExclusiveKept
<1>4. ASSUME NEW w \in Workers, Reclaim(w) PROVE Exclusive(v, i)'
  <2>1. \A x \in Workers : Holds(x, i)' => Holds(x, i) /\ held'[x] = held[x]
    BY <1>4 DEF Reclaim, Requeue, Holds, TypeOK
  <2>2. Held(i)
    BY <2>1 DEF Held
  <2>3. status[i] = "running" => status'[i] = "running" /\ attempts'[i] = attempts[i]
    BY <1>4, <2>2 DEF Reclaim, Requeue, SetStatus
  <2> QED
    BY <2>1, <2>3, ExclusiveKept
<1>5. ASSUME NEW w \in Workers, NEW j \in JobIds, Claim(w, j) PROVE Exclusive(v, i)'
  <2>1. CASE i = j
    <3>1. \A x \in Workers : ~Holds(x, i)
      BY <1>5, <2>1 DEF Claim, Claimable, Exclusive
    <3>2. \A x \in Workers : Holds(x, i)' => x = w
      BY <1>5, <3>1 DEF Claim, Holds, TypeOK
    <3>3. status'[i] = "running" /\ attempts'[i] = held'[w].attempts
      BY <1>5, <2>1 DEF Claim, SetStatus, TypeOK
    <3> QED
      BY <3>2, <3>3 DEF Exclusive
  <2>2. CASE i # j
    <3>1. \A x \in Workers : Holds(x, i)' => Holds(x, i) /\ held'[x] = held[x]
      BY <1>5, <2>2 DEF Claim, Holds, TypeOK
    <3>2. status'[i] = status[i] /\ attempts'[i] = attempts[i]
      BY <1>5, <2>2 DEF Claim, SetStatus, TypeOK
    <3> QED
      BY <3>1, <3>2, ExclusiveKept
  <2> QED
    BY <2>1, <2>2
<1>6. ASSUME NEW w \in Workers, pc[w] = "run", NEW where, where # "run", LetGo(w, where)
      PROVE  /\ \A x \in Workers : Holds(x, i)' => Holds(x, i) /\ held'[x] = held[x]
             /\ i # held[w].job
  <2>1. \A x \in Workers : Holds(x, i)' => x # w /\ Holds(x, i) /\ held'[x] = held[x]
    BY <1>6 DEF LetGo, Holds, TypeOK
  <2>2. v # w /\ Exclusive(v, i)
    BY <2>1
  <2> QED
    BY <1>6, <2>1, <2>2 DEF Exclusive, Holds
<1>7. ASSUME NEW w \in Workers, NEW follow \in Keys \cup {NoKey}, HandlerSucceeds(w, follow)
      PROVE  Exclusive(v, i)'
  <2>1. /\ \A x \in Workers : Holds(x, i)' => Holds(x, i) /\ held'[x] = held[x]
        /\ i # held[w].job
    BY <1>6, <1>7 DEF HandlerSucceeds
  <2>2. status[i] = "running" => status'[i] = "running" /\ attempts'[i] = attempts[i]
    BY <1>1, <1>7, <2>1 DEF HandlerSucceeds
  <2> QED
    BY <2>1, <2>2, ExclusiveKept
<1>8. ASSUME NEW w \in Workers, FailPermanent(w) \/ Exhaust(w) \/ Retry(w)
      PROVE  Exclusive(v, i)'
  <2>1. pc[w] = "run" /\ LetGo(w, "reclaim")
    BY <1>8 DEF FailPermanent, Exhaust, Fail, FinishAs, Retry, Backoff
  <2>2. /\ \A x \in Workers : Holds(x, i)' => Holds(x, i) /\ held'[x] = held[x]
        /\ i # held[w].job
    BY <2>1, <1>6
  <2>3. status'[i] = status[i] /\ attempts'[i] = attempts[i]
    BY <1>8, <2>2 DEF FailPermanent, Exhaust, Fail, FinishAs, Retry, Backoff, SetStatus
  <2> QED
    BY <2>2, <2>3, ExclusiveKept
<1>9. ASSUME NEW w \in Workers, ClaimNone(w) \/ RetryRaises(w) \/ Crash(w)
      PROVE  Exclusive(v, i)'
  <2>1. \A x \in Workers : Holds(x, i)' => Holds(x, i) /\ held'[x] = held[x]
    BY <1>9 DEF ClaimNone, RetryRaises, Crash, LetGo, Holds, TypeOK
  <2>2. status'[i] = status[i] /\ attempts'[i] = attempts[i]
    BY <1>9 DEF ClaimNone, RetryRaises, Crash, rowVars
  <2> QED
    BY <2>1, <2>2, ExclusiveKept
<1>10. ASSUME (\E j \in JobIds : LeaseExpires(j) \/ BackoffElapses(j)) \/ UNCHANGED vars
       PROVE  Exclusive(v, i)'
  <2>1. UNCHANGED <<status, attempts, pc, held>>
    BY <1>10 DEF LeaseExpires, BackoffElapses, vars
  <2>2. \A x \in Workers : Holds(x, i)' => Holds(x, i) /\ held'[x] = held[x]
    BY <2>1 DEF Holds
  <2> QED
    BY <2>1, <2>2, ExclusiveKept
<1> QED
  BY <1>2, <1>3, <1>4, <1>5, <1>7, <1>8, <1>9, <1>10 DEF Next, LoopStep, HandlerEnds

-----------------------------------------------------------------------------
\* What is remembered of a row is forgotten only when its slot is taken by an
\* insert, and then nobody holds the row and it is not live.
LEMMA Forgotten ==
  ASSUME Typed, [Next]_vars, NEW i \in JobIds,
         \/ i \in late /\ i \notin late'
         \/ i \in reclaimed /\ i \notin reclaimed'
  PROVE  /\ ~Live(i) /\ ~Held(i)
         /\ i \notin exhausted'
         /\ status'[i] = "pending" /\ attempts'[i] = 0
<1>1. PICK k \in Keys \cup {NoKey} :
        \/ k \in Keys /\ Enqueue(k)
        \/ k = Pull /\ \E w \in Workers : Start(w) \/ Rearm(w)
        \/ \E w \in Workers : HandlerSucceeds(w, k)
  <2>1. ~(\E w \in Workers : \/ Reclaim(w) \/ ClaimNone(w) \/ FailPermanent(w) \/ Exhaust(w)
                             \/ Retry(w) \/ RetryRaises(w) \/ Crash(w)
                             \/ \E j \in JobIds : Claim(w, j))
    BY DEF Reclaim, Requeue, ClaimNone, FailPermanent, Exhaust, Fail, FinishAs, Retry, Backoff,
           RetryRaises, Crash, Claim, ghosts
  <2>2. ~(\/ \E j \in JobIds : LeaseExpires(j) \/ BackoffElapses(j)
          \/ UNCHANGED vars)
    BY DEF LeaseExpires, BackoffElapses, ghosts, vars
  <2> QED
    BY <2>1, <2>2, KeyAssumption DEF Next, LoopStep, HandlerEnds
<1>2. Insert(k)
  BY <1>1 DEF Enqueue, Start, Rearm, HandlerSucceeds
<1>3. i \in Inserted(k) /\ i \notin exhausted'
  BY <1>2 DEF Insert
<1>4. ~Live(i) /\ ~Held(i) /\ attempts'[i] = 0
  BY <1>2, <1>3, InsertRows
<1>5. status'[i] = "pending"
  <2>1. ASSUME NEW w \in Workers, HandlerSucceeds(w, k) PROVE status'[i] = "pending"
    BY <2>1, <1>3, <1>4 DEF HandlerSucceeds, Held, Holds
  <2> QED
    BY <1>1, <1>3, <2>1 DEF Enqueue, Start, Rearm, SetStatus
<1> QED
  BY <1>3, <1>4, <1>5

\* While nobody has lost the lease of a row, its holder and the row agree, and
\* locked_at is recent.
LEMMA LeaseStep == Typed /\ LeaseInv /\ [Next]_vars => LeaseInv'
<1> SUFFICES ASSUME Typed, LeaseInv, [Next]_vars,
                    NEW v \in Workers, NEW i \in JobIds, i \notin late', Holds(v, i)'
             PROVE  Exclusive(v, i)' /\ i \notin stale'
  BY DEF LeaseInv
<1>1. \A x \in Workers : Holds(x, i) => Exclusive(x, i) /\ i \notin stale
  BY Forgotten DEF LeaseInv, Held
<1>2. Exclusive(v, i)'
  BY <1>1, ExclusiveStep DEF Held
<1>3. CASE \E w \in Workers, j \in JobIds : Claim(w, j)
  BY <1>1, <1>2, <1>3 DEF Claim, Holds, Typed, TypeOK
<1>4. CASE \E j \in JobIds : LeaseExpires(j)
  BY <1>1, <1>2, <1>4 DEF LeaseExpires, Holds, Held
<1>5. CASE ~(\/ \E w \in Workers, j \in JobIds : Claim(w, j)
            \/ \E j \in JobIds : LeaseExpires(j))
  <2>1. stale' \subseteq stale
    <3>1. ASSUME NEW w \in Workers, LoopStep(w) PROVE stale' \subseteq stale
      BY <1>5, <3>1 DEF LoopStep, HandlerEnds, Reclaim, Requeue, ClaimNone, HandlerSucceeds,
                        FailPermanent, Exhaust, Fail, FinishAs, Retry, Backoff, RetryRaises,
                        Rearm, rowVars
    <3>2. ASSUME NEW w \in Workers, Start(w) \/ Crash(w) PROVE stale' \subseteq stale
      BY <3>2 DEF Start, Crash, rowVars
    <3>3. ASSUME NEW k \in Keys, Enqueue(k) PROVE stale' \subseteq stale
      BY <3>3 DEF Enqueue
    <3>4. ASSUME NEW j \in JobIds, BackoffElapses(j) PROVE stale' \subseteq stale
      BY <3>4 DEF BackoffElapses
    <3> QED BY <1>5, <3>1, <3>2, <3>3, <3>4 DEF Next, vars, rowVars
  <2>2. Holds(v, i)
    <3>1. ASSUME NEW w \in Workers, LoopStep(w) PROVE Holds(v, i)
      BY <1>5, <3>1 DEF LoopStep, HandlerEnds, Reclaim, Requeue, ClaimNone, HandlerSucceeds,
                        FailPermanent, Exhaust, Fail, FinishAs, Retry, Backoff, LetGo,
                        RetryRaises, Rearm, rowVars, Holds, Typed, TypeOK
    <3>2. ASSUME NEW w \in Workers, Start(w) \/ Crash(w) PROVE Holds(v, i)
      BY <3>2 DEF Start, Crash, LetGo, rowVars, Holds, Typed, TypeOK
    <3>3. ASSUME NEW k \in Keys, Enqueue(k) PROVE Holds(v, i)
      BY <3>3 DEF Enqueue, Holds
    <3>4. ASSUME NEW j \in JobIds, BackoffElapses(j) PROVE Holds(v, i)
      BY <3>4 DEF BackoffElapses, Holds
    <3> QED BY <1>5, <3>1, <3>2, <3>3, <3>4 DEF Next, vars, rowVars, Holds
  <2> QED
    BY <2>1, <2>2, <1>1, <1>2
<1> QED
  BY <1>3, <1>4, <1>5

\* Until reclaim_stale takes a row back, its holder and the row agree.
LEMMA ReclaimStep == Typed /\ ReclaimInv /\ [Next]_vars => ReclaimInv'
<1> SUFFICES ASSUME Typed, ReclaimInv, [Next]_vars,
                    NEW v \in Workers, NEW i \in JobIds, i \notin reclaimed', Holds(v, i)'
             PROVE  Exclusive(v, i)'
  BY DEF ReclaimInv
<1>1. \A x \in Workers : Holds(x, i) => Exclusive(x, i)
  BY Forgotten DEF ReclaimInv, Held
<1>2. \A x \in Workers : Reclaim(x) => ~(Held(i) /\ i \in stale)
  BY <1>1 DEF Reclaim, Requeue, Running, Held, Exclusive
<1> QED
  BY <1>1, <1>2, ExclusiveStep

\* attempts is bounded by JOB_MAX_ATTEMPTS until reclaim_stale takes the row:
\* a retry compares the attempts of the claim, which are those of the row.
LEMMA AttemptStep ==
  Typed /\ ReclaimInv /\ AttemptCap /\ [Next]_vars => AttemptCap'
<1> SUFFICES ASSUME Typed, ReclaimInv, AttemptCap, [Next]_vars,
                    NEW i \in JobIds, i \notin reclaimed'
             PROVE  /\ attempts'[i] <= MaxAttempts
                    /\ status'[i] = "pending" => attempts'[i] < MaxAttempts
  BY DEF AttemptCap
<1> DEFINE Capped == /\ attempts'[i] <= MaxAttempts
                     /\ status'[i] = "pending" => attempts'[i] < MaxAttempts
<1> USE AttemptAssumption DEF Typed
<1>1. CASE i \in reclaimed
  BY <1>1, Forgotten
<1>2. ASSUME NEW k \in Keys \cup {NoKey}, Insert(k), i \notin reclaimed,
             status'[i] = "pending" => i \in Inserted(k) \/ status[i] = "pending"
      PROVE  Capped
  BY <1>2, InsertRows DEF AttemptCap
<1>3. ASSUME i \notin reclaimed, attempts'[i] = attempts[i],
             status'[i] = "pending" => status[i] = "pending"
      PROVE  Capped
  BY <1>3 DEF AttemptCap
<1>4. ASSUME i \notin reclaimed, NEW k \in Keys, Enqueue(k)
      PROVE  Capped
  BY <1>2, <1>4 DEF Enqueue, SetStatus
<1>5. ASSUME i \notin reclaimed, NEW w \in Workers, Start(w) \/ Rearm(w)
      PROVE  Capped
  BY <1>2, <1>5, KeyAssumption DEF Start, Rearm, SetStatus
<1>6. ASSUME i \notin reclaimed, NEW w \in Workers, NEW follow \in Keys \cup {NoKey},
             HandlerSucceeds(w, follow)
      PROVE  Capped
  BY <1>2, <1>6 DEF HandlerSucceeds
<1>7. ASSUME i \notin reclaimed, NEW w \in Workers, Reclaim(w)
      PROVE  Capped
  BY <1>3, <1>7 DEF Reclaim, Requeue, SetStatus
<1>8. ASSUME i \notin reclaimed, NEW w \in Workers, NEW j \in JobIds, Claim(w, j)
      PROVE  Capped
  <2>1. CASE i # j
    BY <1>3, <1>8, <2>1 DEF Claim, SetStatus
  <2>2. CASE i = j
    <3>1. attempts[i] < MaxAttempts /\ attempts[i] \in 0..AttemptBound
      BY <1>8, <2>2 DEF Claim, Claimable, AttemptCap, TypeOK
    <3>2. attempts'[i] = attempts[i] + 1
      BY <1>8, <2>2, <3>1 DEF Claim, Counted, TypeOK
    <3>3. status'[i] = "running"
      BY <1>8, <2>2 DEF Claim, SetStatus
    <3> QED
      BY <3>1, <3>2, <3>3
  <2> QED
    BY <2>1, <2>2
<1>9. ASSUME i \notin reclaimed, NEW w \in Workers, FailPermanent(w) \/ Exhaust(w)
      PROVE  Capped
  BY <1>3, <1>9 DEF FailPermanent, Exhaust, Fail, FinishAs, SetStatus
<1>10. ASSUME i \notin reclaimed, NEW w \in Workers, Retry(w)
       PROVE  Capped
  <2>1. CASE i # held[w].job
    BY <1>3, <1>10, <2>1 DEF Retry, Backoff, SetStatus
  <2>2. CASE i = held[w].job
    <3>1. attempts[i] = held[w].attempts
      BY <1>10, <2>2 DEF Retry, Backoff, ReclaimInv, Exclusive, Holds
    <3>2. attempts'[i] = attempts[i] /\ attempts[i] < MaxAttempts
      BY <1>10, <3>1 DEF Retry, Backoff
    <3> QED
      BY <3>2 DEF TypeOK
  <2> QED
    BY <2>1, <2>2
<1>11. ASSUME i \notin reclaimed,
              \/ \E w \in Workers : ClaimNone(w) \/ RetryRaises(w) \/ Crash(w)
              \/ \E j \in JobIds : LeaseExpires(j) \/ BackoffElapses(j)
              \/ UNCHANGED vars
       PROVE  Capped
  BY <1>3, <1>11 DEF ClaimNone, RetryRaises, Crash, LeaseExpires, BackoffElapses, rowVars, vars
<1> QED
  BY <1>1, <1>4, <1>5, <1>6, <1>7, <1>8, <1>9, <1>10, <1>11 DEF Next, LoopStep, HandlerEnds

\* Nothing revives a row whose attempts are exhausted while its lease holds.
LEMMA ExhaustedStep ==
  Typed /\ LeaseInv /\ ExhaustedIsFinal /\ [Next]_vars => ExhaustedIsFinal'
<1> SUFFICES ASSUME Typed, LeaseInv, ExhaustedIsFinal, [Next]_vars,
                    NEW i \in exhausted', i \notin late'
             PROVE  status'[i] = "failed" /\ attempts'[i] >= MaxAttempts
  BY DEF ExhaustedIsFinal
<1>0. i \in JobIds
  BY StepTyped DEF Typed, TypeOK
<1> USE <1>0 DEF Typed
<1>1. i \notin late
  BY Forgotten
<1>2. ASSUME NEW w \in Workers, Holds(w, i)
      PROVE  status[i] = "running" /\ attempts[i] = held[w].attempts
  BY <1>1, <1>2 DEF LeaseInv, Exclusive
<1>3. ASSUME i \in exhausted
      PROVE  /\ status[i] = "failed" /\ attempts[i] >= MaxAttempts
             /\ \A w \in Workers : ~Holds(w, i)
  BY <1>1, <1>2, <1>3 DEF ExhaustedIsFinal
<1>4. ASSUME i \in exhausted, NEW k \in Keys \cup {NoKey}, Insert(k)
      PROVE  i \notin Inserted(k) /\ attempts'[i] = attempts[i]
  BY <1>4 DEF Insert
<1>5. CASE \E k \in Keys : Enqueue(k)
  <2>1. PICK k \in Keys : Enqueue(k)
    BY <1>5
  <2>2. Insert(k) /\ i \in exhausted
    BY <2>1 DEF Enqueue, Insert
  <2> QED
    BY <2>1, <2>2, <1>3, <1>4 DEF Enqueue, SetStatus
<1>6. CASE \E w \in Workers : Start(w) \/ Rearm(w)
  <2>1. Insert(Pull) /\ i \in exhausted
    BY <1>6 DEF Start, Rearm, Insert
  <2> QED
    BY <2>1, <1>3, <1>4, <1>6, KeyAssumption DEF Start, Rearm, SetStatus
<1>7. ASSUME NEW w \in Workers, NEW k \in Keys \cup {NoKey}, HandlerSucceeds(w, k)
      PROVE  status'[i] = "failed" /\ attempts'[i] >= MaxAttempts
  <2>1. Insert(k) /\ i \in exhausted /\ i # held[w].job
    BY <1>3, <1>7 DEF HandlerSucceeds, Insert, Holds
  <2> QED
    BY <2>1, <1>3, <1>4, <1>7 DEF HandlerSucceeds
<1>8. CASE \E w \in Workers : Reclaim(w)
  BY <1>3, <1>8 DEF Reclaim, Requeue, Running, SetStatus
<1>9. CASE \E w \in Workers, j \in JobIds : Claim(w, j)
  BY <1>3, <1>9 DEF Claim, Claimable, SetStatus, ghosts
<1>10. ASSUME NEW w \in Workers, FailPermanent(w) \/ Exhaust(w)
       PROVE  status'[i] = "failed" /\ attempts'[i] >= MaxAttempts
  <2>1. CASE i \in exhausted
    BY <1>3, <1>10, <2>1 DEF FailPermanent, Exhaust, Fail, FinishAs, SetStatus, TypeOK
  <2>2. CASE i \notin exhausted
    <3>1. Exhaust(w) /\ i = held[w].job
      BY <1>10, <2>2 DEF FailPermanent, Exhaust
    <3>2. attempts[i] >= MaxAttempts
      BY <3>1, <1>2 DEF Exhaust, Holds
    <3> QED
      BY <3>1, <3>2 DEF Exhaust, Fail, FinishAs, SetStatus, TypeOK
  <2> QED
    BY <2>1, <2>2
<1>11. ASSUME NEW w \in Workers, Retry(w)
       PROVE  status'[i] = "failed" /\ attempts'[i] >= MaxAttempts
  BY <1>3, <1>11 DEF Retry, Backoff, SetStatus, Holds, ghosts
<1>12. CASE \/ \E w \in Workers : ClaimNone(w) \/ RetryRaises(w) \/ Crash(w)
            \/ \E j \in JobIds : LeaseExpires(j) \/ BackoffElapses(j)
            \/ UNCHANGED vars
  BY <1>3, <1>12 DEF ClaimNone, RetryRaises, Crash, LeaseExpires, BackoffElapses,
                     rowVars, ghosts, vars
<1> QED
  BY <1>5, <1>6, <1>7, <1>8, <1>9, <1>10, <1>11, <1>12 DEF Next, LoopStep, HandlerEnds

\* The pull loop stays armed through every step.
LEMMA ArmedStep == Typed /\ PullArmed /\ [Next]_vars => PullArmed'
<1> SUFFICES ASSUME Typed, PullArmed, [Next]_vars PROVE PullArmed'
  OBVIOUS
<1> USE KeyAssumption DEF Typed
\* A live pull row is not the slot an insert takes.
<1>1. ASSUME NEW k \in Keys \cup {NoKey}, Insert(k), NEW j \in JobIds, Live(j)
      PROVE  j \notin Inserted(k) /\ key'[j] = key[j]
  BY <1>1, InsertRows
<1>2. ASSUME NEW k \in Keys, Enqueue(k) PROVE PullArmed'
  <2>1. Insert(k) /\ UNCHANGED <<pc, pullFailed>>
    BY <1>2 DEF Enqueue
  <2>2. \A j \in JobIds : Live(j) => Live(j)' /\ key'[j] = key[j]
    BY <2>1, <1>1, <1>2 DEF Enqueue, SetStatus, Live
  <2> QED
    BY <2>1, <2>2 DEF PullArmed, LiveKey
<1>3. ASSUME NEW w \in Workers, Start(w) \/ Rearm(w) PROVE PullArmed'
  <2>1. Insert(Pull) /\ status' = SetStatus(Inserted(Pull), "pending")
    BY <1>3 DEF Start, Rearm
  <2>2. \A j \in JobIds : Live(j) => Live(j)' /\ key'[j] = key[j]
    BY <2>1, <1>1 DEF SetStatus, Live
  <2>3. CASE LiveKey(Pull)
    BY <2>2, <2>3 DEF PullArmed, LiveKey
  <2>4. CASE ~LiveKey(Pull)
    <3>1. PICK j \in Inserted(Pull) : j \in JobIds /\ key'[j] = Pull
      BY <2>1, <2>4, InsertRows
    <3>2. Live(j)'
      BY <2>1, <3>1 DEF SetStatus, Live
    <3> QED
      BY <3>1, <3>2 DEF PullArmed, LiveKey
  <2> QED
    BY <2>3, <2>4
<1>4. ASSUME NEW w \in Workers, NEW follow \in Keys \cup {NoKey}, HandlerSucceeds(w, follow)
      PROVE  PullArmed'
  <2> DEFINE i == held[w].job
  <2>1. /\ Insert(follow)
        /\ pullFailed' = pullFailed
        /\ pc[w] = "run"
        /\ pc' = [pc EXCEPT ![w] = IF key[i] = Pull THEN "rearm" ELSE "reclaim"]
    BY <1>4 DEF HandlerSucceeds, LetGo
  <2>2. CASE key[i] = Pull
    BY <2>1, <2>2 DEF PullArmed, TypeOK
  <2>3. CASE key[i] # Pull
    <3>1. \A j \in JobIds : Live(j) /\ key[j] = Pull => Live(j)' /\ key'[j] = key[j]
      BY <2>1, <2>3, <1>1, <1>4 DEF HandlerSucceeds, Live
    <3>2. \A x \in Workers : pc[x] \in {"rearm", "down"} => pc'[x] = pc[x]
      BY <2>1 DEF TypeOK
    <3> QED
      BY <2>1, <3>1, <3>2 DEF PullArmed, LiveKey
  <2> QED
    BY <2>2, <2>3
<1>5. ASSUME NEW w \in Workers, FailPermanent(w) \/ Exhaust(w) PROVE PullArmed'
  <2> DEFINE i == held[w].job
  <2>1. /\ UNCHANGED key
        /\ status' = SetStatus({i}, "failed")
        /\ pullFailed' = (pullFailed \/ key[i] = Pull)
        /\ pc[w] = "run"
        /\ pc' = [pc EXCEPT ![w] = "reclaim"]
    BY <1>5 DEF FailPermanent, Exhaust, Fail, FinishAs, LetGo
  <2>2. \A x \in Workers : pc[x] \in {"rearm", "down"} => pc'[x] = pc[x]
    BY <2>1 DEF TypeOK
  <2>3. CASE key[i] = Pull
    BY <2>1, <2>3 DEF PullArmed
  <2>4. CASE key[i] # Pull
    <3>1. \A j \in JobIds : Live(j) /\ key[j] = Pull => Live(j)'
      BY <2>1, <2>4 DEF SetStatus, Live
    <3> QED
      BY <2>1, <2>2, <3>1 DEF PullArmed, LiveKey
  <2> QED
    BY <2>3, <2>4
\* Every other step that writes a status leaves a live row live.
<1>6. ASSUME UNCHANGED <<key, pullFailed>>,
             \A j \in JobIds : Live(j) => Live(j)',
             \A x \in Workers : pc[x] \in {"rearm", "down"} => pc'[x] \in {"rearm", "down"}
      PROVE  PullArmed'
  BY <1>6 DEF PullArmed, LiveKey
<1>7. ASSUME NEW w \in Workers, Reclaim(w) PROVE PullArmed'
  BY <1>6, <1>7 DEF Reclaim, Requeue, SetStatus, Live, TypeOK
<1>8. ASSUME NEW w \in Workers, NEW j \in JobIds, Claim(w, j) PROVE PullArmed'
  BY <1>6, <1>8 DEF Claim, Claimable, SetStatus, Live, TypeOK, ghosts
<1>9. ASSUME NEW w \in Workers, Retry(w) PROVE PullArmed'
  BY <1>6, <1>9 DEF Retry, Backoff, LetGo, SetStatus, Live, TypeOK, ghosts
<1>10. ASSUME NEW w \in Workers, ClaimNone(w) PROVE PullArmed'
  BY <1>6, <1>10 DEF ClaimNone, Live, TypeOK, rowVars, ghosts
<1>11. ASSUME NEW w \in Workers, RetryRaises(w) \/ Crash(w) PROVE PullArmed'
  <2>1. pc'[w] = "down"
    BY <1>11 DEF RetryRaises, Crash, LetGo, TypeOK
  <2> QED
    BY <2>1 DEF PullArmed
<1>12. CASE (\E j \in JobIds : LeaseExpires(j) \/ BackoffElapses(j)) \/ UNCHANGED vars
  <2>1. UNCHANGED <<key, status, pc, pullFailed>>
    BY <1>12 DEF LeaseExpires, BackoffElapses, ghosts, vars
  <2> QED
    BY <2>1, <1>6 DEF Live
<1> QED
  BY <1>2, <1>3, <1>4, <1>5, <1>7, <1>8, <1>9, <1>10, <1>11, <1>12
     DEF Next, LoopStep, HandlerEnds

-----------------------------------------------------------------------------
IInv ==
  /\ Typed
  /\ OneLivePerKey
  /\ LeaseInv
  /\ ReclaimInv
  /\ AttemptCap
  /\ ExhaustedIsFinal
  /\ PullArmed

\* The inductive invariant.  No worker runs at the start and every slot is
\* empty; some worker is there to seed the pull job.
LEMMA Inductive == Spec => []IInv
<1>1. Init => IInv
  <2> SUFFICES ASSUME Init PROVE IInv
    OBVIOUS
  <2>1. Typed
    BY InitTyped
  <2>2. OneLivePerKey /\ LeaseInv /\ ReclaimInv
    BY DEF Init, OneLivePerKey, Live, LeaseInv, ReclaimInv, Holds
  <2>3. AttemptCap /\ ExhaustedIsFinal
    BY AttemptAssumption DEF Init, AttemptCap, ExhaustedIsFinal
  <2>4. PullArmed
    BY WorkerAssumption DEF Init, PullArmed
  <2> QED
    BY <2>1, <2>2, <2>3, <2>4 DEF IInv
<1>2. IInv /\ [Next]_vars => IInv'
  BY StepTyped, OneLiveStep, LeaseStep, ReclaimStep, AttemptStep, ExhaustedStep, ArmedStep
     DEF IInv
<1> QED
  BY <1>1, <1>2, PTL DEF Spec

\* A job whose lease never ran out under a worker is run by that worker only.
THEOREM LeaseIsExclusive == Spec => []LeaseExclusive
<1>1. IInv => LeaseExclusive
  BY DEF IInv, LeaseInv, Exclusive, LeaseExclusive
<1> QED
  BY <1>1, Inductive, PTL

\* JOB_MAX_ATTEMPTS bounds the attempts of every job reclaim_stale never took.
THEOREM AttemptsAreCapped == Spec => []AttemptCap
<1>1. IInv => AttemptCap
  BY DEF IInv
<1> QED
  BY <1>1, Inductive, PTL

\* A job.exhausted row is the end of its job while its lease was kept.
THEOREM ExhaustedStaysFailed == Spec => []ExhaustedIsFinal
<1>1. IInv => ExhaustedIsFinal
  BY DEF IInv
<1> QED
  BY <1>1, Inductive, PTL

\* The two together: what jobs.attempts says of a job is so.
THEOREM AttemptsAreCounted == Spec => []AttemptsCounted
<1>1. IInv => AttemptsCounted
  BY DEF IInv, AttemptsCounted
<1> QED
  BY <1>1, Inductive, PTL

\* The pull loop is armed until a pull job ends failed.
THEOREM PullStaysArmed == Spec => []PullArmed
<1>1. IInv => PullArmed
  BY DEF IInv
<1> QED
  BY <1>1, Inductive, PTL

\* finish_job raises out of the loop only for a worker that lost its lease, or
\* when JOB_BACKOFF is shorter than the retries it must cover.
THEOREM KilledOnlyLate == Spec => KilledOnlyWhenLate
<1>1. ASSUME IInv, NEW w \in Workers, RetryRaises(w)
      PROVE  held[w].job \in late \/ BackoffLen < MaxAttempts - 1
  <2> DEFINE j == held[w].job
  <2>1. j \in JobIds /\ held[w].attempts \in Nat
    BY <1>1 DEF IInv, Typed, RunHasClaim, Claims, RetryRaises
  <2>2. CASE held[w].attempts > BackoffLen
    BY <1>1, <2>1, <2>2, AttemptAssumption DEF RetryRaises
  <2>3. CASE OtherLive(j) /\ j \notin late
    <3>1. Live(j)
      BY <1>1, <2>1, <2>3 DEF IInv, LeaseInv, Exclusive, Holds, RetryRaises, Live
    <3> QED
      BY <1>1, <2>1, <2>3, <3>1 DEF IInv, OneLivePerKey, OtherLive
  <2> QED
    BY <1>1, <2>2, <2>3 DEF RetryRaises
<1>2. IInv /\ [Next]_vars =>
        [\A w \in Workers : RetryRaises(w) =>
            held[w].job \in late \/ BackoffLen < MaxAttempts - 1]_vars
  BY <1>1
<1> QED
  BY <1>2, Inductive, PTL DEF Spec, KilledOnlyWhenLate
=============================================================================
