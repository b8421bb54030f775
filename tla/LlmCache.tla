------------------------------ MODULE LlmCache ------------------------------
(***************************************************************************)
(* A measurement of the evaluation: run_bounded of eval/llm_cache.py hands *)
(* work items to a few threads, each item asks CachingAdapter.complete for *)
(* the answer to one request, which comes from the entry on disk or from a *)
(* live call of llm/adapter.py, one caller at a time for each key and      *)
(* under a SpendGuard.                                                     *)
(*                                                                         *)
(* The directory outlives the process: a run may be stopped and started    *)
(* again.  A request is its key; an answer is the number of the call that  *)
(* gave it.  Every call costs one unit.                                    *)
(***************************************************************************)
EXTENDS Naturals, Sequences, FiniteSets

CONSTANTS
    Workers,      \* threads of the pool, at most MAX_WORKERS
    Items,        \* the key each work item asks for, in order
    Room,         \* units left under the cap when a run starts: cap - month spend
    Retries,      \* LLM_RETRY
    MaxCalls, MaxRuns,  \* bounds of the model
    Null, Failed

Keys == {Items[i] : i \in DOMAIN Items}

ASSUME CacheAssumption ==
    /\ Room \in Nat /\ Retries \in Nat
    /\ Workers # {} /\ IsFiniteSet(Workers) /\ Items \in Seq(Keys)
    /\ Null # Failed /\ Null \notin Workers /\ Null \notin Nat /\ Failed \notin Nat

VARIABLES
    entry,     \* the entry of a key: an answer, or Null for none that can be read
    next,      \* the next item the pool hands out
    worker,    \* what a thread does
    lock,      \* the holder of a key's lock, or Null
    outcome,   \* of an item: Null, Failed or the answer it returned
    live,      \* SpendGuard._live_usd
    run,       \* the number of this process
    \* history:
    calls,     \* live calls that were answered, the numbers of the answers
    billed,    \* of those, the ones of this run
    given      \* answers returned for a key since its entry was last lost

cacheVars == <<entry, next, worker, lock, outcome, live, run, calls, billed, given>>

Free == [pc |-> "idle"]
At(pc, i) == [pc |-> pc, item |-> i]
KeyOf(w) == Items[worker[w].item]

cacheInit ==
    /\ entry = [k \in Keys |-> Null] /\ next = 1 /\ worker = [w \in Workers |-> Free]
    /\ lock = [k \in Keys |-> Null] /\ outcome = [i \in DOMAIN Items |-> Null]
    /\ live = 0 /\ run = 1
    /\ calls = 0 /\ billed = 0 /\ given = [k \in Keys |-> {}]

---------------------------------------------------------------------------
(* complete returns an answer, or raises into the item's Outcome.          *)
Return(w, answer) ==
    /\ outcome' = [outcome EXCEPT ![worker[w].item] = answer]
    /\ given' = [given EXCEPT ![KeyOf(w)] = @ \cup {answer}]
    /\ worker' = [worker EXCEPT ![w] = Free]

Raise(w) ==
    /\ outcome' = [outcome EXCEPT ![worker[w].item] = Failed]
    /\ worker' = [worker EXCEPT ![w] = Free]
    /\ UNCHANGED given

Release(w) == lock' = [lock EXCEPT ![KeyOf(w)] = Null]

(* run_bounded: a free thread takes the next item. *)
Take(w) ==
    /\ worker[w] = Free /\ next <= Len(Items)
    /\ worker' = [worker EXCEPT ![w] = At("load", next)]
    /\ next' = next + 1
    /\ UNCHANGED <<entry, lock, outcome, live, run, calls, billed, given>>

(* The read outside the lock: a hit is answered at once. *)
Load(w) ==
    /\ worker[w].pc = "load"
    /\ \/ /\ entry[KeyOf(w)] # Null
          /\ Return(w, entry[KeyOf(w)])
       \/ /\ entry[KeyOf(w)] = Null
          /\ worker' = [worker EXCEPT ![w].pc = "lock"]
          /\ UNCHANGED <<outcome, given>>
    /\ UNCHANGED <<entry, next, lock, live, run, calls, billed>>

(* The bug of a miss that is not looked at again under the lock. *)
EnterBlind(w) ==
    /\ worker[w].pc = "lock" /\ lock[KeyOf(w)] = Null
    /\ IF live >= Room THEN Raise(w) /\ UNCHANGED lock
       ELSE /\ worker' = [worker EXCEPT ![w] = [pc |-> "call", item |-> @.item, attempt |-> 1]]
            /\ lock' = [lock EXCEPT ![KeyOf(w)] = w]
            /\ UNCHANGED <<outcome, given>>
    /\ UNCHANGED <<entry, next, live, run, calls, billed>>

(* Under the key's lock: read again, then SpendGuard.check, then call.     *)
Enter(w) ==
    /\ worker[w].pc = "lock" /\ lock[KeyOf(w)] = Null
    /\ \/ /\ entry[KeyOf(w)] # Null
          /\ Return(w, entry[KeyOf(w)])
          /\ UNCHANGED lock
       \/ /\ entry[KeyOf(w)] = Null /\ live >= Room     \* LLMBudgetExceeded
          /\ Raise(w)
          /\ UNCHANGED lock
       \/ /\ entry[KeyOf(w)] = Null /\ live < Room
          /\ worker' = [worker EXCEPT ![w] = [pc |-> "call", item |-> @.item, attempt |-> 1]]
          /\ lock' = [lock EXCEPT ![KeyOf(w)] = w]
          /\ UNCHANGED <<outcome, given>>
    /\ UNCHANGED <<entry, next, live, run, calls, billed>>

(* DeepSeekAdapter.complete, one attempt that brings no answer: it ran     *)
(* into its deadline or was refused, or the network or the server failed   *)
(* and another attempt is made while there are attempts and money.         *)
CallFails(w) ==
    /\ worker[w].pc = "call"
    /\ Raise(w) /\ Release(w)
    /\ UNCHANGED <<entry, next, live, run, calls, billed>>

CallAgain(w) ==
    /\ worker[w].pc = "call" /\ worker[w].attempt <= Retries /\ live < Room
    /\ worker' = [worker EXCEPT ![w].attempt = @ + 1]
    /\ UNCHANGED <<entry, next, lock, outcome, live, run, calls, billed, given>>

(* The bug of spending noted only with the entry. *)
AnswerUnrecorded(w) ==
    /\ worker[w].pc = "call" /\ calls < MaxCalls
    /\ calls' = calls + 1 /\ billed' = billed + 1
    /\ worker' = [worker EXCEPT ![w] = [pc |-> "write", item |-> @.item, answer |-> calls + 1]]
    /\ UNCHANGED <<entry, next, lock, outcome, live, run, given>>

(* The answer arrives and is recorded as spent before it is written.       *)
Answer(w) ==
    /\ worker[w].pc = "call" /\ calls < MaxCalls
    /\ calls' = calls + 1 /\ billed' = billed + 1
    /\ live' = live + 1
    /\ worker' = [worker EXCEPT ![w] = [pc |-> "write", item |-> @.item, answer |-> calls + 1]]
    /\ UNCHANGED <<entry, next, lock, outcome, run, given>>

(* _write_atomic: the whole entry, or an error and the entry as it was.    *)
Write(w) ==
    /\ worker[w].pc = "write"
    /\ entry' = [entry EXCEPT ![KeyOf(w)] = worker[w].answer]
    /\ Return(w, worker[w].answer) /\ Release(w)
    /\ UNCHANGED <<next, live, run, calls, billed>>

(* The bug of an error that keeps the lock. *)
WriteFailsHolding(w) ==
    /\ worker[w].pc = "write"
    /\ Raise(w)
    /\ UNCHANGED <<entry, next, lock, live, run, calls, billed>>

WriteFails(w) ==
    /\ worker[w].pc = "write"
    /\ Raise(w) /\ Release(w)
    /\ UNCHANGED <<entry, next, live, run, calls, billed>>

---------------------------------------------------------------------------
Finished == next > Len(Items) /\ \A w \in Workers : worker[w] = Free

(* The process ends, or is stopped at any point, and is started again: the *)
(* guard of the new one knows nothing of what the old one spent.           *)
Rerun ==
    /\ run < MaxRuns
    /\ run' = run + 1 /\ next' = 1
    /\ worker' = [w \in Workers |-> Free] /\ lock' = [k \in Keys |-> Null]
    /\ outcome' = [i \in DOMAIN Items |-> Null] /\ live' = 0 /\ billed' = 0
    /\ UNCHANGED <<entry, calls, given>>

(* An entry is deleted, or cannot be read: another format, other inputs.   *)
Lose(k) ==
    /\ entry[k] # Null
    /\ entry' = [entry EXCEPT ![k] = Null]
    /\ given' = [given EXCEPT ![k] = {}]
    /\ UNCHANGED <<next, worker, lock, outcome, live, run, calls, billed>>

Step(w) ==
    \/ Take(w) \/ Load(w) \/ Enter(w)
    \/ CallFails(w) \/ CallAgain(w) \/ Answer(w) \/ Write(w) \/ WriteFails(w)

cacheNext == (\E w \in Workers : Step(w)) \/ Rerun \/ \E k \in Keys : Lose(k)

cacheSpec == cacheInit /\ [][cacheNext]_cacheVars

(* A thread of the pool goes on: the adapter's deadline ends every call.   *)
cacheFairSpec ==
    /\ cacheSpec
    /\ \A w \in Workers : /\ WF_cacheVars(Take(w)) /\ WF_cacheVars(Load(w))
                          /\ SF_cacheVars(Enter(w)) /\ WF_cacheVars(CallFails(w))
                          /\ WF_cacheVars(Write(w) \/ WriteFails(w))

---------------------------------------------------------------------------
(* Items that ask the same, in this run or a later one, get the same       *)
(* answer as long as its entry is there: concurrent misses of one key make *)
(* one call, and nothing is returned that is not the entry.                *)
OneAnswerPerKey == \A k \in Keys : Cardinality(given[k]) <= 1

(* What a run spends passes the room under the cap by less than one call a *)
(* thread, whatever was answered and could not be written.                 *)
SpendBounded == billed <= Room + Cardinality(Workers) - 1

(* Every item of a run has its outcome when the threads have stopped, and  *)
(* they do stop: no item waits for ever on the lock of its key.            *)
RunEnds ==
    /\ [](Finished => \A i \in DOMAIN Items : outcome[i] # Null)
    /\ []<>Finished
=============================================================================
