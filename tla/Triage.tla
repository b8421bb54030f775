------------------------------- MODULE Triage -------------------------------
(***************************************************************************)
(* The triage job (tier1/triage.py): one alert, a proposer call, the gate, *)
(* a verifier call, and one commit that writes the llm_runs rows and the   *)
(* alert's triage_status.  Between the load and the commit the alert may   *)
(* grow or be decided, the lease may run out and a second worker may run   *)
(* the same job, and the month's spending may move.                        *)
(*                                                                         *)
(* A call is one adapter.complete: its retries on network errors and 5xx   *)
(* answers are inside it, so is the test of the monthly cap.  An answered  *)
(* call costs one unit.  The queue's backoff is not timed: see JobQueue.   *)
(***************************************************************************)
EXTENDS Gate, FiniteSets

CONSTANTS
    Alerts, Workers,
    Context,        \* Context[a]: the facts of a that no later step changes
    Table,          \* Table[a]: the decision table of a's category, or Null
    Blocks,         \* Blocks[a]: the quotable text of a's prompt
    Documents,      \* the valid triage_v2 documents a proposer may answer
    Verifications,  \* the valid verifier_v1 documents, [agree, verdict]
    Settings,       \* the values cfg.llm_enabled takes, read by every job
    Cap,            \* LLM_MONTHLY_USD_CAP, in calls
    JobMaxAttempts, \* JOB_MAX_ATTEMPTS
    MaxOccurrences, MaxClaims  \* bounds of the model

ASSUME CapAssumption == Cap \in Nat \ {0} /\ JobMaxAttempts \in Nat \ {0}
ASSUME FiniteAssumption == IsFiniteSet(Workers) /\ Workers # {} /\ IsFiniteSet(Alerts)
ASSUME DocumentAssumption ==  \* triage_v2: the action is one of three, and None is no result
    /\ \A p \in Documents : p.suggested_action \in Verdicts
    /\ Null \notin [verdict: Verdicts, proposal: Documents]

VARIABLES
    alert,     \* the columns of an alert row that triage and its neighbours use
    job,       \* the triage job of an alert
    run,       \* what a worker holds in memory
    llm_runs,  \* the committed proposer and verifier rows of an alert
    spent,     \* sum(cost_usd) over the committed rows of the month
    overtaken  \* history: a live worker of this alert's job lost its lease

vars == <<alert, job, run, llm_runs, spent, overtaken>>

Closed == {"closed_fp", "closed_benign", "closed_confirmed", "duplicate"}

Idle == [pc |-> "idle"]
Busy(w) == run[w].pc # "idle"

---------------------------------------------------------------------------
(* build_facts: everything but the count is fixed by enrichment. *)
Facts(a) == [key \in DOMAIN Context[a] \cup {"occurrence_count"} |->
                IF key = "occurrence_count" THEN alert[a].occurrence_count
                                            ELSE Context[a][key]]

Row(w, role, result, cost, why) ==
    [attempt |-> run[w].attempt, role |-> role, result |-> result,
     facts |-> run[w].facts, cost |-> cost, stopped_by |-> why]

TypeOK ==
    /\ alert \in [Alerts -> [status: {"queued_tier1", "tier1_active"} \cup Closed,
                             occurrence_count: 1 .. MaxOccurrences,
                             triage_status: {"pending", "ready", "unavailable"},
                             triaged_count: 0 .. MaxOccurrences + MaxClaims]]
    /\ \A a \in Alerts : /\ job[a].status \in {"pending", "running", "succeeded", "failed"}
                         /\ job[a].attempts \in 0 .. MaxClaims
                         /\ \A r \in llm_runs[a] : /\ r.attempt \in 1 .. job[a].attempts
                                                   /\ r.cost \in 0 .. 2
    /\ \A w \in Workers : Busy(w) => /\ run[w].alert \in Alerts
                                     /\ run[w].paid \in 0 .. 4
    /\ overtaken \subseteq Alerts

Init ==
    /\ alert = [a \in Alerts |-> [status |-> "queued_tier1", occurrence_count |-> 1,
                                  triage_status |-> "pending", triaged_count |-> 0]]
    /\ job = [a \in Alerts |-> [status |-> "pending", attempts |-> 0, error |-> "none"]]
    /\ run = [w \in Workers |-> Idle]
    /\ llm_runs = [a \in Alerts |-> {}]
    /\ spent \in 0 .. Cap   \* what other alerts have cost this month
    /\ overtaken = {}

---------------------------------------------------------------------------
(* The job around the handler. *)

Claim(w, a) ==
    /\ ~ Busy(w) /\ job[a].status = "pending" /\ job[a].attempts < MaxClaims
    /\ job' = [job EXCEPT ![a].status = "running", ![a].attempts = @ + 1]
    /\ run' = [run EXCEPT ![w] = [pc |-> "claimed", alert |-> a, paid |-> 0,
                                  attempt |-> job[a].attempts + 1]]
    /\ UNCHANGED <<alert, llm_runs, spent, overtaken>>

(* finish_job does not ask whether the lease is still this worker's. *)
Finish(w, status, error) ==
    /\ job' = [job EXCEPT ![run[w].alert].status = status, ![run[w].alert].error = error]
    /\ run' = [run EXCEPT ![w] = Idle]
    /\ UNCHANGED overtaken

(* The handler raises: its transaction is rolled back, a permanent error    *)
(* fails the job, any other once the attempts are used up.                  *)
Raise(w, error) ==
    /\ Finish(w, IF error = "permanent" \/ run[w].attempt >= JobMaxAttempts
                 THEN "failed" ELSE "pending", error)
    /\ UNCHANGED <<alert, llm_runs, spent>>

RowsCost(rows) == LET cost(role) == IF \E r \in rows : r.role = role
                                    THEN (CHOOSE r \in rows : r.role = role).cost ELSE 0
                  IN  cost("proposer") + cost("verifier")

CommitApart(w, rows, status) ==
    LET a == run[w].alert
    IN  /\ llm_runs' = [llm_runs EXCEPT ![a] = @ \cup rows]
        /\ spent' = spent + RowsCost(rows)
        /\ alert' = [alert EXCEPT ![a].triage_status = status, ![a].triaged_count = @ + 1]
        /\ run' = [run EXCEPT ![w] = Idle]
        /\ UNCHANGED <<job, overtaken>>

(* The handler returns: rows, status, count and job are one commit. *)
Commit(w, rows, status) ==
    LET a == run[w].alert
    IN  /\ llm_runs' = [llm_runs EXCEPT ![a] = @ \cup rows]
        /\ spent' = spent + RowsCost(rows)
        /\ alert' = [alert EXCEPT ![a].triage_status = status, ![a].triaged_count = @ + 1]
        /\ Finish(w, "succeeded", "none")

Reclaim(a) ==
    /\ job[a].status = "running"
    /\ job' = [job EXCEPT ![a].status = "pending"]
    /\ overtaken' = IF \E w \in Workers : Busy(w) /\ run[w].alert = a
                    THEN overtaken \cup {a} ELSE overtaken
    /\ UNCHANGED <<alert, run, llm_runs, spent>>

Crash(w) ==
    /\ Busy(w)
    /\ run' = [run EXCEPT ![w] = Idle]
    /\ UNCHANGED <<alert, job, llm_runs, spent, overtaken>>

---------------------------------------------------------------------------
(* run_triage_job up to the first call. *)

Skip(w) ==
    /\ run[w].pc = "claimed" /\ alert[run[w].alert].status \in Closed
    /\ Finish(w, "succeeded", "none")
    /\ UNCHANGED <<alert, llm_runs, spent>>

Load(w) ==
    /\ run[w].pc = "claimed" /\ alert[run[w].alert].status \notin Closed
    /\ LET loaded == [pc |-> "propose", alert |-> run[w].alert, attempt |-> run[w].attempt,
                      calling |-> FALSE, paid |-> 0, facts |-> Facts(run[w].alert)]
       IN  run' = [run EXCEPT ![w] = loaded]
    /\ UNCHANGED <<alert, job, llm_runs, spent, overtaken>>

(* Before the call the handler catches nothing.  Facts that cannot be built *)
(* are a ValueError, which is permanent; a decision table that cannot be    *)
(* read is an error classify does not know, which is retried.               *)
LoadRaises(w) ==
    /\ run[w].pc = "claimed" /\ alert[run[w].alert].status \notin Closed
    /\ TRUE \in Settings
    /\ \E error \in {"permanent", "retried"} : Raise(w, error)

Disabled(w) ==
    /\ run[w].pc = "claimed" /\ alert[run[w].alert].status \notin Closed
    /\ FALSE \in Settings
    /\ Commit(w, {}, "unavailable")

(* The proposer prompt fails the linter: a row without a call. *)
LinterStops(w) ==
    /\ run[w].pc = "propose" /\ ~ run[w].calling
    /\ Commit(w, {Row(w, "proposer", Null, 0, "linter")}, "unavailable")

---------------------------------------------------------------------------
(* The calls.  llm/triage._call asks once more after an invalid answer.    *)

Proposing(w) == run[w].pc \in {"propose", "propose_again"}
Verifying(w) == run[w].pc \in {"verify", "verify_again"}
Calling(w) == (Proposing(w) \/ Verifying(w)) /\ run[w].calling

(* The cap is tested before any socket opens; the rest of complete runs    *)
(* while other workers commit.                                             *)
NoCap == spent >= 0

WithinCap == spent < Cap

Dial(w) ==
    /\ Proposing(w) \/ Verifying(w)
    /\ ~ run[w].calling /\ WithinCap
    /\ run' = [run EXCEPT ![w].calling = TRUE]
    /\ UNCHANGED <<alert, job, llm_runs, spent, overtaken>>

(* A failed verification keeps the proposer's cost, a failed proposal not. *)
FailureRows(w, why) ==
    IF Verifying(w) THEN {Row(w, "proposer", Null, run[w].asked, why),
                          Row(w, "verifier", Null, 0, why)}
                    ELSE {Row(w, "proposer", Null, 0, why)}

(* Also in the middle of a call: every retry tests the cap again. *)
CapStops(w) ==
    /\ Proposing(w) \/ Verifying(w)
    /\ ~ WithinCap
    /\ Commit(w, FailureRows(w, "cap"), "unavailable")

(* A timeout, or no connection after the retries: TransientError. *)
CallFailsUnrecorded(w) == Calling(w) /\ Raise(w, "transient")

CallFails(w) ==
    /\ Calling(w)
    /\ IF run[w].attempt < JobMaxAttempts
       THEN Raise(w, "transient")
       ELSE Commit(w, FailureRows(w, "transient"), "unavailable")

(* A 5xx after the retries leaves the adapter as it is, a 4xx as           *)
(* LLMPermanent: the handler catches neither.                              *)
CallRaises(w) ==
    /\ Calling(w)
    /\ \E error \in {"server", "permanent"} : Raise(w, error)

(* A verifier prompt or a repair prompt that fails the linter.             *)
PromptRaises(w) ==
    /\ run[w].pc \in {"propose_again", "verify", "verify_again"} /\ ~ run[w].calling
    /\ Raise(w, "permanent")

(* A statement that fails, wherever the handler is: the idle timeout, the   *)
(* alert, its correlations, the month's sum, the rows, the commit.          *)
DatabaseFails(w) ==
    /\ Busy(w)
    /\ \E error \in {"permanent", "retried"} : Raise(w, error)

Invalid(w) ==
    /\ Calling(w) /\ run[w].pc \in {"propose", "verify"}
    /\ run' = [run EXCEPT ![w].pc = IF @ = "propose" THEN "propose_again" ELSE "verify_again",
                          ![w].paid = @ + 1, ![w].calling = FALSE]
    /\ UNCHANGED <<alert, job, llm_runs, spent, overtaken>>

InvalidAgain(w) ==
    /\ Calling(w) /\ run[w].pc = "propose_again"
    /\ Commit(w, {Row(w, "proposer", Null, run[w].paid + 1, "schema")}, "unavailable")

Proposed(w) ==
    /\ Calling(w) /\ Proposing(w)
    /\ \E p \in Documents :
          LET a == run[w].alert
              answered == [pc |-> "verify", calling |-> FALSE, alert |-> a, attempt |-> run[w].attempt,
                           paid |-> run[w].paid + 1, asked |-> run[w].paid + 1,
                           facts |-> run[w].facts, proposal |-> p,
                           gate |-> Steps1To5(p, run[w].facts, Blocks[a], Table[a])]
          IN  run' = [run EXCEPT ![w] = answered]
    /\ UNCHANGED <<alert, job, llm_runs, spent, overtaken>>

(* The verifier prompt carries the verdict the gate has reached so far. *)
Ready(w, v) ==
    LET g == Step6(run[w].gate, v)
    IN  Commit(w, {Row(w, "proposer", [verdict |-> g.verdict, proposal |-> run[w].proposal],
                       run[w].asked, "none"),
                   Row(w, "verifier", v, run[w].paid + 1 - run[w].asked,
                       IF v = Null THEN "schema" ELSE "none")}, "ready")

Verified(w) ==
    /\ Calling(w) /\ Verifying(w)
    /\ \E v \in Verifications : Ready(w, v)

VerifierInvalidAgain(w) ==
    /\ Calling(w) /\ run[w].pc = "verify_again"
    /\ Ready(w, Null)

---------------------------------------------------------------------------
(* The alert's other actors (AlertLifecycle): merges and the analyst. *)

Merge(a) ==
    /\ alert[a].status \in {"queued_tier1", "tier1_active"}
    /\ alert[a].occurrence_count < MaxOccurrences
    /\ alert' = [alert EXCEPT ![a].occurrence_count = @ + 1]
    /\ UNCHANGED <<job, run, llm_runs, spent, overtaken>>

Acknowledge(a) ==
    /\ alert[a].status = "queued_tier1"
    /\ alert' = [alert EXCEPT ![a].status = "tier1_active"]
    /\ UNCHANGED <<job, run, llm_runs, spent, overtaken>>

Decide(a) ==
    /\ alert[a].status = "tier1_active"
    /\ alert' = [alert EXCEPT ![a].status = "closed_fp",
                              ![a].triaged_count = alert[a].occurrence_count]
    /\ UNCHANGED <<job, run, llm_runs, spent, overtaken>>

Work(w) ==
    \/ \E a \in Alerts : Claim(w, a)
    \/ Skip(w) \/ Load(w) \/ LoadRaises(w) \/ Disabled(w) \/ LinterStops(w)
    \/ Dial(w) \/ CapStops(w) \/ CallFails(w) \/ CallRaises(w)
    \/ PromptRaises(w) \/ DatabaseFails(w)
    \/ Invalid(w) \/ InvalidAgain(w) \/ Proposed(w)
    \/ Verified(w) \/ VerifierInvalidAgain(w)

Next == \/ \E w \in Workers : Work(w) \/ Crash(w)
        \/ \E a \in Alerts : Reclaim(a) \/ Merge(a) \/ Acknowledge(a) \/ Decide(a)

Spec == Init /\ [][Next]_vars

---------------------------------------------------------------------------
Proposers(a) == {r \in llm_runs[a] : r.role = "proposer"}

(* security/gate.py, "Verdict transitions are monotone": a suggestion to    *)
(* close rests on the facts of its own run, on a rule of a reviewed table   *)
(* that holds, on a reason quoted from the prompt, and on a verifier of the *)
(* same run that reached the same verdict.                                  *)
EarnedBy(a, r, rows) ==
    /\ r.facts["severity"] # "critical"
    /\ r.facts["ioc_reputation"] \notin {"malicious", "suspicious"}
    /\ r.facts["asset_criticality"] \notin {"high", "unknown"}
    /\ r.facts["identity_privileged"] # "true"
    /\ r.result.proposal.suggested_action = "false_positive"
    /\ \A field \in BasisFields : r.result.proposal.basis[field] = r.facts[field]
    /\ Table[a].reviewed
    /\ \E rule \in Table[a].rules : /\ rule.id = r.result.proposal.rule
                                    /\ rule.action = "false_positive"
                                    /\ RuleMatches(rule, r.facts)
    /\ \E reason \in r.result.proposal.reasons : Quoted(reason, Blocks[a])
    /\ \E s \in rows : /\ s.role = "verifier" /\ s.attempt = r.attempt
                       /\ s.result # Null /\ s.result.agree
                       /\ s.result.verdict = "false_positive"

Closing(r) == /\ r.role = "proposer" /\ r.result # Null
              /\ r.result.verdict = "false_positive"

FalsePositiveEarned ==
    \A a \in Alerts : \A r \in llm_runs[a] : Closing(r) => EarnedBy(a, r, llm_runs[a])

(* tier1/queue.py shows the latest proposer row beside triage_status: they  *)
(* tell the same story, and there is one row, unless a lease was lost while *)
(* its worker was alive.                                                    *)
OneSuggestion ==
    \A a \in Alerts \ overtaken :
        /\ Cardinality(Proposers(a)) <= 1
        /\ \A r \in Proposers(a) :
              alert[a].triage_status = IF r.result = Null THEN "unavailable" ELSE "ready"

(* llm/adapter.py tests the cap before each call against committed rows, so *)
(* the month's sum passes it by no more than the calls in flight: four a    *)
(* worker, a proposal and its repair, a verification and its repair.        *)
SpendBounded == spent < Cap + 4 * Cardinality(Workers)

(* tier1/triage.py, the last attempt owns the outcome.  A job that settled  *)
(* leaves its alert pending in two cases only.  It skipped an alert that    *)
(* was closed; or it failed by an error the handler does not catch: one     *)
(* that classify calls permanent (a 4xx, a prompt that fails the linter,    *)
(* bad data), or, with every attempt used, a 5xx that outlived its retries  *)
(* or an error of the database or the knowledge base.  A timeout, a lost    *)
(* connection, the cap, an invalid answer and triage switched off never     *)
(* leave one, whatever happens to leases and workers.                       *)
NothingStranded ==
    \A a \in Alerts : alert[a].triage_status = "pending" =>
        /\ job[a].status = "succeeded" => alert[a].status \in Closed
        /\ job[a].status = "failed" =>
              \/ job[a].error = "permanent"
              \/ /\ job[a].error \in {"server", "retried"}
                 /\ job[a].attempts >= JobMaxAttempts
=============================================================================
