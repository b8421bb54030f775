# A verification project for the SOC alert console

The program under `backend/app` receives security alerts, groups them into
clusters, closes the obvious noise by rule, asks a language model for a
suggestion on the rest, and gives analysts a queue in which they decide,
escalate and conclude. Its whole state is in PostgreSQL; worker processes and a
FastAPI process act on it concurrently. Beside it stand command-line tools under
`eval` that build a labelled set of alerts, freeze it, measure the model on it
and decide whether a new prompt may replace the old one. This directory models
both in TLA+, checks the models with TLC, and proves with TLAPS the safety of the
job queue, the intake, the alert lifecycle, the triage job and its messages, the
inventory and the rules that close by it, the accounts, the pages, the gold set, the
programs that feed it, the prompt gate and the answer cache.

## 1. The system

| Component | Code | State | Operations | Interacts through |
|---|---|---|---|---|
| Job queue, worker loop | `infra/jobs.py`, `infra/worker.py`, `web/worker.py` | `jobs`; the claimed `Job` in the worker | enqueue, claim, finish, reclaim; the loop; seed and re-arm of `pull` | every handler; the webhook |
| Intake | `infra/puller.py`, `infra/intake.py`, `web/routers/webhook.py` | `intake`, `source_cursor`, `source_heartbeat` | pull, backfill, replay, receive | enqueues `pipeline` |
| Parser, categories | `ingest/wazuh_parser.py`, `ingest/category.py` | none | parse, resolve | pipeline, webhook, archive tools |
| Pipeline job | `soar/pipeline.py` | the receipt columns of `intake` | parse, cluster, open or merge, receipt | dedup, state machine, enqueues `triage` |
| Deduplication | `ingest/dedup.py` | advisory lock, `alerts.occurrence_count`, `last_seen_at` | lock, look up, bump | row locks against the analysts |
| Enrichment, inventory | `enrichment/inventory.py`, `enrichment/lookups.py` | three inventory tables; files on disk | reload, look up host, user, addresses | pipeline |
| Auto-close | `ingest/autoclose.py` | `autoclose_rules` | evaluate, simulate | pipeline |
| Alert state machine | `domain/transitions.py`, `domain/correlation.py` | `alerts`, `cases`, `case_alerts` | open, acknowledge, decide, escalate, reopen, conclude | CHECKs and unique indexes of `docs/Schema` |
| Triage job | `tier1/triage.py`, `llm/adapter.py`, `audit/llm_runs.py` | `alerts.triage_status`, `llm_runs` | propose, gate, verify, record | worker retries, monthly budget |
| Verdict gate, knowledge base | `security/gate.py`, `kb/lookup.py` | none; files on disk | six deciding steps; load and check a table, a playbook | triage |
| Prompts | `llm/triage.py`, `security/wrap.py`, `security/linter.py` | none | cut to the budget, fence, lint, repair | triage |
| Analyst and labeller views | `tier1/queue.py`, `tier1/visibility.py`, `tier1/labels.py` | none | list, show, strip, label page | correlation, triage |
| Gold labels and freeze | `tier1/labels.py`, `eval/label_export.py` | `triage_labels`, the adjudication sheet, `gold_vN.*` | label, undo, disagreements, freeze | files against the database |
| Accounts and sessions | `infra/auth.py`, `web/deps.py`, the routers | `users`, tokens, `audit_events` | sign in, sign out, refuse, administer | row locks |
| Gold set building | `eval/lab_tag.py`, `eval/build_gold.py` | `alerts.source`, `lab_windows.csv` | tag a window, select, allocate | the pipeline that stores meanwhile |
| Metrics, regression gate | `eval/metrics.py`, `eval/regression_gate.py`, `eval/label_export.py` | run documents | score, agree, compare | each other |
| Cache of model answers | `eval/llm_cache.py` | entries on disk, key locks, spend guard | run a list of items | the adapter |
| Adversarial set | `eval/adversarial/generate.py`, `load.py` | fixtures and manifest on disk, synthetic rows of `alerts` | generate, load, dry run | the pipeline and other loads meanwhile, the freeze |
| Archive folds | `eval/dedup_verify.py`, `scripts/measure_clusters.py` | none | parse, fold, verdict | the parser |

What is hard about it: worker processes that lose a lease while they still work;
transactions at READ COMMITTED whose reads are stale when their writes come; a
`now()` fixed at BEGIN, beside a second clock in the application; unique indexes
and CHECKs that end a transaction half way; crashes between two commits, or
between a commit and a file; a page-by-page read of a source that changes
meanwhile; money spent in a transaction that is rolled back; people who must not
see what others decided. `PROJECT.json` lists each hazard at its line, with the
properties that would catch it going wrong.

What makes each component correct:

- *Job queue*: no job runs twice under a live lease; one live job per key;
  attempts are bounded; exhausted is final; the pull loop does not stop silently;
  every job settles.
- *Intake*: nothing the source holds in time is left behind the cursor; every
  stored alert has a receipt or a job that will give it one.
- *Parser and archive folds*: an alert is the same alert by every way in; the
  clusters counted offline are those the pipeline's predicates make.
- *Deduplication and state machine*: counts equal members; one absorbing head per
  key; a verdict falls on a whole cluster, on what the analyst saw, once; a case
  and its heads agree; the receipt tells what happened.
- *Inventory and auto-close*: the tables hold one version of each file; nothing
  listed as valuable, privileged or hostile is closed by rule; what the
  simulation of a rule says is what the rule does.
- *Triage and gate*: at most one outcome per job, spending within the budget, no
  alert left pending by a settled job, and a suggestion to close that rests on
  its facts, a reviewed rule, a quotation and an agreeing verifier.
- *Prompts and knowledge base*: whatever an alert contains stays inside its
  block; the budget is met or the least possible missed; the rules the verifier
  reads are the rules the gate applies.
- *Views*: a labeller sees nothing of other people's decisions, a blinded analyst
  nothing of the model's answer.
- *Gold labels*: every frozen row has its reason, the database bears a sealed
  version out, a meeting's decisions are not overwritten.
- *Accounts*: guesses are bounded by the lockout, refusals are on record, a
  sign-out ends the tokens before it.
- *Gold set, metrics, gate*: a lab alert has one truth; a sample meets its
  target, floors and caps; a chain of prompts that pass never gets worse.
- *Adversarial set*: a synthetic alert is a fixture, complete and out of the
  workers' sight; a load that says it is done has loaded the set, and the set is
  laid out so that a prompt holds its own payload and no other.
- *Cache*: one answer per request, bounded spending, a run that ends.

## 2. The modules

| Module | What it is |
|---|---|
| `JobQueue` | the `jobs` table, the loop of every worker, time as leases and backoffs that run out |
| `JobQueueProofs` | the inductive invariant of `JobQueue` and its theorems |
| `AlertLifecycle` | `alerts`, `cases`, `case_alerts`, `intake` receipts under worker and analyst transactions |
| `AlertLifecycleProofs` | the invariant of the tables, its seven safety theorems, and the refinement of `ClusterVerdicts` |
| `ClusterVerdicts` | what the alert lifecycle promises, with no tables or sessions; `AlertLifecycle` refines it |
| `Intake` | the puller, backfill, replay and webhook over the indexer, up to the receipt |
| `IntakeProofs` | ledger, window and cursor, for any documents, sessions and clock |
| `Gate` | the steps of the verdict gate and the decision tables, pure |
| `Triage` | the triage job over `Gate`: two model calls, their repair, the cap, the commit, and the alert's other actors |
| `TriageProofs` | what a suggestion to close has earned, that there is one, what it costs, that a settled job leaves nothing pending, and that its messages are sound |
| `Prompt`, `Rulebook` | what goes into a message, and the knowledge base of a category, pure |
| `Messages` | a message of a triage job, over `Prompt` and `Rulebook` |
| `Inventory` | reloads of the inventory files into their tables |
| `AutoClose` | the pipeline's look-ups and rules over `Inventory` |
| `AutoCloseProofs` | what the tables hold and what a rule closes, for any files, reloads, alerts and rules |
| `Views` | what an analyst and a labeller are shown, over two databases side by side |
| `GoldSet` | labels, undo, the adjudication sheet and the freeze |
| `GoldSetProofs` | frozen rows, sealed versions, the meeting's work and the pages, for any people, candidates, heads and freezes |
| `Accounts` | sign-in, lockout, tokens and the account commands |
| `AccountsProofs` | the lockout, the record and the sign-out, for any users, requests and limits |
| `LabWindows`, `Allocation` | the lab half of the gold set, and the allocation of the sample |
| `Scores`, `Agreement` | metrics of a run, agreement of labellers, pure |
| `PromptGate` | the regression gate over a sequence of prompts |
| `Parser`, `Archive` | the parser and its categories; the two offline folds, pure |
| `Adversarial` | the adversarial fixtures, their loads, and the pipeline that stores alerts meanwhile |
| `EvaluationProofs` | `LabWindows`, `Adversarial`, `PromptGate` and `LlmCache`: the truth of the lab, complete and separate fixtures, a chain of prompts that gets no worse, one answer a key |
| `LlmCache` | the bounded pool of a measurement, the cache and its spend guard |

The `MC...` modules hold what TLC needs: small values for the constants, the
symmetry sets, and, where several modules share a run, the next-state relation
that lets one of them move at a time.

How they meet:

- `Intake` and `AlertLifecycle` meet at the receipt: `Intake` follows a row up to
  its job and keeps only whether the job gave it a receipt; `AlertLifecycle`
  starts from rows that have none and models everything the job does.
- `JobQueue` models the job itself: what `Intake` assumes of a live job (that it
  settles) is `JobQueue!Settles`, and the retried, duplicated and overtaken jobs
  of `Intake` and `Triage` are what `JobQueue` shows a lost lease to allow.
- `AutoClose` EXTENDS `Inventory` and takes the step of the pipeline that
  `AlertLifecycle` leaves to chance: whether a new head is closed or queued.
- `Triage` and `Rulebook` EXTEND `Gate`: the table a run uses is a document
  `Rulebook` has let through. `Messages` EXTENDS `Prompt` and `Rulebook` and meets
  `Triage` in its run and in its proofs.
- `PromptGate` and `Agreement` EXTEND `Scores`; `Archive` EXTENDS `Parser`.

## 3. How state and actions correspond to the code

`PROJECT.json` maps each definition to its lines; this section gives the reading.

**JobQueue.** A slot of `JobIds` is a row of `jobs`; `key`, `status`, `attempts`
are its columns. Time is not counted. `due` holds the rows whose `scheduled_at`
has come, `ahead` orders them as `ORDER BY scheduled_at` does, `stale` holds the
running rows whose `locked_at` is older than `JOB_LOCK_TIMEOUT_S`; `LeaseExpires`
and `BackoffElapses` let those moments pass at any time. A terminal row that
nobody holds may be used again for a new insert, which keeps the table finite
while the history goes on for ever. A worker is at `reclaim`, `claim`, `run`,
`rearm` or `down`, in the order of `run_forever`; `held` is the `Job` object it
got, which goes stale exactly as the Python object does. Each commit of
`worker.py` is an action: `Reclaim`, `Claim`, `HandlerSucceeds` (handler work and
`succeeded` in one commit), `Rearm` (the second commit), `Fail` with its three
outcomes and the one where `finish_job` itself raises. `Crash` may happen in any
state; what was not committed is undone. `late`, `reclaimed`, `exhausted` and
`pullFailed` are history that no action reads.

**AlertLifecycle.** The variables above the line "Sessions" are columns of
`alerts`, `cases`, `case_alerts` and `intake`. A transaction whose reads and
writes are covered by one row lock is one action (`Acknowledge`, `Decide`,
`Reopen`, `Conclude`); the two that are not are split where another transaction
can get in. The pipeline: `Begin` fixes `now()`, `Look` waits for the advisory
lock and takes the statement's snapshot, then the head found is locked and
checked again (`Merge`, or `Skip` when the re-check fails, which is what READ
COMMITTED does with `FOR UPDATE`), or a head is opened; `MergeRefused`,
`OpenHeadRefused` and `RejectLate` are the constraint violations the tables raise
and what the job makes of them. The escalation: `EscalateStart` (its reads),
`EscalateInsert` (one `case_alerts` row at a time, in the order of the list),
then `EscalateCommit`, `EscalateStale` (a conflict, surfaced as `StaleState`),
`EscalateRaises` (a CHECK that nothing converts) or `EscalateAborts`. `received`
and `enriching` are written and overwritten inside one transaction and never
committed, so they are not states here. `age`, `older` and `precedes` abstract
timestamps to what the SQL compares: which windows a head is still in, and which
transactions began before a row's `first_seen_at`. The order in which equal
candidates are looked at (`last_seen_at DESC`) is left open.

**Intake.** A document of the indexer has a timestamp once it is `Index`ed, at
most `Lateness` after that time. A session is a pull, a backfill or a batch of
replayed lines, and one transaction: `Begin` reads the cursor, `Fetch` is one
search request, `Store` one hit, `Commit` all of it; `Fails` undoes all of it at
any point. `Pages` says what a page can be: a first part, in timestamp order, of
what the range and `search_after` admit, documents with one timestamp in any
order. `Contended` is the wait on another transaction's uncommitted row. The
webhook is one action, because its transaction has one insert to wait for. Of
the pipeline job `Process`, `Reject`, `Finish` and `Exhaust` keep what it does to
the receipt.

**Gate, Triage.** A gate state is a record of the proposal, the facts, the table,
the verdict so far and which steps failed; each step of `security/gate.py` is an
operator from one to the next. Step 5 records findings and changes nothing, step 7
looks again at the closed sets of step 1: neither is an operator. A worker's run
in `Triage` is at `claimed`, `propose`, `propose_again`, `verify` or
`verify_again`; `calling` says that it is inside `adapter.complete`, between the
test of the cap and the answer. Facts are read once (`Load`) and kept in `run`,
as the Python locals are; the alert goes on without them (`Merge`,
`Acknowledge`, `Decide`). `Commit` is everything the handler and `finish_job`
write in one commit: the `llm_runs` rows, the status, the count and the job.
`Raise` is the rollback, after which a paid call is in no row; it ends the runs whose
error the handler does not catch: `CallRaises` (a 4xx, a 5xx), `LoadRaises` (a decision
table that cannot be read, facts that cannot be built), `PromptRaises` (the linter
refuses the verifier's or a repair prompt) and `DatabaseFails` (any statement). `FailureRows` are
the rows the last attempt leaves. `overtaken` marks alerts whose job was reclaimed
from a living worker.

**Prompt, Rulebook.** Pure. A prompt's size is counted in units of the estimate;
the order of the four cuts and what each one changes are the code's. A text is a
sequence of tokens of the kinds the order of normalise, strip, truncate and escape
can tell apart (an angle bracket and its full-width form, the nonce, a closing
tag, a truncation marker). A repair line is what the error paths may contain. A
knowledge-base category is the two files; a condition's value is a list of words,
an integer, or something else. The one variable of `Messages` is the message that is
built; it never changes, so its invariants are statements about every message.

**Inventory, AutoClose.** A row is found by its key; a load has its own writes
over the committed rows and sees both, as its transaction does. `LoadFile` is one
file: what it read, its upserts and the rows it makes inactive; it waits while
another load holds one of its rows. The history `loaded` is what the committed loads
have read, a scope and a content for each file, in order; `Latest` is the last of a
scope. `mixed` are the scopes last written by loads that overlapped. The pipeline job
reads the rules enabled then, any of them, and each SELECT of the look-ups is a step,
because a reload may commit in between: `LookupAsset` asks for the agent, and
`LookupOrigin`, where that found nothing, for the origin host. `job.now` is the
transaction's `now()`. The history `warned` says
whether the files, as last loaded when a SELECT ran, spoke in what it asked for against
closing the alert. The stored context is one record of the three columns, or none where
the code leaves them null.

**Views.** Two databases hold the same alerts. What somebody may not know moves in
one of them alone: decisions and the other labeller's labels for a labeller, the model's
answer for a blinded analyst. The other steps both take. A page is a function of the
state; the property says the two pages are equal. Where `ORDER BY ... LIMIT` leaves
ties open, a page is the set of results it may have.

**GoldSet.** `labels` are the `gold_offline` rows of a labeller, oldest first;
`sheet` is the adjudication file, `gold`, `sealed` and `records` the csv files,
their sha256 files and the `disagreement` rows. A command reads, writes the csv,
seals it and commits, each a step, and `Crash` may come between any two;
`TornCsv` is a file left open. An undo tests the marker (`UndoBegin`) and deletes
later (`UndoDelete`). `undone`, `early`, `overlap` and `filled` are history: `early`
are the labellers whose undo began while there was no marker, `overlap` those who by
such an undo took back what a freeze had read.

**Accounts.** `users[u]` is the committed row, `lock[u]` the request that holds
it; a request keeps what it read (`seen`) and what it will commit (`row`). `now` of
a request is the clock when its first statement arrived, before any wait; `iat` is
the clock when the token is made. The two differ by what a wait for the row takes.

**LabWindows, Allocation, PromptGate, Scores, Agreement.** `lab_tag` commits, then
appends a row: two steps, and `TagDies` between them. `build_gold` reads the file
once and then one window after another against what is committed by then. The
allocator is a chain of operators from a pool to a sample, one for each pass of the
code. A rate is a numerator over a denominator; over zero it is undefined, as
`None` is. A run document has the set, the gold, the configuration, the thinking mode
and the number of answers that `_MUST_MATCH` compares. `Activate` is the owner putting
a prompt in force that the gate let pass; `Remeasure` and `RunG3` are new runs of the
prompt in force, on any gold and under any conditions, with whatever scores; `DropG3` a
comparison without the adversarial pair. What a chain is held to (`bar`) is history, and
those three set it anew, since nothing compares the new run with the old. A run without
a `prompt_version` is refused in any case and left out.

**Parser, Archive.** A document is a record of what each of its fields carries;
`Missing` is a value not there or of no use. The tables of categories are cut to
the entries that distinguish the tiers. `FoldClusters` is `dedup_verify`, `Measure`
is `measure_clusters`, and `Online` the pipeline's own predicates with the alerts'
times for a clock, the reference both are held to.

**Adversarial.** A fixture is its vector, its pattern, its role, and where `build`
puts it in time and address space; `Planned` is the manifest in the order `plan`
reads it. `alerts[a]` is the committed row. A load looks, inserts and marks, each a
step; between `Insert` and `Mark` its transaction holds the `alert_id` (`Holds`) and
whoever inserts the same one waits. `LoadEnds` at any point is a kill, and what was
not committed is gone. `Pipeline` stores a posted document of a fixture, or an alert
of the pilot with a fixture's key; `late` are the heads whose window has passed.
`forced` and `shown` are history.

**LlmCache.** An item is the key it asks for, an answer the number of the call that
gave it. A thread is at `load`, `lock`, `call` or `write`; the lock of a key is
held from the second read of its entry to the end of the write. `Rerun` is the
process stopped at any point and started again; `Lose` an entry deleted or
unreadable.

## 4. The runs

| Run | Instance | What it shows |
|---|---|---|
| `JobQueueSafety` | 2 workers, 2 keys (one is `pull`), 2 rows, 2 attempts | all safety properties of the queue, with crashes, lost leases and re-used rows |
| `JobQueueLiveness` | 1 worker, fair | every live job settles; `pull` runs again and again |
| `AlertLifecyclePipeline` | 3 alerts of one key, 2 workers, single-transaction analysts | counts, absorbing head, review delta, receipts |
| `AlertLifecycleCases` | 2 alerts, 2 workers, 2 escalating analysts | cases against heads, fan-out, refinement of `ClusterVerdicts` |
| `Intake` | 3 documents of one kind, 2 pulls, pages of 2, 4 time units | nothing left behind; the cursor only set back by an overtaken pull |
| `IntakeSources` | 1 alert, 1 heartbeat, 1 document without an id; pull, backfill, replay, webhook; pages of 1; fair | ledger complete; every alert resolved |
| `Triage` | 1 alert, 2 workers, cap of 1 call, 2 attempts, 3 claims; beside it every message of a small range | suggestions earned and single, spending, nothing stranded but by the errors named; messages sound |
| `AutoClose` | 4 files, 2 administrators, 1 edit; 4 alerts, 2 rules | tables follow files; what is closed by rule is clean; the simulation agrees |
| `Accounts` | 1 user, 2 passwords, 2 requests, lock after 2 failures, 3 clock steps | guesses bounded, refusals on record, sign-out final |
| `GoldSet` | 2 labellers, a peer and a window candidate, 1 undo, 2 freezes; 4 heads on the pages, 3 moves | frozen rows earned and borne out, the meeting kept, nobody primed by a page |
| `Evaluation` | 2 heads, 2 windows, 4 seconds; pools, answer sheets, decks, documents, archives of a small range; a chain of prompts on 2 versions of the gold, in 2 configurations and 2 modes; 3 fixtures, 2 loads, 1 posted fixture, 1 alert with a fixture's key | lab truth, allocation, metrics and gate, parser and folds; fixtures apart and complete |
| `LlmCache` | 2 threads, 4 items on 3 keys, room for 2 calls, 2 runs; fair | one answer a key, bounded spending, the run ends |

Why the bounds are enough to meet the cases:

- *JobQueue*: a lost lease needs two workers; the refused re-queue needs a second
  live row for a key while a first is still held, hence two rows. Two attempts
  separate a first, a last and, with `AttemptBound` 3, a too late run; the count
  saturates there.
- *AlertLifecyclePipeline*: a head, a duplicate and a third alert that finds the
  cluster full, closed or out of its window. One cluster key, because different
  keys share no lock and no row. `Tolerance` 1 and `MaxSize` 3 put both limits
  within reach.
- *AlertLifecycleCases*: two escalations that claim each other's trigger need two
  alerts and two analysts; all alerts are correlated, the case with the most
  conflicts. `MaxPerCase` 2 leaves nothing dropped: the code can drop at most the
  one candidate that the trigger itself replaces, since its query has the same
  LIMIT.
- *Intake*: a cursor that has left the first time unit behind needs
  `Overlap + 2` units; an overtaken pull needs two pulls; an out-of-order page
  needs two hits and a third for the next page. A pull treats all documents with
  an id alike, so `Intake` has one kind of them and `IntakeSources` the rest.
  `Lateness + MaxPull <= Overlap` is assumed by name
  (`OverlapAssumption`): the code configures `PULL_OVERLAP_S` and bounds neither,
  so this is what an operator has to keep true, and `NothingLeftBehind` is
  conditional on it.
- *Triage*: alerts meet only in the month's sum, so one alert and an initial sum of
  0 or 1 from others. Two workers and three claims give a first run, a run
  overtaken by a second, and a run after the last attempt. The three documents are
  one that survives the gate at a count of one, one that would at a count of two,
  and one that never does; the merge that raises the count to two falls anywhere.
  `MaxText` 4 holds a nonce split by a marker; the grid's rules take the bounds of
  `kb/decision_tables` and levels and counts on both sides of each.
- *AutoClose*: overlapping loads have to write one scope from two versions of a
  file, so one edit, two paths for the assets and a second IoC source. Alerts reach each
  branch of each look-up, and one edit moves a host from its origin's name, as `low`, to
its agent's, as `high`; a behaviour either lets loads overlap, without alerts,
  or runs alerts with loads one at a time, because a job in between overlapping
  loads is excused by `mixed` anyhow.
- *Accounts*: users share nothing. Two requests race for the row, the counter
  crosses `LOGIN_MAX_FAILS`, a lock of two steps runs out inside three, and a
  token of three can outlive it.
- *GoldSet*: a second freeze is the first that can find its name taken; one undo
  suffices for a label taken back while a command holds it. The pages need a
  group cut off by `MaxRows` 2, hence four heads.
- *Evaluation*: windows of one second in four can be apart, touch, share a second
  or coincide. The pure parts have one initial state for each input: every
  pool with at most two clusters a category, one of them high, every answer sheet of three clusters,
  every archive of five lines of one key over five instants. The manifest has the
  last row without a neighbour and the first with one, which are next to each other
  in time; the posted document is the neighbour's and the pilot's alert has its key,
  so that either may head the other's cluster. Two loads meet at every step. The gate has
  three conditions of a run: two that differ in the mode and two in the configuration
  alone.
- *LlmCache*: two items of one key meet in the lock, room for two calls is short
  of the three keys, `MaxCalls` 6 is more than two runs can be answered under it
  unless entries are lost.

`CHECK_DEADLOCK FALSE` stands where the system really stops: when every alert of
the instance has its receipt and every cluster is closed (`AlertLifecyclePipeline`),
the job has settled (`Triage`), files and loads are used up (`AutoClose`), the
last freeze is made (`GoldSet`), the last run is over (`LlmCache`), and in the initial
states of `Triage` and `Evaluation` that only hold an input. Symmetry is used only
in runs without liveness properties, over sets whose members the specification
never tells apart.

## 5. Fairness

`JobQueue` assumes that a worker that is up takes its next step, that one that is
down is started again (`restart: unless-stopped` in `docker-compose.yml`), and
that leases and backoffs run out. It assumes nothing of crashes or of enqueues;
`Settles` and `PullPolls` therefore name crashes that never end, and a pull job
that failed for good, as the exceptions they are.

`AlertsAreResolved` speaks of runs in which pulls stop failing: from some time on
the loop is armed and stays so. `Intake` assumes that an armed pull is claimed, that it
goes on, and that a live pipeline job is run, which is `JobQueue!Settles`. A pull that waits for a row of
another session gets it when that one ends (PostgreSQL wakes the waiter), hence
strong fairness of its work; if the other never ends, the statement timeout of
`infra/db.py` ends the wait. Backfills, replays, the webhook and the start of a
worker are not fair.

`LlmCache` assumes that a thread goes on (`cacheFairSpec`). A call is fair in failing, never in being
answered: the adapter's deadline ends it, and nothing more is promised.
Entering the lock of a key is strongly fair, since `threading.Lock` is given to
one of those who wait and the holder always lets it go. A new run is not fair.

The other modules state safety only.

## 6. What is proved

`JobQueueProofs` proves, for every set of workers, keys and rows and every
`JOB_MAX_ATTEMPTS` and `JOB_BACKOFF`, that the specification has each of the
properties of `JobQueueSafety`, and beside them `LiveJobsUnique`: at most one live
row per key, on which they rest. The assumptions are those named in `JobQueue`:
`pull` is a key, there is a worker, attempts are counted past
`JOB_MAX_ATTEMPTS`.

The argument is one inductive invariant in named parts. `LeaseExclusive` alone is
not inductive: a worker that finishes a job must be known to be the only one on
it, or the row it frees could be in another worker's hands. `Exclusive(w, j)`
says that the row is still what the claim of `w` made of it (running, with the
attempts of the claim) and that no other worker holds it. It holds in two
senses, and the properties need both: until the lease ran out under the worker
(`LeaseInv`, for `LeaseExclusive`, `ExhaustedIsFinal` and `KilledOnlyWhenLate`),
and until `reclaim_stale` took the row back (`ReclaimInv`, for `AttemptCap`: a
late finish of a row nobody took back still counts its attempts right). The rest
is one lemma per action of the worker, each split over the conjuncts the action
can disturb.

`AlertLifecycleProofs` proves, for any alerts, keys, correlation, workers, analysts and
limits, each safety property of the two lifecycle runs and that the tables implement
`ClusterVerdicts`. One inductive invariant serves them all, since no property is
inductive alone:

- `CountsAreTrue` (`CountMatchesMembers`) needs clusters that are one level deep
  (`Depth`): a merge counts at the head it locked, and that row must not itself be a
  duplicate.
- `AbsorbingHeadIsOne` (`OneAbsorbingHead`) needs `Locks`: of the workers that hold
  a snapshot no two have the same key, and whatever absorbs that key is among the
  snapshot's candidates, but for a head that a rule had closed and a person has
  taken up. That exception is the one of the property.
- `DecisionsWereSeen` (`DecidedOnWhatWasSeen`) needs `Shut`: what a person closed
  absorbs nothing, so its count stands still after the decision.
- `FanOutIsComplete` (`FanOutComplete`) is proved of the duplicate instead of the
  head (`FanOut`): a row that points to a head has the head's verdict, or is a
  plain duplicate while there is none.
- `CasesAlwaysAgree` (`CasesAgree`) needs `CaseRows` and `Escalations`: a case is
  named by one of its own heads, and an escalation that stands between its reads and
  its commit has its trigger still in the list or among what it inserted.
- `ReceiptsTellTruth` (`ReceiptTellsTruth`) goes through as it is.
- `VerdictsStayFinal` (`VerdictsAreFinal`): `Merge` is `Join`, an accepted `OpenHead`
  is `Open`, `Decide` is `Close` of one head, `Conclude` is `Close` of the heads of the
  case, and every other step stutters. That `Conclude` closes only open clusters
  is `CasesAgree`.

The assumptions are `TableAssumption` and `CeilingAssumption`: the limits are
positive, and a conclusion has a status for its alerts. The set of alerts may be
infinite; what is stored is finite by the invariant.

`IntakeProofs` proves the safety of the intake for any documents, sessions, page
size, overlap and clock:

- `LedgerStaysComplete` (`LedgerComplete`) is inductive with the types.
- `NothingStaysBehind` (`NothingLeftBehind`). Call a document missed if it is
  indexed, shares its timestamp with no other, and is not stored. Two parts carry
  the proof. `Ahead`: a missed document is inside the window the committed cursor
  leaves to the next pull. `Passing`: a pull on its way has it still before it, has
  it in hand, or began no later than `Lateness` after the document's timestamp; the
  last may have gone past before the indexer had the document, but ends within
  `MaxPull`, and by `Lateness + MaxPull <= Overlap` the cursor it commits leaves the
  document to the pull after. `Clocked`, `Anchored` (a cursor is the timestamp
  of some document) and `Ordered` (a page is in order, and a session ends on its last
  hit) are the lemmas on which the step of a page rests.
- `CursorMovesForward` (`CursorMovesOn`): the cursor goes back only in the commit of
  a pull whose first read another commit has made stale.

The assumptions are `DocumentAssumption` (kinds of documents are disjoint, a page
has at least one hit) and `OverlapAssumption`, which section 4 explains: the code
does not guarantee it, an operator has to.

`TriageProofs` proves, for every alert, worker, fact, document, table and prompt
block:

- `VerdictMonotone`: a step of the gate makes a verdict `needs_review` or leaves
  it. It is what `security/gate.py` says of itself.
- `GateEarned`: a verdict of `false_positive` after the first five steps means that
  each of them was survived: the hard facts, the basis against the facts, a rule
  of a reviewed table that holds, a reason quoted from the prompt.
- `FalsePositivesAreEarned`: `Spec => []FalsePositiveEarned`. A stored suggestion
  to close has passed `GateEarned` on the facts of its own run and has an agreeing
  verifier row of the same attempt beside it. The inductive invariant adds to the
  property what a worker between its two calls holds: that its gate state is the
  outcome of steps 1 to 5 on the proposal, the facts and the table it keeps,
  whatever the alert and the job have become meanwhile. That is why the argument
  survives a lost lease: nothing the commit writes is read after the load.
- `SuggestionIsOne` (`OneSuggestion`): until a lease is lost under a worker, it has
  its alert for itself (`Alone`), and the proposer row of an alert comes with the
  commit that ends its job and with the status that says so (`OneRow`).
- `SpendStaysBounded` (`SpendBounded`): the cap is tested before a call and the call
  is billed with the commit. `WithinReach` says that what is billed is below the cap,
  or above it by no more than four calls for each worker that now has nothing to
  bill: such a worker is one whose last commit may have gone beyond it, and whoever
  still owes went to the model while there was room.
- `NothingIsStranded` (`NothingStranded`): `Settled` says which job statuses leave an
  alert pending and by which errors, and it keeps for overtaken alerts too. That an
  error which is retried ends a job only with all attempts used needs the attempt a worker
  holds to be no more than the job's (`Counted`).

- `MessagesAreSound`: `messageSpec => []MessageSound`, from five theorems about the
  pure modules:
  - `PromptsFit`: the proposer's prompt is within its budget or cut as far as it can be,
    no cut is made that a smaller one would have spared, and each cut that changed
    something has its warning. The proof gives the prompt after the first `i` cuts in
    closed form (`StateAt`) and goes down the ladder rung by rung.
  - `MessagesAreOurs`: whatever tokens a text holds and wherever it is cut, the message
    has one block, the nonce is in its two tags and nowhere else, and a truncation
    marker is reported exactly if the part that was kept brought one along. A message is
    followed token by token (`IsFramed`); that the linter, which scans for tags from
    the left, finds exactly this block is `OneBlock`.
  - `RepairsAreOurs`: a line of the repair round is made of `REPAIR_CONSTANTS`, for
    every error with one separator; an unexpected key that brings a second one is the
    exception `RepairIsOurs` states. The loop of `_object_prefix` drops the last step of
    a path until the schema has an object there; the path gets shorter each time, so it
    ends at an object or at the root.
  - `RulebooksAreSound`: the rules the verifier is shown are those the gate may find to
    hold, each with its own condition, but for the identifiers section 7 names.
  - `GridIsEnough`: two rules that contradict each other anywhere do so on the grid of
    `CheckConsistency`, because a level or a count is on the same side of every
    bound as the highest grid point below it.

The assumptions are those named in `Triage`, `Prompt`, `Rulebook` and `Messages`: the
cap and the attempts are positive integers, workers and alerts finite sets (there is a
worker), a document's action is one of the verdicts; the limits of a prompt are numbers
and each cut is below the limit it cuts; a rule the builder shows is one the loader
admits; a message is one the code can be asked to build.

`AccountsProofs` proves the three properties of the run `Accounts`, for any users,
passwords, requests in flight and limits:

- `LockoutHolds` (`GuessesBounded`). The counter is not reset when a lock runs
  out, so "at most `LOGIN_MAX_FAILS`" is false and the bound must grow with time.
  The invariant is about a row, `Late(row)`: a counter at the limit is locked,
  and one whole `LOCKOUT` lies behind it for each failure beyond the limit. A wrong
  password is let in only when `locked_until` has passed, and pushes the row one
  `LOCKOUT` further. That this is about the committed row, and not one of two
  requests' copies of it, is the row lock of `SELECT ... FOR UPDATE`: what a
  request between its read and its commit has seen is still the row (`RequestOK`).
- `AnswersAreOnRecord` (`OnRecord`): the `authz.denied` row and the account's one
  `admin.user_created` row are there whatever commits in between.
- `SignOutsHold` (`SignedOutUnlessMovedBack`): a token signed out is of an inactive
  account, or older than `sessions_invalid_before`, or of an account whose mark an
  older transaction has moved back. The last disjunct is the hazard at
  `infra/auth.py` that `now()` is the start of a transaction; nothing else opens
  a token again.

The assumptions (`LimitAssumption`): the limits are positive, `Null` is neither
a row nor a request.

`AutoCloseProofs` proves the three properties of the run `AutoClose`, for any files and
contents, path lists, administrators, alerts and rules:

- `TablesFollow` (`TablesFollowFiles`). Its invariant `TablesInv` says of the committed
  rows and of each load under way the same things. `LocksAreHeldByOne`: no two loads
  have written one row. `WritesComeFromFiles`: what a load has written, its files say.
  `RowsAreOwned`, `WritesAreOwned`: a row bears the scope of the file that named its
  key last, so that one scope's reload cannot make another's row inactive.
  `LoneLoadsFollow`: what a load that runs alone would commit now is what
  the files it has taken so far say. The property is the last of these at the commit;
  `mixed` holds the scopes for which it is not so.
- `ClosedAreClean` (`ClosedIsClean`). `warned` is read from the files as last loaded and
  what the job acts on from the tables; `RowsSayWhatFilesSay` ties the two where
  `mixed` is empty, so that a job that was warned has a reason against closing in what it
  read (`WarningsAreRead`), and keeps it whatever is loaded afterwards. A host has two
  names and each is asked for at its own moment: the theorem is of what each SELECT was
  told; of one version of the files for both names it would be false (section 7).
- `SimulationIsExact` (`SimulationAgrees`): of the rules in force, the job closed by the
  oldest one that the simulation says closes the stored row, or by none if there is none.

The assumptions are `InventoryAssumption` (a broken file is no version of one, lists of
paths name files) and `AutoCloseAssumption` (a rule is malformed or a list of fields
with allowed values).

`GoldSetProofs` proves the four properties of the run `GoldSet`, for any candidates,
labels, undos and freezes, any two labellers, and any heads and page sizes:

- `GoldIsEarned` (`GoldEarned`). A reason must survive two things: the moment
  between a command's reading and its writing, and the sheet on disk, which was
  printed earlier from labels that may be gone. `SheetsShow` says that a row of the
  sheet shows the labels there are unless one of them was taken back, and that the two
  differ in any case; `RowsReasoned` carries the reason from the read to the file.
- `SealedIsBorneOut` (`SealedBorneOut`), of every sealed version: `LabelsStay` says of
  them, and of the one a command is about to seal, that their labels are there but for
  those of the labellers in `overlap`; `UndosEarly`, that an undo under way found no marker,
  which is the only way into `overlap`. Where version 1 was torn there is never a
  marker and any undo may lead there: the theorem excuses it (section 7). `VersionsKept`
  ties the version a command seals and records to the rows it read.
- `MeetingIsKept` (`MeetingKept`): a command about to overwrite the sheet found
  nothing decided in it, so what is lost was written in between (`NothingDecided`).

- `PagesUnprimed`: `viewsSpec => []NobodyPrimed`. Each page is a function of the
  state, or the set of results its sort may have, and the proof finds for each the part
  of the state it is a function of, which the two worlds share: the statuses a blinded
  analyst sees, the labeller's own labels, and nothing of what was said. That the
  labeller's rows do not depend on the decisions either is proved where the groups by rule,
  category and status are at most the LIMIT, since then nothing is cut before they are
  regrouped (`SameCorrelation`); beyond it it is false (section 7).

The assumptions: no candidate is both of people and of a window, there are two
labellers, `Null` is no label and no sheet; the heads are a finite set
(`ViewsAssumption`).

`EvaluationProofs` proves the safety of the specifications of the run `Evaluation`,
and of the run `LlmCache`:

- `LabIsTrue` (`LabTruth`), for any heads, agents, scenarios and rules.
  `assert_windows_disjoint` sorts the windows and compares neighbours; that a candidate
  has one truth needs any two windows apart (`ReadApart`). The lemma
  `DisjointMeansApart` gets one from the other: the earliest window after a window is
  its neighbour, and begins no later than any other that follows. `RowsTrue`, `DoneWhole`
  and `StillThere` say that a build that is under way has taken all that its finished
  windows gave it, from a table and a file that only grow.
- `FixturesAreSound` (`FixturesSound`), for any manifest, any number of loads and
  any documents posted meanwhile. `OneHolder`: whoever inserted a row and has not
  committed it is alone with it, and nothing is there for others to see.
  `PassedLoaded`: what a load has gone past is in the table, by its own hand or
  another's, so that a load killed and begun again ends complete. `JobsHaveRows`: no job of a fixture that the
  evaluation did not ask for. That a target is shown its own neighbour and no other
  fixture is arithmetic on the layout of `generate.py` (`Spaced`): targets lie further
  apart than the window of the correlation, a neighbour nearer.

- `GateHolds`: `gateSpec => []NoneSlips`, for any gold, manifest, conditions and answers.
  The gate compares two documents only, so that a chain of prompts gets no worse rests on
  what comparable documents share: the denominator of a recall is a number of the gold and
  not of the run, so two rates over one gold are compared by their numerators, and the
  comparison is transitive; and what a run was measured on and under is equal along the
  whole chain. A chain begins anew where the prompt in force is measured again, on either
  set, or the adversarial pair is dropped: across that the theorem claims nothing.
- `OneAnswer` (`OneAnswerPerKey`), for any threads, list of items, retries and cap:
  between its second look and its write a thread
  holds the key's lock and the entry is still missing, so what was given out for a
  key is what its entry says (`CacheInvariant`).
- `SpendIsBounded` (`SpendBounded`): the guard is looked at before a call and billed
  after it, so calls in flight are not yet counted. The invariant is that what
  is billed and the calls in flight together exceed the room by at most one call a
  thread, less one; it counts the callers, which is why the threads must be a
  finite set that is not empty.

The assumptions: `LabAssumption`, `AdversarialAssumption` (the manifest is a sequence of
rows of known vectors and patterns), `AbsentAssumption` (no row is not a row),
`GateAssumption` (a gold has finitely many clusters, each with a truth), `CacheAssumption`.

The library's induction theorems take an operator as a parameter, which the
provers here cannot instantiate. Where a proof needs induction over numbers it takes a
least counterexample instead, from the well-founded order on `Nat` (`LeastNumber`): the
greatest timestamp below a bound in `IntakeProofs`, the neighbour of a window, the last
file of a scope, the first tag the linter meets, the shortest path `_object_prefix` comes
to, and that `Planned`, defined by a recursive function, exists and is a sequence of
fixtures.

What TLC checks and no theorem states:

- liveness and everything that needs ENABLED (`Settles`, `PullPolls`,
  `AlertsAreResolved`, `RunEnds`), which the prover does not reach;
- `AllocationSound`: the allocator is a chain of RECURSIVE operators and sorts, which no
  module with a theorem may reach;
- `PapersFit`: metrics and archive folds are sums over data, and what they compute for
  every input needs induction over it;
- the sizes in `Triage!TypeOK`, which are bounds of the instance.

## 7. Where the code and its documents disagree

Each of these is a behaviour a module has because the code has it. Where a property
bounds it, the property is named.

- *A job's error can end the worker.* `finish_job` can raise inside the `except`
  block (`infra/worker.py:96`); the docstring (50-52) says no exception escapes.
  `KilledOnlyWhenLate` bounds it: only on a job whose lease was lost, or with a
  `JOB_BACKOFF` too short for `JOB_MAX_ATTEMPTS`.
- *Attempts are not capped for a job that kills its worker.* `reclaim_stale`
  (`infra/jobs.py:175`) does not look at `attempts`; `docs/runbook.md:50` gives
  `JOB_MAX_ATTEMPTS` as attempts per job. `AttemptsCounted` bounds it: a job never
  reclaimed keeps within the limit.
- *`now()` can go back.* `bump_parent` writes `last_seen_at = now()` with a
  `now()` from before its wait for the advisory lock; the comment
  (`ingest/dedup.py:99-101`) says it only moves forward. The CHECK of the table
  refuses such a merge and the alert is rejected for good; `ReceiptTellsTruth`
  says that the receipt tells so.
- *`StaleState` is not the only error of an escalation.* `escalate`
  (`domain/transitions.py:509`) updates heads whose status it read earlier and
  meets a CHECK that nothing converts, against the module docstring (9-12). The
  CHECK does protect the verdict: `VerdictsAreFinal` holds.
- *Equal timestamps.* `search_after` by timestamp alone (`infra/puller.py:114`)
  skips documents with equal timestamps at the end of a page, against
  `docs/plan/tasks/P2/P2-T11.prompt.md:11` ("enters `intake` exactly once").
  `NothingLeftBehind` bounds it: nothing else is lost. A first pull over history,
  or one after an outage, reads each document in one pull only, so there no second
  pull with other page boundaries repairs it.
- *A sign-out does not always end every token before it.* `infra/auth.py:209` and
  215 compare the application's clock with the database's `now()` of a
  transaction that may have waited; an earlier sign-out that commits later even
  moves the instant back. `docs/plan/tasks/P4/P4-T01.prompt.md:11` promises it
  outright. `SignedOutUnlessMovedBack` is what does hold.
- *A failed job can leave an alert pending.* `docs/plan/tasks/P3/P3-tasks.md:168` says
  "The handler owns the terminal outcome on the last attempt; it never raises there." It
  catches a timeout, a lost connection and the cap, but a 5xx that outlives the adapter's
  retries leaves it as it came (`llm/adapter.py:195`), and the handler with it, the last
  attempt included; `docs/runbook.md:142` tells operators so. The same goes for a 4xx, for
  a decision table that cannot be read, facts that cannot be built, a statement that fails
  (`tier1/triage.py:370-401`) and a verifier or repair prompt the linter refuses (526,
  `llm/triage.py:664`).
  `NothingStranded` bounds it: permanent errors, and retried ones with all attempts used,
  are the only cases beside a closed alert.
- *A host is looked up in two versions of the inventory.* `docs/plan/00-context-pack.md:30`
  (G8') says "Never auto-close: [...] `asset.criticality = high`, **asset not in
  inventory**". `lookup_asset` (`enrichment/lookups.py:28-30`) asks for the agent and,
  where there is none, for the origin, two SELECTs at READ COMMITTED. A reload between them that
  adds the agent as `high` and lowers the origin from `high` lets the alert be closed, though
  the old version had the origin `high` and the new one has the agent `high`.
  `ClosedIsClean` is what does hold: nothing a SELECT was told is ignored.
- *The undo is not always refused once the gold set is frozen.* `tier1/labels.py:571` says
  "`Frozen` once the gold set is frozen"; the code asks for `gold_v1.sha256` (573). A
  freeze that died between `gold_v1.csv` and its seal never makes that file, since the next
  one takes the name of version 2 (`eval/label_export.py:740`). `SealedBorneOut` names
  the labellers of such undos as its exception.
- *A labeller's rows can depend on decisions.* `tier1/labels.py:12` says "`source`,
  `status` and everything LLM-derived never enter the process". The correlation groups by
  status and cuts to 20 groups (`domain/correlation.py:98-101`) before `_g2_correlation`
  regroups without it: with more groups, which clusters are counted depends on their
  statuses. `NobodyPrimed` is what does hold.
- *`needs_retriage` counts two different things.* `tier1/queue.py:182` compares
  occurrences with `triaged_count`, which a triage run raises by one and a
  decision sets to the count of occurrences.
- *A rule identifier can be valid and unreadable.* The loader's pattern
  (`kb/lookup.py:52`) admits `c2b-1`, the prompt builder's (`llm/triage.py:530`)
  does not: such a rule is in force at the gate and not in the verifier's prompt.
  `MessageSound` holds of every rule the builder can show.
- *An empty playbook file raises `IndexError`* (`kb/lookup.py:187`) instead of
  the errors the loader names.
- *The measurement and the verification fold differently.* `measure_clusters`
  folds in the order of the archive (3,070 clusters in its docstring), the
  verification in order of time (3,051 in the tests). `PapersFit` says, among the rest, that
  they agree on an archive in order of time.
- *`compute_verdict` passes whatever was counted when nothing is expected*
  (`expect` 0, `eval/dedup_verify.py:230`).

And four limits the code knows or has not met yet: `submit_label` asks for no
freeze marker (recorded in `P8-T04.review.md:34`), so labels can be added under a
sealed version, while `SealedBorneOut` says none it rests on goes away but by an undo that
began without a marker; `SpendGuard` starts at zero in every process, so a rerun
spends its room again, and the cache has no caller in the repository yet;
overlapping reloads, and a file changed between the validation and the load,
leave rows of two versions active until one reload runs alone
(`TablesFollowFiles`); the look-up of an open cluster does not ask whether the head
is synthetic (`ingest/dedup.py:89`, told in `docs/plan/tasks/P6/P6-T04.report.md:118`),
so for the idle gap after a load a pilot alert with a fixture's key is merged under the fixture,
a step `Adversarial` has and no property forbids.

## 8. What is not modelled

Of the modelled components: error texts, log lines, the audit rows written
beside each transition (except those `Accounts` is about); `rejected_alerts`,
`source_heartbeat`, `last_pull_at` and `last_error`, which no code reads;
`backfill --until`; what `validate()` looks for in an inventory file, which is
abstracted to a content it refuses; notes, confidences and free text of labels;
step 7 of the gate, which looks at the closed sets a second time. Durations appear as events that may
happen at any time, never as numbers, except in `Intake`, `Accounts` and the
folds, which are about them.

Not modelled at all:

- *Risk score*: one sum of table entries with a cap, without state; nothing
  decides on it. `Views` takes it as given.
- *Audit trail*: an append-only INSERT inside transactions that are modelled.
- *Detector patterns and `output_guard`*: regular expressions over text, whose
  findings are recorded and decide nothing.
- *Rendering, configuration, reporting*: pages, environment variables, reports
  and exports read state and write text.
- *Operations scripts*: `ops_export`, the smoke test, the shell around `pg_dump`.
- *Random draws*: bootstrap resamples, the sample inside a stratum, and the
  labeller's permutation, which is taken as given.
- *Empty stubs*: one-line modules with no code yet, `run_configs.py` among them;
  so the writer of `eval_runs` and the owner who puts a prompt in force are
  actors of `PromptGate` without lines, and so is the evaluation that asks for a
  triage of the fixtures (`Evaluate` of `Adversarial`).

## 9. Plan

What is left, in order of what matters most:

1. Composition: `JobQueue` with `Triage` sharing the jobs table, so that
   `overtaken` becomes the queue's `reclaimed` and the assumption on live jobs is
   discharged in one model.
2. The month's figures of `eval/ops_export.py` against the tables they are read
   from while workers write them.
3. `AllocationSound` and `PapersFit` for more than the instances of `Evaluation`: each pass
   of the allocator, and each sum, as a recursive function with the least counterexample
   that stands for induction.
