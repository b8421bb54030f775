------------------------------ MODULE AutoClose ------------------------------
(***************************************************************************)
(* How the pipeline enriches an alert that is no duplicate and closes it   *)
(* by rule or queues it (soar/pipeline.py, enrichment/lookups.py,          *)
(* ingest/autoclose.py), while administrators reload the inventory and     *)
(* switch rules.  The job is one transaction, so now() is its beginning;   *)
(* the rules are read first, then each SELECT of the lookups sees what is  *)
(* committed when it runs (READ COMMITTED): a reload may commit between    *)
(* any two of them, those for the two names of a host included.            *)
(*                                                                         *)
(* An alert is the fields the decision reads.  A rule is a sequence of     *)
(* [field, allowed] conditions; eq, in, cidr, prefix and lte all come down *)
(* to the set of values the condition lets through.                        *)
(***************************************************************************)
EXTENDS Inventory

CONSTANTS
    Alerts,     \* [agent, origin, user, addresses, severity] records
    Null,       \* a field the alert does not have
    NeverAgents,\* NEVER_AUTOCLOSE_AGENTS
    Rules,      \* the autoclose_rules rows, oldest first
    Malformed,  \* a match the whitelist refuses
    LastInstant \* bound of the model on the database's clock

ASSUME AutoCloseAssumption == /\ Rules \in Seq({Malformed} \cup Seq([field : STRING, allowed : SUBSET STRING]))
                              /\ LastInstant \in Nat

VARIABLES
    clock,
    job       \* the pipeline job: its step, what it has read, what it decided

vars == <<inventory, clock, job>>

Init == /\ InventoryInit
        /\ clock = 1 /\ job = Idle

---------------------------------------------------------------------------
(* What the files, as last loaded, say, for the history of a decision: a    *)
(* key belongs to the file that named it last, and is listed as long as     *)
(* that file does not leave it out.                                         *)
Named == UNION {DOMAIN loaded[i].content : i \in DOMAIN loaded}
Naming(k) == {i \in DOMAIN loaded : k \in DOMAIN loaded[i].content}
Last(k) == CHOOSE i \in Naming(k) : \A j \in Naming(k) : j <= i
Listed(k) == k \in Named /\ Latest(Last(k))
Said(k) == loaded[Last(k)].content[k]

Bad == {"malicious", "suspicious"}

Agent(a) == <<"asset", a.agent>>
Origin(a) == <<"asset", a.origin>>
OtherName(a) == a.origin \notin {Null, a.agent}

FilesBlockName(k) == ~Listed(k) \/ Said(k) = "high"
FilesBlockAgent(a) == IF Listed(Agent(a)) THEN Said(Agent(a)) = "high" ELSE ~OtherName(a)
FilesBlockUser(a) ==
    LET k == <<"identity", a.user>>
    IN  a.user # Null /\ Listed(k) /\ Said(k) = "true"

(* The non-empty addresses whose private flag is not True.                 *)
Candidates(a) == {x.ip : x \in {x \in a.addresses : x.private # "true"}}

FilesBlockAddress(a) ==
    \E k \in Named : /\ Listed(k) /\ k[1] = "ioc" /\ k[2] \in Candidates(a)
                     /\ Said(k).reputation \in Bad /\ job.now < Said(k).until

---------------------------------------------------------------------------
WellFormed(r) == Rules[r] # Malformed

(* load_rules: the enabled rules, a malformed one left out whole.  They    *)
(* are the numbers of the rows, the oldest first.                          *)
LoadRules(enabled) == {r \in enabled : WellFormed(r)}

(* The rules enabled when a job begins are any: nothing else reads them.   *)
Begin(a, enabled) ==
    /\ job.pc \in {"idle", "closed", "queued"}
    /\ job' = [pc |-> "asset", alert |-> a, rules |-> LoadRules(enabled), now |-> clock,
               warned |-> FALSE, present |-> FALSE, criticality |-> "unknown",
               privileged |-> "null", reputation |-> "skipped"]
    /\ UNCHANGED <<inventory, clock>>

Warn(files) == job.warned \/ (files /\ mixed = {})

(* _select_asset: what a SELECT finds of a host goes into the job. *)
Found(k) == [job EXCEPT !.present = Active(k),
                        !.criticality = IF Active(k) THEN rows[k].value ELSE "unknown"]

(* lookup_asset: the agent's name, then the origin's if there is another.  *)
LookupAsset ==
    /\ job.pc = "asset"
    /\ LET a == job.alert
           more == ~Active(Agent(a)) /\ OtherName(a)
       IN job' = [Found(Agent(a)) EXCEPT
                    !.pc = IF more THEN "origin" ELSE "identity",
                    !.warned = Warn(FilesBlockAgent(a))]
    /\ UNCHANGED <<inventory, clock>>

LookupOrigin ==
    /\ job.pc = "origin"
    /\ LET a == job.alert
       IN job' = [Found(Origin(a)) EXCEPT
                    !.pc = "identity",
                    !.warned = Warn(FilesBlockName(Origin(a)))]
    /\ UNCHANGED <<inventory, clock>>

LookupIdentity ==
    /\ job.pc = "identity"
    /\ LET user == <<"identity", job.alert.user>>
       IN job' = [job EXCEPT !.pc = "ioc",
                    !.privileged = IF job.alert.user # Null /\ Active(user)
                                     THEN rows[user].value ELSE "null",
                    !.warned = Warn(FilesBlockUser(job.alert))]
    /\ UNCHANGED <<inventory, clock>>

Matching(a) == {k \in DOMAIN rows : /\ k[1] = "ioc" /\ k[2] \in Candidates(a)
                                    /\ rows[k].active /\ job.now < rows[k].value.until}

Worst(reputations) == CASE "malicious" \in reputations -> "malicious"
                        [] "suspicious" \in reputations -> "suspicious"
                        [] OTHER -> "clean"

(* Mutant: the first row wins, whatever it says.                           *)
ReputationFirst(a) == CASE Candidates(a) = {} -> "skipped"
                        [] Matching(a) = {} -> "not_found"
                        [] OTHER -> rows[CHOOSE k \in Matching(a) : TRUE].value.reputation

Reputation(a) == CASE Candidates(a) = {} -> "skipped"
                   [] Matching(a) = {} -> "not_found"
                   [] OTHER -> Worst({rows[k].value.reputation : k \in Matching(a)})

LookupIoc ==
    /\ job.pc = "ioc"
    /\ job' = [job EXCEPT !.pc = "decide", !.reputation = Reputation(job.alert),
                 !.warned = Warn(FilesBlockAddress(job.alert))]
    /\ UNCHANGED <<inventory, clock>>

---------------------------------------------------------------------------
(* What the decision compares, from the job's context or from a stored row. *)
Value(fields, field) ==
    CASE field = "agent_name" -> fields.agent
      [] field = "asset_criticality" -> fields.criticality
      [] field = "identity_privileged" -> fields.privileged
      [] field = "ioc_reputation" -> fields.reputation

Matches(r, fields) ==
    \A i \in DOMAIN Rules[r] : Value(fields, Rules[r][i].field) \in Rules[r][i].allowed

FirstMatch(rules, fields) ==
    CHOOSE r \in rules : /\ Matches(r, fields)
                         /\ \A s \in rules : Matches(s, fields) => r <= s

HardBlocked(fields) == \/ fields.severity = "critical"
                       \/ fields.agent \in NeverAgents
                       \/ fields.criticality = "high"
                       \/ ~fields.present
                       \/ fields.privileged = "true"
                       \/ fields.reputation \in Bad

Fields == [agent |-> job.alert.agent, severity |-> job.alert.severity,
           present |-> job.present, criticality |-> job.criticality,
           privileged |-> job.privileged, reputation |-> job.reputation]

(* The three JSON columns of the head's row.                               *)
Columns == [asset_context |-> [present |-> job.present, criticality |-> job.criticality],
            identity_context |-> job.privileged, ioc_context |-> job.reputation]

(* The row of a head: open_alert stores the context of one closed by rule, *)
(* finish_enrichment that of one queued.  <<>> stands for null columns.    *)
Row(context) == [agent |-> job.alert.agent, severity |-> job.alert.severity,
                 context |-> context]

(* Mutant: a head closed by rule is stored without its context.            *)
OpenHeadBare(closed) == Row(IF closed THEN <<>> ELSE <<Columns>>)

OpenHead(closed) == Row(<<Columns>>)

(* evaluate: no rule is tried on a blocked alert; for a critical one the   *)
(* rule that would have matched is named in an audit event.                *)
Evaluate ==
    /\ job.pc = "decide"
    /\ LET matched == \E r \in job.rules : Matches(r, Fields)
           closed == ~HardBlocked(Fields) /\ matched
           flagged == job.alert.severity = "critical" /\ matched
       IN job' = [pc |-> IF closed THEN "closed" ELSE "queued", rules |-> job.rules,
                  row |-> OpenHead(closed), warned |-> closed /\ job.warned,
                  rule |-> IF closed THEN FirstMatch(job.rules, Fields) ELSE 0,
                  event |-> IF flagged THEN FirstMatch(job.rules, Fields) ELSE 0]
    /\ UNCHANGED <<inventory, clock>>

(* simulate: the same decision for one candidate rule, over a stored row   *)
(* whose context is rebuilt, a missing one as an asset not in the          *)
(* inventory.                                                              *)
Rebuilt(row) ==
    IF row.context = <<>>
      THEN [agent |-> row.agent, severity |-> row.severity,
            present |-> FALSE, criticality |-> "unknown",
            privileged |-> "null", reputation |-> "not_found"]
      ELSE LET columns == row.context[1]
           IN  [agent |-> row.agent, severity |-> row.severity,
                present |-> columns.asset_context.present,
                criticality |-> columns.asset_context.criticality,
                privileged |-> columns.identity_context,
                reputation |-> columns.ioc_context]

SimulateCloses(r, row) == ~HardBlocked(Rebuilt(row)) /\ Matches(r, Rebuilt(row))

(* The job's transaction fails and a later attempt starts it again.        *)
JobFails == /\ job.pc \in {"asset", "origin", "identity", "ioc", "decide"}
            /\ job' = Idle
            /\ UNCHANGED <<inventory, clock>>

Tick == clock < LastInstant /\ clock' = clock + 1 /\ UNCHANGED <<inventory, job>>

PipelineNext == \/ \E a \in Alerts, enabled \in SUBSET DOMAIN Rules : Begin(a, enabled)
                \/ LookupAsset \/ LookupOrigin \/ LookupIdentity \/ LookupIoc \/ Evaluate \/ JobFails

Next == \/ InventoryNext /\ UNCHANGED <<clock, job>>
        \/ PipelineNext
        \/ Tick

Spec == Init /\ [][Next]_vars

---------------------------------------------------------------------------
(* An alert is closed by rule only if nothing the files, as last loaded    *)
(* when a SELECT ran, said of what that SELECT asked for spoke against it: *)
(* the name its host was found by was listed and not `high`, its user was  *)
(* not privileged, no address it could be judged by was malicious or       *)
(* suspicious and unexpired when the job began; and neither its severity   *)
(* nor its agent rules closing out, and the rule named is a well-formed    *)
(* one (run_pipeline_job, G8').  The two names of a host are asked for one *)
(* after the other: a reload between them that enters the agent, as `high` *)
(* even, and lowers the origin leaves each SELECT with nothing against it. *)
ClosedIsClean ==
    job.pc = "closed" =>
        /\ ~job.warned
        /\ job.row.severity # "critical" /\ job.row.agent \notin NeverAgents
        /\ WellFormed(job.rule)

(* simulate, asked about a rule that was in force, finds it closing the    *)
(* clusters the pipeline closed by it or by an older one, and no other:    *)
(* what a rule "would close" over the stored rows is what it does close    *)
(* (simulate: "must close exactly those 40 once enabled").                 *)
SimulationAgrees ==
    job.pc \in {"closed", "queued"} =>
        LET said == {r \in job.rules : SimulateCloses(r, job.row)}
        IN /\ job.pc = "closed" <=> said # {}
           /\ job.pc = "closed" => job.rule \in said /\ \A r \in said : job.rule <= r
=============================================================================
