------------------------------- MODULE Views -------------------------------
(***************************************************************************)
(* What a person is shown: the analyst's queue and alert page              *)
(* (tier1/queue.py through tier1/visibility.py) and the labeller's page    *)
(* (tier1/labels.py), both over the correlation of domain/correlation.py.  *)
(*                                                                         *)
(* Two databases stand side by side.  They hold the same alerts; a step    *)
(* may treat an alert differently in each (another decision, another       *)
(* answer of the model, a label of the other labeller), and what somebody  *)
(* may not know must leave what he is shown the same in both.  Texts,      *)
(* contexts and names are the same in both and left out.                   *)
(***************************************************************************)
EXTENDS Naturals, Sequences, FiniteSets, SequencesExt

CONSTANTS
    Heads,           \* cluster heads; none becomes a duplicate here
    Rule,            \* Rule[h]: its rule_id, which fixes the category
    Agent, Srcip,    \* Agent[h] and Srcip[h], which may be NoAddress
    Time, Window,    \* Time[h]: its alert_time; Window: the two hours
    Risk, Count,     \* Risk[h] and Count[h]: its risk_score and occurrence_count
    VisibleArm,      \* the heads whose suggestion_visible is true
    Order,           \* labeler_order: this labeller's permutation of the heads
    NoAddress, NoAnswer,
    Answers,         \* a verdict, or "unavailable"
    MaxRows, MaxSamples,   \* the LIMITs of the two correlation queries
    RetriageFactor, RetriageDelta, PageSize,
    Worlds,                \* the two of them
    MaxMoves               \* bound of the model

ASSUME ViewsAssumption == IsFiniteSet(Heads) /\ MaxRows \in Nat /\ PageSize \in Nat

VARIABLES
    triaged,  \* triaged_count, the same in both
    mine,     \* the heads this labeller has labelled, the same in both
    world,    \* world[w]: [status, said, theirs], where the two may differ
    moves     \* the steps taken

viewsVars == <<triaged, mine, world, moves>>

Statuses == {"queued_tier1", "tier1_active", "closed_fp", "escalated_tier2"}
Decided == {"closed_fp", "escalated_tier2"}

ViewsInit ==
    /\ triaged = [h \in Heads |-> 0]
    /\ mine = {} /\ moves = 0
    /\ \E status \in {"queued_tier1", "closed_fp"} :
          world = [w \in Worlds |-> [status |-> [h \in Heads |-> status], theirs |-> {},
                                     said |-> [h \in Heads |-> NoAnswer]]]

Move == moves < MaxMoves /\ moves' = moves + 1

(* An analyst takes a head up, decides it, or reopens it, in one world. *)
Handled == {<<"queued_tier1", "tier1_active">>, <<"tier1_active", "closed_fp">>,
            <<"tier1_active", "escalated_tier2">>, <<"closed_fp", "queued_tier1">>}

Handle(w, h, status) ==
    /\ Move /\ <<world[w].status[h], status>> \in Handled
    /\ world' = [world EXCEPT ![w].status[h] = status]
    /\ UNCHANGED <<triaged, mine>>

HandleInBoth(h, status) ==
    /\ Move /\ \A w \in Worlds : <<world[w].status[h], status>> \in Handled
    /\ world' = [w \in Worlds |-> [world[w] EXCEPT !.status[h] = status]]
    /\ UNCHANGED <<triaged, mine>>

(* Both worlds triage a head, and the model answers as it likes. *)
TriageHead(h, answers) ==
    /\ Move
    /\ \A w \in Worlds : world[w].status[h] \notin Decided
    /\ triaged' = [triaged EXCEPT ![h] = @ + 1]
    /\ world' = [w \in Worlds |-> [world[w] EXCEPT !.said[h] = answers[w]]]
    /\ UNCHANGED mine

Label(h) ==
    /\ Move /\ h \notin mine /\ mine' = mine \cup {h}
    /\ UNCHANGED <<triaged, world>>

LabelOther(w, h) ==
    /\ Move /\ h \notin world[w].theirs
    /\ world' = [world EXCEPT ![w].theirs = @ \cup {h}]
    /\ UNCHANGED <<triaged, mine>>

viewsNext ==
    \/ \E w \in Worlds, h \in Heads : \/ \E status \in Statuses : Handle(w, h, status)
                                      \/ LabelOther(w, h)
    \/ \E h \in Heads : \/ \E answers \in [Worlds -> Answers] : TriageHead(h, answers)
                        \/ \E status \in Statuses : HandleInBoth(h, status)
                        \/ Label(h)

viewsSpec == ViewsInit /\ [][viewsNext]_viewsVars

---------------------------------------------------------------------------
(* domain/correlation.py: two SELECTs, each cut by its LIMIT.              *)

Related ==
    [h \in Heads |-> {k \in Heads \ {h} :
        /\ Agent[k] = Agent[h] \/ (Srcip[h] # NoAddress /\ Srcip[k] = Srcip[h])
        /\ Time[k] <= Time[h] + Window /\ Time[h] <= Time[k] + Window}]

AlertCounts == [S \in SUBSET Heads |-> SumFunctionOnSet(Count, S)]
Alerts(S) == AlertCounts[S]

(* The groups of rows_query; a group is the heads it counts. *)
Groups(w, h) ==
    LET key(k) == <<Rule[k], world[w].status[k]>>
    IN  {{k \in Related[h] : key(k) = g} : g \in {key(k) : k \in Related[h]}}

(* What ORDER BY weight DESC LIMIT n may return: ties fall as they like. *)
Top(S, weight, n) ==
    IF Cardinality(S) <= n THEN {S}
    ELSE {T \in SUBSET S : /\ Cardinality(T) = n
                           /\ \A x \in T, y \in S \ T : weight[x] >= weight[y]}

(* samples_query orders by occurrence_count, then by the newest. *)
Samples ==
    [h \in Heads |->
        Top(Related[h], [k \in Related[h] |-> Count[k] * (Window + Window + 1) + Time[k] + Window - Time[h]],
            MaxSamples)]

---------------------------------------------------------------------------
(* tier1/labels.py: the labeller's page. *)

(* One CorrelationView a rule, over the heads of the rows it is given. *)
ByRule(groups) ==
    LET all == UNION groups
        of(r) == {k \in all : Rule[k] = r}
    IN  {[rule |-> Rule[k], clusters |-> Cardinality(of(Rule[k])), alerts |-> Alerts(of(Rule[k])),
          times |-> {Time[x] : x \in of(Rule[k])}] : k \in all}

(* The fold's own clusters: grouped by rule first, cut afterwards. *)
G1View(h) ==
    LET rules == ByRule({Related[h]})
    IN  [rows |-> Top(rules, [r \in rules |-> r.alerts], MaxRows), samples |-> Samples[h]]

G2ViewByStatus(w, h) ==
    [rows |-> {UNION {ByRule({g}) : g \in T} : T \in Top(Groups(w, h), AlertCounts, MaxRows)},
     samples |-> Samples[h]]

(* The database's groups, cut by status first and regrouped without it. *)
G2View(w, h) ==
    [rows |-> {ByRule(T) : T \in Top(Groups(w, h), AlertCounts, MaxRows)}, samples |-> Samples[h]]

NextOfAll(w) == SelectSeq(Order, LAMBDA h : h \notin mine \cup world[w].theirs)

(* next_unlabelled reads this labeller's rows only. *)
NextUnlabelled(w) == SelectSeq(Order, LAMBDA h : h \notin mine)

LabelPage(w) ==
    [done |-> Cardinality(mine), total |-> Len(Order), next |-> SubSeq(NextUnlabelled(w), 1, 1)]

---------------------------------------------------------------------------
(* tier1/queue.py behind visibility.strip in analyst mode. *)

ShowStatesTaken == {"closed_fp", "escalated_tier2", "tier1_active"}

ShowStates == {"closed_fp", "escalated_tier2"}

Hidden(w, h) == h \notin VisibleArm /\ world[w].status[h] \notin ShowStates

(* The keys of ANALYST_HIDE; triaged_count is not among them. *)
Strip(w, h, row) ==
    IF Hidden(w, h) THEN [key \in DOMAIN row \ {"suggestion", "triage_status", "run_id"} |-> row[key]]
                    ELSE row

NeedsRetriage(h) ==
    /\ triaged[h] > 0
    /\ Count[h] >= triaged[h] * RetriageFactor \/ Count[h] >= triaged[h] + RetriageDelta

RiskBand(h) == IF Risk[h] <= 24 THEN "low" ELSE IF Risk[h] <= 49 THEN "medium"
               ELSE IF Risk[h] <= 74 THEN "high" ELSE "very high"

(* latest_suggestion: a failed run has a row but no result. *)
Suggestion(w, h) == IF world[w].said[h] = "unavailable" THEN NoAnswer ELSE world[w].said[h]

TriageStatus(w, h) == CASE world[w].said[h] = NoAnswer -> "pending"
                        [] world[w].said[h] = "unavailable" -> "unavailable"
                        [] OTHER -> "ready"

QueueRow(w, h) ==
    Strip(w, h, [alert_id |-> h, risk_band |-> RiskBand(h), occurrence_count |-> Count[h],
                 triaged_count |-> triaged[h], needs_retriage |-> NeedsRetriage(h),
                 status |-> world[w].status[h], suggestion |-> Suggestion(w, h),
                 triage_status |-> TriageStatus(w, h), run_id |-> triaged[h]])

(* ORDER BY needs_retriage DESC, risk_score DESC, first_seen_at ASC. *)
Before(h, k) ==
    \/ NeedsRetriage(h) /\ ~ NeedsRetriage(k)
    \/ /\ NeedsRetriage(h) = NeedsRetriage(k)
       /\ Risk[h] > Risk[k] \/ (Risk[h] = Risk[k] /\ Time[h] < Time[k])

Queued(w) ==
    LET S == {h \in Heads : world[w].status[h] = "queued_tier1"}
    IN  [i \in 1 .. Cardinality(S) |-> CHOOSE h \in S : Cardinality({k \in S : Before(k, h)}) = i - 1]

ListQueue(w, page) ==
    LET queued == Queued(w)
        rows == SubSeq(queued, (page - 1) * PageSize + 1,
                       IF page * PageSize < Len(queued) THEN page * PageSize ELSE Len(queued))
    IN  [total |-> Len(queued), rows |-> [i \in DOMAIN rows |-> QueueRow(w, rows[i])]]

(* The page keeps the statuses of the correlated clusters. *)
AlertView(w, h) ==
    Strip(w, h, [alert_id |-> h, occurrence_count |-> Count[h], triaged_count |-> triaged[h],
                 status |-> world[w].status[h], risk_band |-> RiskBand(h),
                 correlation |-> Top(Groups(w, h), AlertCounts, MaxRows),
                 statuses |-> [k \in Related[h] |-> world[w].status[k]], samples |-> Samples[h],
                 correlated_now |-> Cardinality(Related[h]),
                 suggestion |-> Suggestion(w, h), triage_status |-> TriageStatus(w, h)])

---------------------------------------------------------------------------
(* A label must not rest on what others decided (tier1/labels.py).         *)
(* Whatever the analysts did, the model said and the other labeller         *)
(* answered, the labeller is given the same clusters in the same order, and *)
(* the same samples.  The rows of a G2 cluster never depend on what the     *)
(* model or the other labeller said; and they are the rows a G1 cluster     *)
(* would be shown, so that they do not depend on the decisions either,      *)
(* where the database's groups by (rule, category, status) stay within the  *)
(* LIMIT of 20 that cuts them before they are regrouped without the status. *)
LabelerBlind ==
    /\ \A v, w \in DOMAIN world : LabelPage(v) = LabelPage(w)
    /\ \A v, w \in DOMAIN world, h \in Heads :
          /\ G2View(v, h).samples = G1View(h).samples
          /\ world[v].status = world[w].status => G2View(v, h) = G2View(w, h)
          /\ Cardinality(Groups(w, h)) <= MaxRows => G2View(w, h) = G1View(h)

(* Same statuses, other answers: the queue lists the same heads in the same *)
(* order, and the row and the page of a head of the blind arm are the same  *)
(* until it is decided, and again once it has been reopened                 *)
(* (tier1/visibility.py).                                                   *)
Undecided(row) == row.alert_id \notin VisibleArm /\ row.status \in {"queued_tier1", "tier1_active"}

AnalystBlind ==
    \A v, w \in DOMAIN world : world[v].status = world[w].status =>
        /\ \A page \in 1 .. Cardinality(Heads) :
              LET one == ListQueue(v, page)
                  other == ListQueue(w, page)
              IN  /\ one.total = other.total /\ Len(one.rows) = Len(other.rows)
                  /\ \A i \in DOMAIN one.rows :
                        IF Undecided(one.rows[i]) THEN one.rows[i] = other.rows[i]
                        ELSE one.rows[i].alert_id = other.rows[i].alert_id
        /\ \A h \in Heads : Undecided(AlertView(v, h)) => AlertView(v, h) = AlertView(w, h)

(* What somebody may not know changes nothing of what he is shown: the      *)
(* promises of tier1/labels.py and tier1/visibility.py together.            *)
NobodyPrimed == LabelerBlind /\ AnalystBlind
=============================================================================
