---------------------------- MODULE Adversarial ----------------------------
(***************************************************************************)
(* G3, the adversarial set.  eval/adversarial/generate.py lays out its     *)
(* fixtures in time and address space and writes them to files; load.py    *)
(* puts the fixtures of a manifest into the alerts table, one transaction  *)
(* each, as synthetic heads that no job is queued for.                     *)
(*                                                                         *)
(* A load is a program a person starts, twice at once if he forgets the    *)
(* first, and it can be stopped at any point.  The pipeline stores alerts  *)
(* meanwhile, among them the document of a fixture that somebody posted to *)
(* the webhook.  Files, risk scores, the text of a payload and the counts  *)
(* of a cluster (AlertLifecycle has them) are left out; time is counted in *)
(* units of ten minutes.                                                   *)
(***************************************************************************)
EXTENDS Integers, Sequences, FiniteSets

CONSTANTS
    ManifestRows,    \* the rows of manifest.csv, in order: [vector, pattern]
    Posted,      \* fixtures whose document also reaches the webhook
    Strangers,   \* alerts of the pilot that have the cluster key of some fixture
    StrangerKey, \* StrangerKey[stranger], the source address it has
    Loads,       \* runs of load.py
    Absent

---------------------------------------------------------------------------
(* generate.build.                                                         *)
Vectors == 1 .. 5
Patterns == 1 .. 8
Spacing == 30                 \* TARGET_SPACING, 5 hours
BeforeTarget == 1             \* NEIGHBOUR_BEFORE_TARGET
Window == 12                  \* the 2 hours of _WINDOW_PREDICATE

Nth(v, p) == 8 * (v - 1) + (p - 1)
HasNeighbour(v) == v = 5

Fixture(v, p, role) ==
    [role |-> role, vector |-> v, pattern |-> p,
     srcip |-> (IF role = "target" THEN 1 ELSE 101) + Nth(v, p),
     at |-> Spacing * Nth(v, p) - (IF role = "target" THEN 0 ELSE BeforeTarget)]

Fixtures == {Fixture(v, p, "target") : v \in Vectors, p \in Patterns}
            \cup {Fixture(v, p, "neighbour") : v \in {x \in Vectors : HasNeighbour(x)},
                                               p \in Patterns}

(* load.plan: the target of each row and its neighbour when it has one.    *)
RowPlan(r) ==
    <<Fixture(r.vector, r.pattern, "target")>>
    \o IF HasNeighbour(r.vector) THEN <<Fixture(r.vector, r.pattern, "neighbour")>> ELSE <<>>

Planned ==
    LET from[i \in 0 .. Len(ManifestRows)] ==
            IF i = 0 THEN <<>> ELSE from[i - 1] \o RowPlan(ManifestRows[i])
    IN  from[Len(ManifestRows)]

InPlan == {Planned[i] : i \in DOMAIN Planned}
Ids == InPlan \cup Posted \cup Strangers
Key(a) == IF a \in Strangers THEN StrangerKey[a] ELSE a.srcip

ASSUME AdversarialAssumption ==
    /\ ManifestRows \in Seq([vector : Vectors, pattern : Patterns])
    /\ Posted \subseteq Fixtures /\ StrangerKey \in [Strangers -> Nat]

Statuses == {"received", "queued_tier1", "duplicate"}
Rows == [tagged : BOOLEAN, is_synthetic : BOOLEAN, source : {"lab", "wazuh"},
         status : Statuses, context : BOOLEAN, head : Ids]

(* No row is not a row.                                                    *)
ASSUME AbsentAssumption == Absent \notin Rows

VARIABLES
    alerts,    \* a committed row of alerts, or Absent
    jobs,      \* subjects that a triage job was ever queued for
    frozen,    \* gold_v1.sha256 exists
    rejected,  \* planned fixtures whose file the parser rejects
    late,      \* heads whose dedup window has passed
    load,      \* what a run of load.py holds
    \* history:
    forced,    \* fixtures loaded by a run that was told to skip the marker
    shown      \* fixtures a triage was asked for by their alert_id

advVars == <<alerts, jobs, frozen, rejected, late, load, forced, shown>>

NoLoad == [pc |-> "idle"]

advInit ==
    /\ alerts = [a \in Ids |-> Absent] /\ jobs = {} /\ late = {}
    /\ frozen = FALSE /\ rejected \in SUBSET InPlan
    /\ load = [l \in Loads |-> NoLoad]
    /\ forced = {} /\ shown = {}

---------------------------------------------------------------------------
(* A fixture as load.py stores it.  `tagged` is whether the payload names  *)
(* the fixture's pattern, `context` whether the six columns are written.   *)
Loaded(f) == [tagged |-> TRUE, is_synthetic |-> TRUE, source |-> "lab", status |-> "received",
              context |-> TRUE, head |-> f]

IsFixture(row) == row.is_synthetic /\ row.source = "lab" /\ row.tagged

(* The bug of parsing a fixture when its turn comes. *)
StartUnparsed(l, dry_run, skip_marker) ==
    /\ load[l] = NoLoad
    /\ frozen \/ skip_marker
    /\ load' = [load EXCEPT ![l] = [pc |-> "look", at |-> 1, dry_run |-> dry_run,
                                    forced |-> skip_marker, loaded |-> 0, skipped |-> 0]]
    /\ UNCHANGED <<alerts, jobs, frozen, rejected, late, forced, shown>>

(* main, down to the connection: the marker, then every fixture parsed.    *)
Start(l, dry_run, skip_marker) ==
    /\ load[l] = NoLoad
    /\ frozen \/ skip_marker
    /\ rejected = {}
    /\ load' = [load EXCEPT ![l] = [pc |-> "look", at |-> 1, dry_run |-> dry_run,
                                    forced |-> skip_marker, loaded |-> 0, skipped |-> 0]]
    /\ UNCHANGED <<alerts, jobs, frozen, rejected, late, forced, shown>>

Onward(q) == [q EXCEPT !.pc = "look", !.at = @ + 1]

(* The bug of a look that asks only whether the alert_id is there. *)
SeenAny(q, row) ==
    IF row # Absent THEN [Onward(q) EXCEPT !.skipped = @ + 1]
    ELSE IF q.dry_run THEN [Onward(q) EXCEPT !.loaded = @ + 1] ELSE [q EXCEPT !.pc = "insert"]

(* load_planned on what _existing_row found: an id that is somebody else's *)
(* ends the run (AlertIdCollision).                                        *)
Seen(q, row) ==
    IF row # Absent
    THEN IF IsFixture(row) THEN [Onward(q) EXCEPT !.skipped = @ + 1]
         ELSE [q EXCEPT !.pc = "refused"]
    ELSE IF q.dry_run THEN [Onward(q) EXCEPT !.loaded = @ + 1] ELSE [q EXCEPT !.pc = "insert"]

Look(l) ==
    /\ load[l].pc = "look" /\ load[l].at <= Len(Planned)
    /\ load' = [load EXCEPT ![l] = Seen(@, alerts[Planned[load[l].at]])]
    /\ UNCHANGED <<alerts, jobs, frozen, rejected, late, forced, shown>>

Holds(l, a) == load[l].pc = "mark" /\ Planned[load[l].at] = a

(* The bug of an insert that does nothing on a conflict. *)
InsertAnyway(l) ==
    LET f == Planned[load[l].at] IN
    /\ load[l].pc = "insert"
    /\ \A m \in Loads : ~ Holds(m, f)
    /\ load' = [load EXCEPT ![l].pc = "mark"]
    /\ UNCHANGED <<alerts, jobs, frozen, rejected, late, forced, shown>>

(* open_alert: the primary key waits for whoever has inserted the same id, *)
(* then a row that is there is StaleState, and the run ends.               *)
Insert(l) ==
    LET f == Planned[load[l].at] IN
    /\ load[l].pc = "insert"
    /\ \A m \in Loads : ~ Holds(m, f)
    /\ load' = [load EXCEPT ![l].pc = IF alerts[f] = Absent THEN "mark" ELSE "refused"]
    /\ UNCHANGED <<alerts, jobs, frozen, rejected, late, forced, shown>>

(* The bug of finish_enrichment in place of the UPDATE: it queues a job. *)
MarkQueued(l) ==
    LET f == Planned[load[l].at] IN
    /\ load[l].pc = "mark"
    /\ alerts' = [alerts EXCEPT ![f] = Loaded(f)]
    /\ jobs' = jobs \cup {f}
    /\ load' = [load EXCEPT ![l] = [Onward(load[l]) EXCEPT !.loaded = @ + 1]]
    /\ forced' = IF load[l].forced THEN forced \cup {f} ELSE forced
    /\ UNCHANGED <<frozen, rejected, late, shown>>

(* _MARK_SYNTHETIC_SQL, no job of its own found, COMMIT.                   *)
Mark(l) ==
    LET f == Planned[load[l].at] IN
    /\ load[l].pc = "mark"
    /\ alerts' = [alerts EXCEPT ![f] = Loaded(f)]
    /\ load' = [load EXCEPT ![l] = [Onward(load[l]) EXCEPT !.loaded = @ + 1]]
    /\ forced' = IF load[l].forced THEN forced \cup {f} ELSE forced
    /\ UNCHANGED <<jobs, frozen, rejected, late, shown>>

(* count_triage_jobs; a dry run does not ask.                              *)
Count(l) ==
    /\ load[l].pc = "look" /\ load[l].at > Len(Planned)
    /\ load' = [load EXCEPT ![l].pc = IF ~ load[l].dry_run /\ jobs \cap InPlan # {}
                                      THEN "refused" ELSE "done"]
    /\ UNCHANGED <<alerts, jobs, frozen, rejected, late, forced, shown>>

(* The exit, or a kill, a lost connection: what was open is rolled back.   *)
LoadEnds(l) ==
    /\ load[l] # NoLoad /\ load' = [load EXCEPT ![l] = NoLoad]
    /\ UNCHANGED <<alerts, jobs, frozen, rejected, late, forced, shown>>

LoadSteps(l) ==
    \/ \E dry_run, skip_marker \in BOOLEAN : Start(l, dry_run, skip_marker)
    \/ Look(l) \/ Insert(l) \/ Mark(l) \/ Count(l) \/ LoadEnds(l)

---------------------------------------------------------------------------
(* soar.pipeline on a document of the webhook, as far as it concerns G3:   *)
(* merged under a head of its key whose window is open, synthetic or not,  *)
(* or a head of its own with a triage job; one that a rule closes has its  *)
(* triage job too and is not told apart.                                   *)
Absorbs(h, a) == /\ alerts[h] # Absent /\ alerts[h].status # "duplicate"
                 /\ Key(h) = Key(a) /\ h \notin late

Stored(a, status, head) == [tagged |-> a \in Fixtures, is_synthetic |-> FALSE, source |-> "wazuh",
                            status |-> status, context |-> status # "duplicate", head |-> head]

Pipeline(a) ==
    /\ alerts[a] = Absent
    /\ \A l \in Loads : ~ Holds(l, a)
    /\ IF \E h \in Ids : Absorbs(h, a)
       THEN \E h \in Ids : /\ Absorbs(h, a)
                           /\ alerts' = [alerts EXCEPT ![a] = Stored(a, "duplicate", h)]
                           /\ jobs' = jobs
       ELSE /\ alerts' = [alerts EXCEPT ![a] = Stored(a, "queued_tier1", a)]
            /\ jobs' = jobs \cup {a}
    /\ UNCHANGED <<frozen, rejected, late, load, forced, shown>>

(* The window of a head passes; of no interest where no pilot alert has its key. *)
Ageing(h) ==
    /\ \E a \in Posted \cup Strangers : Absorbs(h, a)
    /\ late' = late \cup {h}
    /\ UNCHANGED <<alerts, jobs, frozen, rejected, load, forced, shown>>

(* label_export freeze has written gold_v1.sha256 (GoldSet!Seal).          *)
Freeze ==
    /\ ~ frozen /\ frozen' = TRUE
    /\ UNCHANGED <<alerts, jobs, rejected, late, load, forced, shown>>

(* generate.main: it writes all files, and none while one is not parsed.   *)
Generate ==
    /\ rejected # {} /\ rejected' = {}
    /\ UNCHANGED <<alerts, jobs, frozen, late, load, forced, shown>>

(* The evaluation asks for a triage of the manifest's rows by alert_id.    *)
Evaluate ==
    /\ frozen /\ shown = {}
    /\ \A f \in InPlan : alerts[f] # Absent /\ IsFixture(alerts[f])
    /\ shown' = InPlan /\ jobs' = jobs \cup InPlan
    /\ UNCHANGED <<alerts, frozen, rejected, late, load, forced>>

advNext ==
    \/ \E l \in Loads : LoadSteps(l)
    \/ \E a \in Posted \cup Strangers : Pipeline(a)
    \/ \E h \in Ids : Ageing(h)
    \/ Freeze \/ Generate \/ Evaluate

advSpec == advInit /\ [][advNext]_advVars

---------------------------------------------------------------------------
Synthetic == {a \in Ids : alerts[a] # Absent /\ alerts[a].is_synthetic}

(* What is synthetic is a fixture of the plan, complete and its own head,  *)
(* and no worker is asked about it until the evaluation does, whoever else *)
(* loads it or posts its document at the same time; nothing is synthetic   *)
(* before the freeze unless the run was told so, nor of a set that the     *)
(* parser did not take whole.                                              *)
FixturesApart ==
    /\ \A f \in Synthetic : f \in InPlan /\ alerts[f] = Loaded(f)
    /\ \A f \in Synthetic \cap jobs : f \in shown
    /\ \A f \in Synthetic : frozen \/ f \in forced
    /\ Synthetic # {} => rejected = {}

(* domain.correlation over the fixtures that are in the table: they share  *)
(* their agent, so that the window alone decides.                          *)
Correlated(f) == {g \in Synthetic \ {f} : g.at - f.at \in - Window .. Window}

(* A load that says it is done has left every fixture of its manifest in   *)
(* the table, as itself; then the neighbour of vector 5 is in the prompt   *)
(* of its target, and no other target is shown another fixture's payload.  *)
DoneMeansLoaded ==
    \A l \in Loads : load[l].pc = "done" =>
        /\ load[l].loaded + load[l].skipped = Len(Planned)
        /\ ~ load[l].dry_run =>
              /\ InPlan \subseteq Synthetic
              /\ \A f \in InPlan : f.role = "target" =>
                    Correlated(f) = {g \in InPlan : /\ g.role = "neighbour"
                                                    /\ g.vector = f.vector
                                                    /\ g.pattern = f.pattern}

(* The adversarial set measures what it says: no other alert is taken for   *)
(* a fixture, none of them reaches a worker early, and a load that          *)
(* load_planned ended with success is complete, however it met the others.  *)
FixturesSound == FixturesApart /\ DoneMeansLoaded
=============================================================================
