------------------------------ MODULE GoldSet ------------------------------
(***************************************************************************)
(* The gold set: labels in the browser (tier1/labels.py) beside the        *)
(* commands of eval/label_export.py, which read the labels, hand the       *)
(* disagreements to a meeting in a file, and freeze the result into        *)
(* gold_vN.csv with its gold_vN.sha256.                                    *)
(*                                                                         *)
(* A label is one transaction.  A command is a process of its own, run one *)
(* at a time by one operator; it reads and writes files and the database   *)
(* in steps, and may die between any two.  Notes and confidences are left  *)
(* out, and so is the text of the files but for the rows they hold.        *)
(***************************************************************************)
EXTENDS Naturals, Sequences, FiniteSets

CONSTANTS
    Peers,       \* candidates that carry no window truth
    Windowed,    \* candidates whose label is the truth of their lab window
    Truth,       \* Truth[c], for c in Windowed
    Labelers,    \* the two people
    Labels, Null,
    MaxUndos, MaxFreezes  \* bounds of the model

Candidates == Peers \cup Windowed

ASSUME CandidateAssumption == /\ Peers \cap Windowed = {}
                              /\ Truth \in [Windowed -> Labels]
                              /\ Null \notin Labels
                              /\ Cardinality(Labelers) = 2

VARIABLES
    labels,    \* a labeller's gold_offline rows, oldest first: [cluster, label]
    undo,      \* labellers whose undo has found no marker and not yet deleted
    excluded,  \* candidates of the scenarios that excluded_scenarios.csv names
    sheet,     \* the adjudication file: cluster -> [pair, final], or Null
    cmd,       \* what the running command holds
    gold,      \* the rows of gold_v1.csv, gold_v2.csv, ...
    sealed,    \* the versions that have their sha256
    records,   \* triage_labels rows of source disagreement: cluster -> label
    \* history:
    undone,    \* clusters, one entry for each label that was taken back
    early,     \* labellers whose running undo began while there was no marker
    overlap,   \* labellers whose early undo took back a label a freeze had read
    filled     \* clusters decided since the running command looked at the file

histories == <<undone, early, overlap, filled>>
vars == <<labels, undo, excluded, sheet, cmd, gold, sealed, records, histories>>

---------------------------------------------------------------------------
Entries(l) == {labels[l][i] : i \in 1 .. Len(labels[l])}
Labelled(l, c) == \E e \in Entries(l) : e.cluster = c
LabelOf(l, c) == IF Labelled(l, c) THEN (CHOOSE e \in Entries(l) : e.cluster = c).label ELSE Null

(* fetch_label_pairs, one LabelPair of it: a labeller's label or Null. *)
Pair(c) == [l \in Labelers |-> LabelOf(l, c)]
BothLabelled(pair) == \A l \in Labelers : pair[l] # Null
Disagrees(pair) == BothLabelled(pair) /\ \E l, k \in Labelers : pair[l] # pair[k]

Pairs == [Labelers -> Labels \cup {Null}]
SheetRows == [pair : Pairs \cup {Null}, final : Labels \cup {Null}]

(* No file is not a file. *)
ASSUME SheetAssumption == \A S \in SUBSET Candidates : Null \notin [S -> SheetRows]

Idle == [pc |-> "idle"]
NoRows == [c \in {} |-> Null]
Marker == 1 \in sealed     \* FREEZE_MARKER is gold_v1.sha256

TypeOK ==
    /\ \A l \in Labelers : \A i, j \in 1 .. Len(labels[l]) :
          /\ labels[l][i].cluster \in Candidates /\ labels[l][i].label \in Labels
          /\ labels[l][i].cluster = labels[l][j].cluster => i = j
    /\ undo \subseteq Labelers /\ excluded \subseteq Windowed
    /\ sheet # Null => \A c \in DOMAIN sheet : /\ sheet[c].pair \in Pairs \cup {Null}
                                               /\ sheet[c].final \in Labels \cup {Null}
    /\ cmd.pc \in {"idle", "disagreements", "read", "write", "seal", "record"}
    /\ \A v \in DOMAIN gold : DOMAIN gold[v] \subseteq Candidates
    /\ sealed \subseteq DOMAIN gold
    /\ DOMAIN records \subseteq Peers
    /\ cmd.pc \in {"seal", "record"} => Len(gold) = cmd.version

Init ==
    /\ labels = [l \in Labelers |-> <<>>] /\ undo = {}
    /\ excluded \in SUBSET Windowed
    /\ sheet = Null /\ cmd = Idle /\ gold = <<>> /\ sealed = {} /\ records = NoRows
    /\ undone = [c \in Candidates |-> 0] /\ early = {} /\ overlap = {}
    /\ filled = {}

---------------------------------------------------------------------------
(* The page: submit_label and undo_last. *)

(* The primary key refuses a second label; nothing asks for the marker. *)
Submit(l, c, label) ==
    /\ ~ Labelled(l, c)
    /\ labels' = [labels EXCEPT ![l] = Append(@, [cluster |-> c, label |-> label])]
    /\ UNCHANGED <<undo, excluded, sheet, cmd, gold, sealed, records, histories>>

Undos == LET f[S \in SUBSET Candidates] ==
                 IF S = {} THEN 0 ELSE LET c == CHOOSE x \in S : TRUE IN undone[c] + f[S \ {c}]
         IN  f[Candidates]

UndoAlways(l) ==
    /\ l \notin undo /\ Undos + Cardinality(undo) < MaxUndos
    /\ undo' = undo \cup {l}
    /\ early' = IF Marker THEN early ELSE early \cup {l}
    /\ UNCHANGED <<labels, excluded, sheet, cmd, gold, sealed, records, undone, overlap, filled>>

UndoBegin(l) ==
    /\ l \notin undo /\ Undos + Cardinality(undo) < MaxUndos
    /\ ~ Marker
    /\ undo' = undo \cup {l}
    /\ early' = IF Marker THEN early ELSE early \cup {l}
    /\ UNCHANGED <<labels, excluded, sheet, cmd, gold, sealed, records, undone, overlap, filled>>

(* A freeze has read the label, and its file or its memory still holds it. *)
ReadByFreeze(c) == \/ cmd.pc \in {"write", "seal", "record"} /\ c \in DOMAIN cmd.rows
                   \/ \E v \in sealed : c \in DOMAIN gold[v]

UndoDelete(l) ==
    /\ l \in undo /\ undo' = undo \ {l} /\ early' = early \ {l}
    /\ IF labels[l] = <<>>
       THEN UNCHANGED <<labels, undone, overlap>>
       ELSE LET last == labels[l][Len(labels[l])].cluster
            IN  /\ labels' = [labels EXCEPT ![l] = SubSeq(@, 1, Len(@) - 1)]
                /\ undone' = [undone EXCEPT ![last] = @ + 1]
                /\ overlap' = IF ReadByFreeze(last) /\ l \in early THEN overlap \cup {l} ELSE overlap
    /\ UNCHANGED <<excluded, sheet, cmd, gold, sealed, records, filled>>

---------------------------------------------------------------------------
(* label_export disagreements, and the meeting that fills its file in.     *)

Filled(s) == IF s = Null THEN {} ELSE {c \in DOMAIN s : s[c].final # Null}

AdjudicationInProgress == Filled(sheet) # {}

DisagreementsUnasked ==
    /\ cmd.pc = "idle"
    /\ cmd' = [pc |-> "disagreements"]
    /\ UNCHANGED <<labels, undo, excluded, sheet, gold, sealed, records, histories>>

DisagreementsBegin ==
    /\ cmd.pc = "idle" /\ ~ AdjudicationInProgress
    /\ cmd' = [pc |-> "disagreements"]
    /\ UNCHANGED <<labels, undo, excluded, sheet, gold, sealed, records, histories>>

(* resolve_labelers without --labeler-a and --labeler-b. *)
TwoLabelers(candidates) == \A l \in Labelers : \E c \in candidates : Labelled(l, c)

(* A window-basis row for a labeller who differs from the window, a        *)
(* peer-basis row for two who differ from each other.                      *)
ToAdjudicate ==
    {c \in Peers : Disagrees(Pair(c))}
    \cup {c \in Windowed : \E l \in Labelers : LabelOf(l, c) \notin {Null, Truth[c]}}

(* A window row has no label_a and label_b. *)
Shown(c) == IF c \in Peers THEN Pair(c) ELSE Null

DisagreementsWrite ==
    /\ cmd.pc = "disagreements" /\ cmd' = Idle /\ filled' = {}
    /\ \E named \in BOOLEAN :
          IF named \/ TwoLabelers(Candidates)
          THEN sheet' = [c \in ToAdjudicate |-> [pair |-> Shown(c), final |-> Null]]
          ELSE UNCHANGED sheet
    /\ UNCHANGED <<labels, undo, excluded, gold, sealed, records, undone, early, overlap>>

(* A window row is a record, not a decision to be made. *)
Decide(c, label) ==
    /\ sheet # Null /\ c \in DOMAIN sheet \cap Peers /\ sheet[c].final # label
    /\ sheet' = [sheet EXCEPT ![c].final = label]
    /\ filled' = IF cmd.pc = "disagreements" THEN filled \cup {c} ELSE filled
    /\ UNCHANGED <<labels, undo, excluded, cmd, gold, sealed, records, undone, early, overlap>>

---------------------------------------------------------------------------
(* label_export freeze. *)

(* apply_scenario_exclusions *)
Kept == Candidates \ excluded

FreezeBegin ==
    /\ cmd.pc = "idle" /\ Len(gold) < MaxFreezes
    /\ cmd' = [pc |-> "read", sheet |-> sheet]
    /\ UNCHANGED <<labels, undo, excluded, sheet, gold, sealed, records, histories>>

FinalLabel(adjudication, c) ==
    IF adjudication # Null /\ c \in DOMAIN adjudication THEN adjudication[c].final ELSE Null

Partial(candidates) == {c \in candidates \ Windowed : ~ BothLabelled(Pair(c))}

(* A row keeps, beside the columns of the csv, what it was decided on. *)
GoldRowFinalFirst(adjudication, c) ==
    LET pair == Shown(c)
        row(label, adjudicated) == [label |-> label, adjudicated |-> adjudicated, pair |-> pair,
                                    shown |-> IF adjudicated THEN adjudication[c].pair ELSE pair]
    IN  IF FinalLabel(adjudication, c) # Null THEN row(FinalLabel(adjudication, c), TRUE)
        ELSE IF c \in Windowed THEN row(Truth[c], FALSE)
        ELSE row(pair[CHOOSE l \in Labelers : TRUE], FALSE)

GoldRow(adjudication, c) ==
    LET pair == Shown(c)
        row(label, adjudicated) == [label |-> label, adjudicated |-> adjudicated, pair |-> pair,
                                    shown |-> IF adjudicated THEN adjudication[c].pair ELSE pair]
    IN  CASE c \in Windowed -> row(Truth[c], FALSE)
          [] c \notin Windowed /\ ~ Disagrees(pair) -> row(pair[CHOOSE l \in Labelers : TRUE], FALSE)
          [] OTHER -> row(FinalLabel(adjudication, c), TRUE)

(* build_gold_rows raises PartialLabelled or MissingFinalLabel, or nothing. *)
Refuses(adjudication, allow_partial) ==
    \/ Partial(Kept) # {} /\ ~ allow_partial
    \/ \E c \in Kept \cap Peers : /\ Disagrees(Pair(c))
                                  /\ FinalLabel(adjudication, c) = Null

ReadLabels(named, allow_partial) ==
    /\ cmd.pc = "read"
    /\ IF (~ named /\ ~ TwoLabelers(Kept)) \/ Refuses(cmd.sheet, allow_partial)
       THEN cmd' = Idle
       ELSE cmd' = [pc |-> "write",
                    rows |-> [c \in Kept \ Partial(Kept) |-> GoldRow(cmd.sheet, c)]]
    /\ UNCHANGED <<labels, undo, excluded, sheet, gold, sealed, records, histories>>

Adjudicated(rows) == {c \in DOMAIN rows : rows[c].adjudicated}

(* INSERT ... ON CONFLICT DO NOTHING, one row a cluster, then the commit. *)
Inserted(rows) == [c \in DOMAIN records \cup Adjudicated(rows) |->
                      IF c \in DOMAIN records THEN records[c] ELSE rows[c].label]

WriteCsvRecorded ==
    /\ cmd.pc = "write"
    /\ records' = Inserted(cmd.rows)
    /\ cmd' = Idle
    /\ UNCHANGED <<labels, undo, excluded, sheet, gold, sealed, histories>>

(* next_free_version, then write_gold_csv. *)
WriteCsv ==
    /\ cmd.pc = "write"
    /\ gold' = Append(gold, cmd.rows)
    /\ cmd' = [pc |-> "seal", version |-> Len(gold) + 1, rows |-> cmd.rows]
    /\ UNCHANGED <<labels, undo, excluded, sheet, sealed, records, histories>>

(* It dies with the file open: the rows were in a buffer. *)
TornCsv ==
    /\ cmd.pc = "write" /\ cmd' = Idle
    /\ gold' = Append(gold, NoRows)
    /\ UNCHANGED <<labels, undo, excluded, sheet, sealed, records, histories>>

(* The sha256; the diff and the json that follow are read by people. *)
Seal ==
    /\ cmd.pc = "seal"
    /\ sealed' = sealed \cup {cmd.version}
    /\ cmd' = [cmd EXCEPT !.pc = "record"]
    /\ UNCHANGED <<labels, undo, excluded, sheet, gold, records, histories>>

Record ==
    /\ cmd.pc = "record" /\ cmd' = Idle
    /\ records' \in {records, Inserted(cmd.rows)}    \* without --adjudicator-id, with it
    /\ UNCHANGED <<labels, undo, excluded, sheet, gold, sealed, histories>>

Crash ==
    /\ cmd.pc # "idle" /\ cmd' = Idle /\ filled' = {}
    /\ UNCHANGED <<labels, undo, excluded, sheet, gold, sealed, records, undone, early, overlap>>

Next ==
    \/ \E l \in Labelers : \/ \E c \in Candidates, label \in Labels : Submit(l, c, label)
                           \/ UndoBegin(l) \/ UndoDelete(l)
    \/ DisagreementsBegin \/ DisagreementsWrite
    \/ \E c \in Candidates, label \in Labels : Decide(c, label)
    \/ FreezeBegin
    \/ \E named, allow_partial \in BOOLEAN : ReadLabels(named, allow_partial)
    \/ WriteCsv \/ TornCsv \/ Seal \/ Record \/ Crash

Spec == Init /\ [][Next]_vars

---------------------------------------------------------------------------
(* build_gold_rows: every frozen row has its reason.  The window decides    *)
(* where there is one, two equal labels decide among people, and else the   *)
(* meeting, on the two labels it was shown, unless one of them was taken    *)
(* back and given again since; and an excluded scenario is in no version.   *)
GoldEarned ==
    \A v \in DOMAIN gold : \A c \in DOMAIN gold[v] :
        LET row == gold[v][c]
        IN  /\ c \notin excluded
            /\ c \in Windowed => row.label = Truth[c] /\ ~ row.adjudicated
            /\ c \in Peers =>
                  /\ \A l \in Labelers : row.pair[l] \in Labels
                  /\ IF \A l, k \in Labelers : row.pair[l] = row.pair[k]
                     THEN ~ row.adjudicated /\ \A l \in Labelers : row.pair[l] = row.label
                     ELSE /\ row.adjudicated /\ row.label \in Labels
                          /\ row.shown = row.pair \/ undone[c] > 0

(* tier1/labels.undo_last, "once it exists the undo is refused": the labels *)
(* a sealed version rests on stay in the database, but for a labeller whose *)
(* undo began while there was no marker and took back what a freeze had     *)
(* read.  There is none for good once version 1 was stopped between its csv *)
(* and its seal: the later versions have names of their own.                *)
UndoStopsAtFreeze ==
    \A v \in sealed : \A c \in DOMAIN gold[v] \cap Peers :
        \A l \in Labelers \ overlap :
            \E e \in Entries(l) : e.cluster = c /\ e.label = gold[v][c].pair[l]

(* _adjudication_in_progress, "the meeting's work, never clobbered by a     *)
(* re-run": a final label is lost only when it was written while the        *)
(* command, having found none, was running.                                 *)
MeetingKept ==
    [][\A c \in Filled(sheet) : c \in Filled(sheet') \/ c \in filled]_vars

(* cmd_freeze writes its files first and commits last: a disagreement row   *)
(* of triage_labels is the adjudicated label of a version whose csv is      *)
(* there and sealed.                                                        *)
RecordsFollowFiles ==
    \A c \in DOMAIN records :
        \E v \in sealed : /\ c \in DOMAIN gold[v] /\ gold[v][c].adjudicated
                          /\ gold[v][c].label = records[c]

(* The database bears the sealed versions out: the labels they rest on and *)
(* the disagreements they settled.                                         *)
SealedBorneOut == UndoStopsAtFreeze /\ RecordsFollowFiles
=============================================================================
