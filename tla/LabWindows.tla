----------------------------- MODULE LabWindows -----------------------------
(***************************************************************************)
(* The lab half of the gold set.  eval/lab_tag.py moves the alerts of one  *)
(* agent and one window of time from source 'wazuh' to source 'lab' and    *)
(* then appends the window to a file; eval/build_gold.py reads that file   *)
(* and selects, window by window, the heads that become G2 candidates and  *)
(* carry the truth of their window.                                        *)
(*                                                                         *)
(* Both are programs an operator starts.  The pipeline stores heads all    *)
(* the while, some of them long after the instant they happened at.        *)
(* Synthetic rows, duplicates and the counts printed are left out.         *)
(***************************************************************************)
EXTENDS Naturals, Sequences

CONSTANTS
    Heads,       \* alerts that are the head of their cluster
    Agents, Rules,
    AgentOf,     \* AgentOf[head], the agent_name of its alert
    Scenarios,   \* identifiers an operator can give a window
    Attacks,     \* the categories with an Expected rules table
    Expected,    \* Expected[category], a set of rules
    LastInstant, \* bound of the model on the seconds of an alert
    MaxWindow    \* MAX_WINDOW, in those seconds

Instants == 1 .. LastInstant
Block == "benign"                      \* BENIGN_BLOCK
TruthByKind == [attack |-> "escalate", benign |-> "benign"]

ASSUME LabAssumption == /\ AgentOf \in [Heads -> Agents]
                        /\ Expected \in [Attacks -> SUBSET Rules]
                        /\ Block \notin Attacks
                        /\ LastInstant \in Nat /\ MaxWindow \in Nat

VARIABLES
    stored,    \* head -> [at, rule, source], for the heads in alerts
    windows,   \* the rows of lab_windows.csv, in the order of the file
    tag,       \* the running lab_tag: "idle", or the window it works on
    build,     \* the running build_gold and the G2 pool it has so far
    \* history:
    orphans    \* heads in the window of a lab_tag that stopped after its retag

vars == <<stored, windows, tag, build, orphans>>

---------------------------------------------------------------------------
Within(h, w) == /\ AgentOf[h] = w.agent
                /\ w.since <= stored[h].at /\ stored[h].at <= w.until

HeadsIn(w) == {h \in DOMAIN stored : Within(h, w)}

(* What validate_window, validate_kind and validate_category let through.  *)
Windows ==
    {w \in [id : Scenarios, category : Attacks \cup {Block}, kind : {"attack", "benign"},
            agent : Agents, since : Instants, until : Instants] :
        /\ w.since < w.until /\ w.until - w.since <= MaxWindow
        /\ w.category = Block => w.kind = "benign"}

Idle == [pc |-> "idle"]
Nothing == [h \in {} |-> {}]

Init ==
    /\ stored = Nothing /\ windows = <<>> /\ orphans = {}
    /\ tag = Idle /\ build = Idle

---------------------------------------------------------------------------
(* The pipeline stores a head; nothing bounds how late it does so.         *)
Index(h, at, rule) ==
    /\ h \notin DOMAIN stored
    /\ stored' = [x \in DOMAIN stored \cup {h} |->
                    IF x = h THEN [at |-> at, rule |-> rule, source |-> "wazuh"]
                    ELSE stored[x]]
    /\ UNCHANGED <<windows, tag, build, orphans>>

(* main of lab_tag: every refusal comes before the database is opened.     *)
IsNew(id) == \A i \in DOMAIN windows : windows[i].id # id

NoOverlap(w) == \A i \in DOMAIN windows :
                    windows[i].agent = w.agent =>
                        ~ (w.since <= windows[i].until /\ windows[i].since <= w.until)

TagBegin(w, allow_overlap) ==
    /\ tag = Idle
    /\ IsNew(w.id)
    /\ allow_overlap \/ NoOverlap(w)
    /\ tag' = [pc |-> "retag", w |-> w]
    /\ UNCHANGED <<stored, windows, build, orphans>>

(* The bug of a window without its end. *)
TaggedNoEnd(w) == [h \in DOMAIN stored |->
                IF AgentOf[h] = w.agent /\ w.since <= stored[h].at
                THEN [stored[h] EXCEPT !.source = "lab"] ELSE stored[h]]

(* retag: one transaction. *)
Tagged(w) == [h \in DOMAIN stored |->
                IF Within(h, w) /\ stored[h].source = "wazuh"
                THEN [stored[h] EXCEPT !.source = "lab"] ELSE stored[h]]

Retag ==
    /\ tag.pc = "retag"
    /\ stored' = Tagged(tag.w)
    /\ tag' = [tag EXCEPT !.pc = "append"]
    /\ UNCHANGED <<windows, build, orphans>>

(* append_window_row. *)
AppendRow ==
    /\ tag.pc = "append"
    /\ windows' = Append(windows, tag.w)
    /\ tag' = Idle
    /\ UNCHANGED <<stored, build, orphans>>

(* The database cannot be reached, the file cannot be written, or the      *)
(* process is stopped.                                                     *)
TagDies ==
    /\ tag # Idle
    /\ orphans' = IF tag.pc = "append" THEN orphans \cup HeadsIn(tag.w) ELSE orphans
    /\ tag' = Idle
    /\ UNCHANGED <<stored, windows, build>>

---------------------------------------------------------------------------
(* assert_windows_disjoint: adjacent pairs of each agent's windows, sorted *)
(* by (since, until).  A window with none of its agent's between it and    *)
(* its predecessor is adjacent to it.                                      *)
Before(v, w) == v.since < w.since \/ (v.since = w.since /\ v.until < w.until)

Adjacent(ws, i, j) ==
    LET of(k) == ws[k].agent = ws[i].agent
        lt(k, m) == Before(ws[k], ws[m]) \/ (~ Before(ws[m], ws[k]) /\ k < m)
    IN  of(j) /\ lt(i, j) /\ ~ \E k \in DOMAIN ws : of(k) /\ lt(i, k) /\ lt(k, j)

(* The bug of windows that may share a second. *)
DisjointStrict(ws) ==
    \A i, j \in DOMAIN ws : Adjacent(ws, i, j) => ws[j].since >= ws[i].until

Disjoint(ws) ==
    \A i, j \in DOMAIN ws : Adjacent(ws, i, j) => ~ (ws[j].since <= ws[i].until)

(* main of build_gold, as far as its windows: none recorded, or two that   *)
(* overlap, and it stops.  The file only grows, so that the rows it read   *)
(* are kept as their number.                                               *)
BuildBegin ==
    /\ build = Idle
    /\ windows # <<>> /\ Disjoint(windows)
    /\ build' = [pc |-> "select", read |-> Len(windows), next |-> 1, rows |-> Nothing,
                 there |-> DOMAIN stored]
    /\ UNCHANGED <<stored, windows, tag, orphans>>

(* _g2_select, one window of it: the query sees what is committed now.     *)
InScope(h, w) == w.category = Block \/ stored[h].rule \in Expected[w.category]
Untagged(w) == {h \in HeadsIn(w) : stored[h].source # "lab"}

Selected(w) ==
    LET new == {h \in HeadsIn(w) : h \notin DOMAIN build.rows /\ InScope(h, w)}
    IN  [h \in DOMAIN build.rows \cup new |->
            IF h \in new THEN TruthByKind[w.kind] ELSE build.rows[h]]

(* The bug of a build that takes what is tagged and says nothing. *)
SelectTaggedOnly ==
    /\ build.pc = "select" /\ build.next <= build.read
    /\ LET w == windows[build.next]
           rows == Selected(w)
       IN  build' = [build EXCEPT
                        !.rows = [h \in DOMAIN rows \ Untagged(w) |-> rows[h]], !.next = @ + 1]
    /\ UNCHANGED <<stored, windows, tag, orphans>>

SelectWindow ==
    /\ build.pc = "select" /\ build.next <= build.read
    /\ LET w == windows[build.next]
       IN  build' = IF Untagged(w) # {} THEN Idle         \* UntaggedWindow
                    ELSE [build EXCEPT !.rows = Selected(w), !.next = @ + 1]
    /\ UNCHANGED <<stored, windows, tag, orphans>>

Built == build.pc = "select" /\ build.next > build.read

(* allocate and write_outputs. *)
BuildEnds ==
    /\ Built
    /\ build' = Idle
    /\ UNCHANGED <<stored, windows, tag, orphans>>

Next ==
    \/ \E h \in Heads, at \in Instants, rule \in Rules : Index(h, at, rule)
    \/ \E w \in Windows, allow_overlap \in BOOLEAN : TagBegin(w, allow_overlap)
    \/ Retag \/ AppendRow \/ TagDies
    \/ BuildBegin \/ SelectWindow \/ BuildEnds

Spec == Init /\ [][Next]_vars

---------------------------------------------------------------------------
(* A head is 'lab' only because a command retagged it: it lies in a        *)
(* recorded window, in the window of the command that is about to record   *)
(* it, or in that of a command that stopped between its commit and its     *)
(* row.  The last case leaves lab alerts no window accounts for.           *)
LabEarned ==
    \A h \in DOMAIN stored : stored[h].source = "lab" =>
        \/ \E i \in DOMAIN windows : Within(h, windows[i])
        \/ tag.pc = "append" /\ Within(h, tag.w)
        \/ h \in orphans

(* A candidate has one truth, that of every window of its agent it lies    *)
(* in, the seconds at both ends included: windows that meet in one second  *)
(* are refused whatever --allow-overlap let into the file.                 *)
OneTruth ==
    Built => \A h \in DOMAIN build.rows : \A i \in 1 .. build.read :
        Within(h, windows[i]) => build.rows[h] = TruthByKind[windows[i].kind]

(* A forgotten or late tag never makes G2 smaller in silence: a pool holds *)
(* every head that was stored when its build began, lies in a window it    *)
(* read and is in scope there.                                             *)
PoolWhole ==
    Built => \A i \in 1 .. build.read : \A h \in build.there :
        Within(h, windows[i]) /\ InScope(h, windows[i]) => h \in DOMAIN build.rows

(* The lab's claims on the gold: where an alert came from, what it really   *)
(* was, and that none is missing.                                          *)
LabTruth == LabEarned /\ OneTruth /\ PoolWhole
=============================================================================
