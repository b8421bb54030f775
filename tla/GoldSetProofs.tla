---------------------------- MODULE GoldSetProofs ----------------------------
(***************************************************************************)
(* The gold set, for every set of candidates, of people and of labels and  *)
(* any number of undos and freezes: every frozen row has its reason, the   *)
(* database bears the sealed versions out, and the meeting's work is kept. *)
(* Then the pages people label and decide from: nobody is primed.          *)
(***************************************************************************)
EXTENDS GoldSet, Views, FiniteSetTheorems, SequenceTheorems, TLAPS

(* What a page, a file and a command hold. *)
Entry == [cluster : Candidates, label : Labels]

IsSheet(s) == s # Null => DOMAIN s \subseteq Candidates /\ s \in [DOMAIN s -> SheetRows]

IsTable(rows) == DOMAIN rows \subseteq Candidates

IsCommand(command) ==
    \/ command = Idle
    \/ command = [pc |-> "disagreements"]
    \/ /\ command.pc = "read" /\ command = [pc |-> "read", sheet |-> command.sheet]
       /\ IsSheet(command.sheet)
    \/ /\ command.pc = "write" /\ command = [pc |-> "write", rows |-> command.rows]
       /\ IsTable(command.rows)
    \/ /\ command.pc \in {"seal", "record"}
       /\ command = [pc |-> command.pc, version |-> command.version, rows |-> command.rows]
       /\ IsTable(command.rows)

(* A labeller's rows: one to a cluster. *)
Single(rows) == \A i, j \in 1 .. Len(rows) : rows[i].cluster = rows[j].cluster => i = j

Types ==
    /\ labels \in [Labelers -> Seq(Entry)] /\ \A l \in Labelers : Single(labels[l])
    /\ undo \subseteq Labelers /\ excluded \subseteq Windowed
    /\ IsSheet(sheet) /\ IsCommand(cmd)
    /\ gold = [v \in 1 .. Len(gold) |-> gold[v]] /\ Len(gold) \in Nat
    /\ \A v \in 1 .. Len(gold) : IsTable(gold[v])
    /\ sealed \subseteq 1 .. Len(gold)
    /\ DOMAIN records \subseteq Peers
    /\ undone \in [Candidates -> Nat]

(* A peer row of a sheet shows the two labels it was printed for.  They    *)
(* differ, so that both people have labelled, and as long as nothing was   *)
(* taken back they are the labels there are.                               *)
ShowsLabels(s) ==
    s # Null => \A c \in DOMAIN s \cap Peers :
        /\ Disagrees(s[c].pair)
        /\ s[c].pair = Pair(c) \/ undone[c] > 0

SheetsShow == ShowsLabels(sheet) /\ (cmd.pc = "read" => ShowsLabels(cmd.sheet))

(* A row has its reason, under the exclusions and the undos there were.    *)
Reasoned(exclusions, undos, c, row) ==
    /\ c \notin exclusions
    /\ c \in Windowed => row.label = Truth[c] /\ ~ row.adjudicated
    /\ c \in Peers =>
          /\ \A l \in Labelers : row.pair[l] \in Labels
          /\ IF \A l, k \in Labelers : row.pair[l] = row.pair[k]
             THEN ~ row.adjudicated /\ \A l \in Labelers : row.pair[l] = row.label
             ELSE /\ row.adjudicated /\ row.label \in Labels
                  /\ row.shown = row.pair \/ undos[c] > 0

Committing == cmd.pc \in {"write", "seal", "record"}

RowsReasoned ==
    /\ \A v \in 1 .. Len(gold) : \A c \in DOMAIN gold[v] : Reasoned(excluded, undone, c, gold[v][c])
    /\ Committing => \A c \in DOMAIN cmd.rows : Reasoned(excluded, undone, c, cmd.rows[c])

(* The version a command works on is the last, and it has written it.      *)
VersionsKept ==
    /\ cmd.pc \in {"seal", "record"} =>
          cmd.version = Len(gold) /\ Len(gold) > 0 /\ gold[cmd.version] = cmd.rows
    /\ cmd.pc = "record" => cmd.version \in sealed

(* Every undo under way began while there was no marker.                   *)
UndosEarly == undo \subseteq early

(* The labels a table rests on are still there, but for those somebody     *)
(* took back after the freeze had read them.                               *)
Gave(rows, c, label) == \E i \in 1 .. Len(rows) : rows[i].cluster = c /\ rows[i].label = label

RestsOn(given, late, rows) ==
    \A c \in DOMAIN rows \cap Peers : \A l \in Labelers \ late :
        Gave(given[l], c, rows[c].pair[l])

LabelsStay == /\ \A v \in sealed : RestsOn(labels, overlap, gold[v])
              /\ Committing => RestsOn(labels, overlap, cmd.rows)

(* A command that is about to overwrite the sheet found nothing decided.   *)
NothingDecided == cmd.pc = "disagreements" => Filled(sheet) \subseteq filled

IInv == /\ Types /\ SheetsShow /\ RowsReasoned /\ VersionsKept /\ UndosEarly /\ LabelsStay
        /\ NothingDecided /\ RecordsFollowFiles

---------------------------------------------------------------------------
(* Sequences: what Append and SubSeq do to any sequence, and what a        *)
(* labeller's rows say of a cluster.                                       *)

LEMMA Appended ==
    ASSUME NEW rows, Len(rows) \in Nat, rows = [i \in 1 .. Len(rows) |-> rows[i]], NEW x
    PROVE  /\ Len(Append(rows, x)) = Len(rows) + 1
           /\ \A i \in 1 .. Len(rows) : Append(rows, x)[i] = rows[i]
           /\ Append(rows, x)[Len(rows) + 1] = x
           /\ Append(rows, x) = [i \in 1 .. Len(rows) + 1 |-> Append(rows, x)[i]]
<1> DEFINE T == {rows[i] : i \in 1 .. Len(rows)} \cup {x}
<1>1. rows \in [1 .. Len(rows) -> T]  OBVIOUS
<1>2. rows \in Seq(T)  BY <1>1
<1>3. x \in T  OBVIOUS
<1> HIDE DEF T
<1>4. Append(rows, x) \in Seq(T) /\ Len(Append(rows, x)) = Len(rows) + 1  BY <1>2, <1>3
<1>5. Append(rows, x) \in [1 .. Len(rows) + 1 -> T]  BY <1>4, LenProperties
<1>6. \A i \in 1 .. Len(rows) : Append(rows, x)[i] = rows[i]  BY <1>2, <1>3
<1>7. Append(rows, x)[Len(rows) + 1] = x  BY <1>2, <1>3
<1> QED BY <1>4, <1>5, <1>6, <1>7

LabelIn(rows, c) ==
    LET entries == {rows[i] : i \in 1 .. Len(rows)}
    IN  IF \E e \in entries : e.cluster = c
        THEN (CHOOSE e \in entries : e.cluster = c).label ELSE Null

LEMMA LabelIsIn ==
    ASSUME NEW l, NEW c
    PROVE  /\ LabelOf(l, c) = LabelIn(labels[l], c)
           /\ LabelOf(l, c)' = LabelIn(labels'[l], c)
BY DEF LabelOf, Labelled, Entries, LabelIn

(* With one row to a cluster the label that is read is the one given.      *)
LEMMA LabelGiven ==
    ASSUME NEW rows \in Seq(Entry), Single(rows), NEW c
    PROVE  /\ \A label \in Labels : LabelIn(rows, c) = label <=> Gave(rows, c, label)
           /\ LabelIn(rows, c) \in Labels \cup {Null}
           /\ LabelIn(rows, c) # Null <=> \E i \in 1 .. Len(rows) : rows[i].cluster = c
<1> DEFINE entries == {rows[i] : i \in 1 .. Len(rows)}
<1>0. Null \notin Labels  BY CandidateAssumption
<1>1. \A i \in 1 .. Len(rows) : rows[i] \in Entry  OBVIOUS
<1>2. CASE \E e \in entries : e.cluster = c
  <2> DEFINE e == CHOOSE x \in entries : x.cluster = c
  <2>1. e \in entries /\ e.cluster = c  BY <1>2
  <2>2. LabelIn(rows, c) = e.label  BY <1>2 DEF LabelIn
  <2> HIDE DEF e
  <2>3. PICK i \in 1 .. Len(rows) : e = rows[i]  BY <2>1
  <2>4. e.label \in Labels  BY <2>3, <1>1 DEF Entry
  <2>5. \A j \in 1 .. Len(rows) : rows[j].cluster = c => j = i
    BY <2>1, <2>3 DEF Single
  <2> QED BY <2>1, <2>2, <2>3, <2>4, <2>5, <1>0 DEF Gave
<1>3. CASE ~ \E e \in entries : e.cluster = c
  <2>1. LabelIn(rows, c) = Null  BY <1>3 DEF LabelIn
  <2>2. ~ \E i \in 1 .. Len(rows) : rows[i].cluster = c  BY <1>3
  <2> QED BY <2>1, <2>2, <1>0 DEF Gave
<1> QED BY <1>2, <1>3

LEMMA OneMore ==
    ASSUME NEW rows \in Seq(Entry), Single(rows), NEW c \in Candidates, NEW label \in Labels,
           ~ \E i \in 1 .. Len(rows) : rows[i].cluster = c
    PROVE  LET more == Append(rows, [cluster |-> c, label |-> label])
           IN  /\ more \in Seq(Entry) /\ Single(more)
               /\ \A x, given : Gave(rows, x, given) => Gave(more, x, given)
<1> DEFINE e == [cluster |-> c, label |-> label]
<1> DEFINE more == Append(rows, e)
<1>1. e \in Entry /\ e.cluster = c  BY DEF Entry
<1> HIDE DEF e
<1>2. more \in Seq(Entry) /\ Len(more) = Len(rows) + 1  BY <1>1
<1>3. \A i \in 1 .. Len(rows) : more[i] = rows[i]  BY <1>1
<1>4. more[Len(rows) + 1] = e  BY <1>1
<1>5. Len(rows) \in Nat  OBVIOUS
<1> HIDE DEF more
<1>6. Single(more)
  <2> SUFFICES ASSUME NEW i \in 1 .. Len(rows) + 1, NEW j \in 1 .. Len(rows) + 1,
                      more[i].cluster = more[j].cluster
               PROVE  i = j
    BY <1>2 DEF Single
  <2>1. i \in 1 .. Len(rows) \/ i = Len(rows) + 1  BY <1>5
  <2>2. j \in 1 .. Len(rows) \/ j = Len(rows) + 1  BY <1>5
  <2> QED BY <2>1, <2>2, <1>1, <1>3, <1>4 DEF Single
<1>7. \A x, given : Gave(rows, x, given) => Gave(more, x, given)
  BY <1>2, <1>3, <1>5 DEF Gave
<1> QED BY <1>2, <1>6, <1>7 DEF e, more

LEMMA OneLess ==
    ASSUME NEW rows \in Seq(Entry), Single(rows), rows # <<>>
    PROVE  LET less == SubSeq(rows, 1, Len(rows) - 1)
               last == rows[Len(rows)].cluster
           IN  /\ less \in Seq(Entry) /\ Single(less) /\ last \in Candidates
               /\ \A x : x # last => \A given : Gave(rows, x, given) <=> Gave(less, x, given)
<1> DEFINE less == SubSeq(rows, 1, Len(rows) - 1)
<1>1. Len(rows) \in Nat /\ Len(rows) # 0  OBVIOUS
<1> DEFINE n == Len(rows) - 1
<1>0. n \in Nat /\ n = Len(rows) - 1  BY <1>1
<1>a. \A i \in 1 .. n : rows[i] \in Entry  BY <1>0
<1> HIDE DEF n
<1>b. /\ SubSeq(rows, 1, n) \in Seq(Entry)
      /\ Len(SubSeq(rows, 1, n)) = IF 1 <= n THEN n - 1 + 1 ELSE 0
      /\ \A i \in 1 .. n - 1 + 1 : SubSeq(rows, 1, n)[i] = rows[1 + i - 1]
  BY <1>0, <1>a, SubSeqProperties
<1>c. less = SubSeq(rows, 1, n)  BY DEF n
<1>d. less \in Seq(Entry) /\ Len(less) = n  BY <1>0, <1>b, <1>c
<1>e. \A i \in 1 .. n : less[i] = rows[i]
  <2> TAKE i \in 1 .. n
  <2>1. i \in 1 .. n - 1 + 1 /\ 1 + i - 1 = i  BY <1>0
  <2> QED BY <2>1, <1>b, <1>c
<1>2. less \in Seq(Entry) /\ Len(less) = Len(rows) - 1  BY <1>0, <1>d
<1>3. \A i \in 1 .. Len(rows) - 1 : less[i] = rows[i]  BY <1>0, <1>e
<1>4. rows[Len(rows)] \in Entry  BY <1>1
<1>5. \A i \in 1 .. Len(rows) : i \in 1 .. Len(rows) - 1 \/ i = Len(rows)  BY <1>1
<1>6. \A i \in 1 .. Len(rows) - 1 : i \in 1 .. Len(rows)  BY <1>1
<1> HIDE DEF less
<1>7. Single(less)  BY <1>2, <1>3, <1>6 DEF Single
<1>8. ASSUME NEW x, x # rows[Len(rows)].cluster, NEW given
      PROVE  Gave(rows, x, given) <=> Gave(less, x, given)
  BY <1>2, <1>3, <1>5, <1>6, <1>8 DEF Gave
<1> QED BY <1>2, <1>4, <1>7, <1>8 DEF less, Entry

---------------------------------------------------------------------------
(* The rows of the two people: no step but an undo takes one away, and     *)
(* none changes one.                                                       *)

LEMMA LabelsTyped ==
    ASSUME Types, [Next]_vars
    PROVE  labels' \in [Labelers -> Seq(Entry)] /\ \A l \in Labelers : Single(labels'[l])
<1> USE DEF Types
<1>1. ASSUME NEW l \in Labelers, NEW c \in Candidates, NEW label \in Labels, Submit(l, c, label)
      PROVE  labels' \in [Labelers -> Seq(Entry)] /\ \A k \in Labelers : Single(labels'[k])
  <2> DEFINE more == Append(labels[l], [cluster |-> c, label |-> label])
  <2>1. ~ \E i \in 1 .. Len(labels[l]) : labels[l][i].cluster = c
    BY <1>1 DEF Submit, Labelled, Entries
  <2>2. labels[l] \in Seq(Entry) /\ Single(labels[l])  OBVIOUS
  <2>3. more \in Seq(Entry) /\ Single(more)  BY <2>1, <2>2, OneMore
  <2>4. labels' = [labels EXCEPT ![l] = more]  BY <1>1 DEF Submit
  <2> HIDE DEF more
  <2> QED BY <2>3, <2>4
<1>2. ASSUME NEW l \in Labelers, UndoDelete(l)
      PROVE  labels' \in [Labelers -> Seq(Entry)] /\ \A k \in Labelers : Single(labels'[k])
  <2>1. CASE labels[l] = <<>>  BY <1>2, <2>1 DEF UndoDelete
  <2>2. CASE labels[l] # <<>>
    <3> DEFINE less == SubSeq(labels[l], 1, Len(labels[l]) - 1)
    <3>1. labels[l] \in Seq(Entry) /\ Single(labels[l])  OBVIOUS
    <3>2. less \in Seq(Entry) /\ Single(less)  BY <3>1, <2>2, OneLess
    <3>3. labels' = [labels EXCEPT ![l] = less]  BY <1>2, <2>2 DEF UndoDelete
    <3> HIDE DEF less
    <3> QED BY <3>2, <3>3
  <2> QED BY <2>1, <2>2
<1>3. CASE UNCHANGED labels  BY <1>3
<1> QED BY <1>1, <1>2, <1>3
        DEF Next, vars, UndoBegin, DisagreementsBegin, DisagreementsWrite, Decide, FreezeBegin,
            ReadLabels, WriteCsv, TornCsv, Seal, Record, Crash

(* The cluster an undo of l takes back.                                    *)
LastGiven(l) == labels[l][Len(labels[l])].cluster

(* A labeller's row of a cluster stays, unless it is his last and he takes *)
(* it back.                                                                *)
TakenBack(l, c) == /\ UndoDelete(l) /\ labels[l] # <<>> /\ c = LastGiven(l)
                   /\ undone' = [undone EXCEPT ![c] = @ + 1]
                   /\ overlap' = IF ReadByFreeze(c) /\ l \in early
                                 THEN overlap \cup {l} ELSE overlap

LEMMA RowsStay ==
    ASSUME Types, [Next]_vars, NEW k \in Labelers, NEW c \in Candidates, NEW label
    PROVE  Gave(labels[k], c, label) => Gave(labels'[k], c, label) \/ TakenBack(k, c)
<1> USE DEF Types
<1>1. ASSUME NEW l \in Labelers, NEW x \in Candidates, NEW given \in Labels, Submit(l, x, given)
      PROVE  Gave(labels[k], c, label) => Gave(labels'[k], c, label)
  <2> DEFINE more == Append(labels[l], [cluster |-> x, label |-> given])
  <2>1. ~ \E i \in 1 .. Len(labels[l]) : labels[l][i].cluster = x
    BY <1>1 DEF Submit, Labelled, Entries
  <2>2. labels[l] \in Seq(Entry) /\ Single(labels[l])  OBVIOUS
  <2>3. Gave(labels[l], c, label) => Gave(more, c, label)  BY <2>1, <2>2, OneMore
  <2>4. labels' = [labels EXCEPT ![l] = more]  BY <1>1 DEF Submit
  <2> HIDE DEF more
  <2> QED BY <2>3, <2>4
<1>2. ASSUME NEW l \in Labelers, UndoDelete(l), ~ TakenBack(k, c)
      PROVE  Gave(labels[k], c, label) => Gave(labels'[k], c, label)
  <2>1. CASE labels[l] = <<>>  BY <1>2, <2>1 DEF UndoDelete
  <2>2. CASE labels[l] # <<>>
    <3> DEFINE less == SubSeq(labels[l], 1, Len(labels[l]) - 1)
    <3>1. labels[l] \in Seq(Entry) /\ Single(labels[l])  OBVIOUS
    <3>2. c # LastGiven(l) => (Gave(labels[l], c, label) => Gave(less, c, label))
      BY <3>1, <2>2, OneLess DEF LastGiven
    <3>3. labels' = [labels EXCEPT ![l] = less]  BY <1>2, <2>2 DEF UndoDelete
    <3>4. k = l => c # LastGiven(l)  BY <1>2, <2>2 DEF UndoDelete, TakenBack, LastGiven
    <3> HIDE DEF less
    <3> QED BY <3>2, <3>3, <3>4
  <2> QED BY <2>1, <2>2
<1>3. CASE UNCHANGED labels  BY <1>3
<1> QED BY <1>1, <1>2, <1>3
        DEF Next, vars, UndoBegin, DisagreementsBegin, DisagreementsWrite, Decide, FreezeBegin,
            ReadLabels, WriteCsv, TornCsv, Seal, Record, Crash

LEMMA PairTyped ==
    ASSUME Types, NEW c
    PROVE  /\ Pair(c) \in Pairs
           /\ \A l \in Labelers : /\ Pair(c)[l] = LabelIn(labels[l], c)
                                  /\ Pair(c)[l] # Null =>
                                        Pair(c)[l] \in Labels /\ Gave(labels[l], c, Pair(c)[l])
<1>1. ASSUME NEW l \in Labelers
      PROVE  /\ LabelIn(labels[l], c) \in Labels \cup {Null}
             /\ LabelIn(labels[l], c) # Null =>
                   LabelIn(labels[l], c) \in Labels /\ Gave(labels[l], c, LabelIn(labels[l], c))
  <2>1. labels[l] \in Seq(Entry) /\ Single(labels[l])  BY DEF Types
  <2> QED BY <2>1, LabelGiven
<1>2. Pair(c) = [l \in Labelers |-> LabelIn(labels[l], c)]  BY LabelIsIn DEF Pair
<1> QED BY <1>1, <1>2 DEF Pairs

(* What nobody took back is what a pair shows from then on.                *)
LEMMA PairStays ==
    ASSUME Types, [Next]_vars, NEW c \in Candidates, BothLabelled(Pair(c))
    PROVE  Pair(c)' = Pair(c) \/ \E l \in Labelers : TakenBack(l, c)
<1> SUFFICES ASSUME \A l \in Labelers : ~ TakenBack(l, c)
             PROVE  Pair(c)' = Pair(c)
  OBVIOUS
<1>1. Pair(c) = [l \in Labelers |-> LabelIn(labels[l], c)]  BY LabelIsIn DEF Pair
<1>2. Pair(c)' = [l \in Labelers |-> LabelIn(labels'[l], c)]  BY LabelIsIn DEF Pair
<1>3. ASSUME NEW l \in Labelers
      PROVE  LabelIn(labels'[l], c) = LabelIn(labels[l], c)
  <2> DEFINE label == LabelIn(labels[l], c)
  <2>1. label \in Labels /\ Gave(labels[l], c, label)
    BY <1>1, PairTyped DEF BothLabelled
  <2> HIDE DEF label
  <2>2. Gave(labels'[l], c, label)  BY <2>1, RowsStay
  <2>3. labels'[l] \in Seq(Entry) /\ Single(labels'[l])  BY LabelsTyped
  <2>4. LabelIn(labels'[l], c) = label  BY <2>1, <2>2, <2>3, LabelGiven
  <2> QED BY <2>4 DEF label
<1> QED BY <1>1, <1>2, <1>3

LEMMA UndoneGrows ==
    ASSUME Types, [Next]_vars
    PROVE  /\ undone' \in [Candidates -> Nat]
           /\ \A c \in Candidates : undone[c] > 0 => undone'[c] > 0
           /\ \A c \in Candidates, l \in Labelers : TakenBack(l, c) => undone'[c] > 0
<1> USE DEF Types
<1>1. ASSUME NEW l \in Labelers, UndoDelete(l)
      PROVE  \/ UNCHANGED undone
             \/ \E c \in Candidates : undone' = [undone EXCEPT ![c] = @ + 1]
  <2>1. CASE labels[l] = <<>>  BY <1>1, <2>1 DEF UndoDelete
  <2>2. CASE labels[l] # <<>>
    <3>1. labels[l] \in Seq(Entry) /\ Single(labels[l])  OBVIOUS
    <3>2. LastGiven(l) \in Candidates  BY <2>2, <3>1, OneLess DEF LastGiven
    <3> QED BY <1>1, <2>2, <3>2 DEF UndoDelete, LastGiven
  <2> QED BY <2>1, <2>2
<1>2. UNCHANGED undone \/ \E c \in Candidates : undone' = [undone EXCEPT ![c] = @ + 1]
  BY <1>1 DEF Next, vars, histories, Submit, UndoBegin, DisagreementsBegin, DisagreementsWrite,
              Decide, FreezeBegin, ReadLabels, WriteCsv, TornCsv, Seal, Record, Crash
<1>3. undone' \in [Candidates -> Nat] /\ \A c \in Candidates : undone[c] > 0 => undone'[c] > 0
  <2>1. undone \in [Candidates -> Nat]  OBVIOUS
  <2> QED BY ONLY <1>2, <2>1
<1>4. ASSUME NEW c \in Candidates, NEW l \in Labelers, TakenBack(l, c)
      PROVE  undone'[c] > 0
  BY <1>4 DEF TakenBack
<1> QED BY <1>3, <1>4

---------------------------------------------------------------------------
(* Types.                                                                  *)

LEMMA LabelersThere == Labelers # {} /\ (CHOOSE l \in Labelers : TRUE) \in Labelers
BY CandidateAssumption, FS_EmptySet

LEMMA TypesInit == Init => Types
<1> SUFFICES ASSUME Init PROVE Types
  OBVIOUS
<1>1. labels \in [Labelers -> Seq(Entry)] /\ \A l \in Labelers : labels[l] = <<>>
  BY DEF Init
<1>2. \A l \in Labelers : Single(labels[l])  BY <1>1 DEF Single
<1>3. IsSheet(sheet) /\ IsCommand(cmd)  BY DEF Init, IsSheet, IsCommand
<1>4. gold = <<>> /\ Len(gold) = 0 /\ gold = [v \in 1 .. Len(gold) |-> gold[v]]
  BY DEF Init
<1> QED BY <1>1, <1>2, <1>3, <1>4 DEF Init, Types, NoRows

(* A step writes the sheet or leaves it.                                   *)
LEMMA SheetTyped ==
    ASSUME Types, [Next]_vars
    PROVE  IsSheet(sheet)'
<1>1. CASE DisagreementsWrite
  <2>1. IsSheet(sheet)  BY DEF Types
  <2>2. CASE sheet' = sheet  BY <2>1, <2>2 DEF IsSheet
  <2>3. CASE sheet' = [c \in ToAdjudicate |-> [pair |-> Shown(c), final |-> Null]]
    <3>1. \A c : Shown(c) \in Pairs \cup {Null}  BY PairTyped DEF Shown
    <3>2. ToAdjudicate \subseteq Candidates  BY DEF ToAdjudicate, Candidates
    <3> QED BY <2>3, <3>1, <3>2 DEF IsSheet, SheetRows
  <2> QED BY <1>1, <2>2, <2>3 DEF DisagreementsWrite
<1>2. ASSUME NEW c \in Candidates, NEW label \in Labels, Decide(c, label)
      PROVE  IsSheet(sheet')
  <2>1. sheet \in [DOMAIN sheet -> SheetRows] /\ DOMAIN sheet \subseteq Candidates
    BY <1>2 DEF Types, IsSheet, Decide
  <2>2. c \in DOMAIN sheet /\ sheet' = [sheet EXCEPT ![c].final = label]  BY <1>2 DEF Decide
  <2>3. sheet[c] \in SheetRows  BY <2>1, <2>2
  <2>4. [sheet[c] EXCEPT !.final = label] \in SheetRows  BY <2>3 DEF SheetRows
  <2>5. sheet' = [sheet EXCEPT ![c] = [sheet[c] EXCEPT !.final = label]]  BY <2>2
  <2> QED BY <2>1, <2>4, <2>5 DEF IsSheet
<1>3. CASE UNCHANGED sheet  BY <1>3 DEF Types, IsSheet
<1> QED BY <1>1, <1>2, <1>3
        DEF Next, vars, Submit, UndoBegin, UndoDelete, DisagreementsBegin, FreezeBegin,
            ReadLabels, WriteCsv, TornCsv, Seal, Record, Crash

(* What becomes of the command.                                            *)
LEMMA CommandSteps ==
    ASSUME [Next]_vars
    PROVE  \/ cmd' = cmd \/ cmd' = Idle \/ DisagreementsBegin \/ FreezeBegin
           \/ \E named, allow_partial \in BOOLEAN : ReadLabels(named, allow_partial)
           \/ WriteCsv \/ Seal
BY DEF Next, vars, Submit, UndoBegin, UndoDelete, DisagreementsWrite, Decide, TornCsv,
       Record, Crash

LEMMA CommandTyped ==
    ASSUME Types, [Next]_vars
    PROVE  IsCommand(cmd)'
<1>0. IsSheet(sheet) /\ IsCommand(cmd)  BY DEF Types
<1>1. CASE cmd' = Idle  BY <1>1 DEF IsCommand
<1>2. CASE DisagreementsBegin  BY <1>2 DEF DisagreementsBegin, IsCommand
<1>3. CASE FreezeBegin  BY <1>0, <1>3 DEF FreezeBegin, IsCommand
<1>4. ASSUME NEW named, NEW allow_partial, ReadLabels(named, allow_partial), cmd' # Idle
      PROVE  IsCommand(cmd')
  <2>1. cmd' = [pc |-> "write", rows |-> [c \in Kept \ Partial(Kept) |-> GoldRow(cmd.sheet, c)]]
    BY <1>4 DEF ReadLabels
  <2>2. Kept \ Partial(Kept) \subseteq Candidates  BY DEF Kept
  <2> QED BY <2>1, <2>2 DEF IsCommand, IsTable
<1>5. CASE WriteCsv
  <2>1. IsTable(cmd.rows)  BY <1>0, <1>5 DEF WriteCsv, IsCommand, Idle
  <2> QED BY <1>5, <2>1 DEF WriteCsv, IsCommand
<1>6. CASE Seal
  <2>1. /\ cmd = [pc |-> "seal", version |-> cmd.version, rows |-> cmd.rows]
        /\ IsTable(cmd.rows)
    BY <1>0, <1>6 DEF Seal, IsCommand, Idle
  <2>2. cmd' = [pc |-> "record", version |-> cmd.version, rows |-> cmd.rows]
    BY <1>6, <2>1 DEF Seal
  <2> QED BY <2>1, <2>2 DEF IsCommand
<1>7. CASE UNCHANGED cmd  BY <1>0, <1>7 DEF IsCommand
<1> QED BY <1>1, <1>2, <1>3, <1>4, <1>5, <1>6, <1>7, CommandSteps

(* gold only grows, by the rows of the command or by none.                 *)
GoldGrows ==
    \/ gold' = gold
    \/ \E rows : /\ gold' = Append(gold, rows)
                 /\ \/ WriteCsv /\ rows = cmd.rows /\ IsTable(rows)
                    \/ TornCsv /\ rows = NoRows

LEMMA GoldSteps ==
    ASSUME Types, [Next]_vars
    PROVE  GoldGrows
<1>1. CASE WriteCsv
  <2>1. IsTable(cmd.rows)  BY <1>1 DEF Types, WriteCsv, IsCommand, Idle
  <2> QED BY <1>1, <2>1 DEF GoldGrows, WriteCsv
<1>2. CASE TornCsv  BY <1>2 DEF GoldGrows, TornCsv
<1> QED BY <1>1, <1>2
        DEF Next, vars, Submit, UndoBegin, UndoDelete, DisagreementsBegin, DisagreementsWrite,
            Decide, FreezeBegin, ReadLabels, Seal, Record, Crash, GoldGrows

LEMMA GoldTyped ==
    ASSUME Types, [Next]_vars
    PROVE  /\ gold' = [v \in 1 .. Len(gold') |-> gold'[v]] /\ Len(gold') \in Nat
           /\ \A v \in 1 .. Len(gold') : IsTable(gold'[v])
           /\ Len(gold) <= Len(gold')
           /\ \A v \in 1 .. Len(gold) : gold'[v] = gold[v]
<1>1. CASE gold' = gold  BY <1>1 DEF Types
<1>2. ASSUME NEW rows, gold' = Append(gold, rows), IsTable(rows)
      PROVE  /\ gold' = [v \in 1 .. Len(gold') |-> gold'[v]] /\ Len(gold') \in Nat
             /\ \A v \in 1 .. Len(gold') : IsTable(gold'[v])
             /\ Len(gold) <= Len(gold')
             /\ \A v \in 1 .. Len(gold) : gold'[v] = gold[v]
  <2>1. Len(gold) \in Nat /\ gold = [v \in 1 .. Len(gold) |-> gold[v]]  BY DEF Types
  <2>2. /\ Len(gold') = Len(gold) + 1
        /\ \A v \in 1 .. Len(gold) : gold'[v] = gold[v]
        /\ gold'[Len(gold) + 1] = rows
        /\ gold' = [v \in 1 .. Len(gold) + 1 |-> gold'[v]]
    BY ONLY <1>2, <2>1, Appended
  <2>3. \A v \in 1 .. Len(gold) : IsTable(gold[v])  BY DEF Types
  <2>4. \A v \in 1 .. Len(gold) + 1 : v \in 1 .. Len(gold) \/ v = Len(gold) + 1
    BY ONLY <2>1
  <2>5. Len(gold') \in Nat /\ Len(gold) <= Len(gold')  BY ONLY <2>1, <2>2
  <2>6. \A v \in 1 .. Len(gold') : IsTable(gold'[v])  BY ONLY <1>2, <2>2, <2>3, <2>4
  <2> QED BY ONLY <2>2, <2>5, <2>6
<1>3. IsTable(NoRows)  BY DEF IsTable, NoRows
<1> QED BY <1>1, <1>2, <1>3, GoldSteps DEF GoldGrows

LEMMA TypesKept ==
    ASSUME Types, [Next]_vars, VersionsKept, RowsReasoned
    PROVE  Types'
<1>1. labels' \in [Labelers -> Seq(Entry)] /\ \A l \in Labelers : Single(labels'[l])
  BY LabelsTyped
<1>2. undo' \subseteq Labelers
  BY DEF Types, Next, vars, Submit, UndoBegin, UndoDelete, DisagreementsBegin,
         DisagreementsWrite, Decide, FreezeBegin, ReadLabels, WriteCsv, TornCsv, Seal, Record, Crash
<1>3. excluded' \subseteq Windowed
  BY DEF Types, Next, vars, Submit, UndoBegin, UndoDelete, DisagreementsBegin,
         DisagreementsWrite, Decide, FreezeBegin, ReadLabels, WriteCsv, TornCsv, Seal, Record, Crash
<1>4. sealed' \subseteq 1 .. Len(gold')
  <2>1. 1 .. Len(gold) \subseteq 1 .. Len(gold')  BY GoldTyped DEF Types
  <2>2. CASE Seal
    <3>1. cmd.version \in 1 .. Len(gold)  BY <2>2 DEF Seal, VersionsKept, Types
    <3> QED BY <2>1, <2>2, <3>1 DEF Seal, Types
  <2>3. CASE UNCHANGED sealed  BY <2>1, <2>3 DEF Types
  <2> QED BY <2>2, <2>3
          DEF Next, vars, Submit, UndoBegin, UndoDelete, DisagreementsBegin, DisagreementsWrite,
              Decide, FreezeBegin, ReadLabels, WriteCsv, TornCsv, Record, Crash
<1>5. DOMAIN records' \subseteq Peers
  <2>1. CASE Record
    <3>1. CASE records' = records  BY <3>1 DEF Types
    <3>2. CASE records' = Inserted(cmd.rows)
      <4>1. IsTable(cmd.rows) /\ cmd.pc = "record"  BY <2>1 DEF Types, Record, IsCommand, Idle
      <4>2. Adjudicated(cmd.rows) \subseteq Peers
        BY <4>1 DEF Adjudicated, IsTable, Candidates, RowsReasoned, Committing, Reasoned
      <4> QED BY <3>2, <4>2 DEF Inserted, Types
    <3> QED BY <2>1, <3>1, <3>2 DEF Record
  <2>2. CASE UNCHANGED records  BY <2>2 DEF Types
  <2> QED BY <2>1, <2>2
          DEF Next, vars, Submit, UndoBegin, UndoDelete, DisagreementsBegin, DisagreementsWrite,
              Decide, FreezeBegin, ReadLabels, WriteCsv, TornCsv, Seal, Crash
<1> QED BY <1>1, <1>2, <1>3, <1>4, <1>5, SheetTyped, CommandTyped, GoldTyped, UndoneGrows
        DEF Types

---------------------------------------------------------------------------
(* What the sheets show.                                                   *)

LEMMA ShownStays ==
    ASSUME Types, [Next]_vars, NEW c \in Peers, NEW pair, Disagrees(pair),
           pair = Pair(c) \/ undone[c] > 0
    PROVE  pair = Pair(c)' \/ undone'[c] > 0
<1>1. c \in Candidates  BY DEF Candidates
<1>2. CASE undone[c] > 0  BY <1>1, <1>2, UndoneGrows
<1>3. CASE pair = Pair(c)
  <2>1. BothLabelled(Pair(c))  BY <1>3 DEF Disagrees
  <2>2. Pair(c)' = Pair(c) \/ \E l \in Labelers : TakenBack(l, c)  BY <1>1, <2>1, PairStays
  <2> QED BY <1>1, <1>3, <2>2, UndoneGrows
<1> QED BY <1>2, <1>3

(* A sheet that shows the labels goes on showing them. *)
LEMMA SheetStays ==
    ASSUME Types, [Next]_vars, NEW s, s # Null, ShowsLabels(s)
    PROVE  \A c \in DOMAIN s \cap Peers :
               Disagrees(s[c].pair) /\ (s[c].pair = Pair(c)' \/ undone'[c] > 0)
<1> SUFFICES ASSUME NEW c \in DOMAIN s \cap Peers
             PROVE  Disagrees(s[c].pair) /\ (s[c].pair = Pair(c)' \/ undone'[c] > 0)
  OBVIOUS
<1>1. Disagrees(s[c].pair) /\ (s[c].pair = Pair(c) \/ undone[c] > 0)  BY DEF ShowsLabels
<1> QED BY <1>1, ShownStays

LEMMA SheetsShowKept ==
    ASSUME Types, SheetsShow, [Next]_vars
    PROVE  SheetsShow'
<1>1. ShowsLabels(sheet)'
  <2>1. CASE DisagreementsWrite /\ sheet' # sheet
    <3>1. sheet' = [c \in ToAdjudicate |-> [pair |-> Shown(c), final |-> Null]]
      BY <2>1 DEF DisagreementsWrite
    <3>2. ASSUME NEW c \in ToAdjudicate \cap Peers
          PROVE  Disagrees(Shown(c)) /\ Shown(c) = Pair(c)'
      <4>1. c \notin Windowed  BY <3>2, CandidateAssumption
      <4>2. Disagrees(Pair(c)) /\ Shown(c) = Pair(c)
        BY <3>2, <4>1 DEF ToAdjudicate, Shown
      <4>3. labels' = labels  BY <2>1 DEF DisagreementsWrite
      <4>4. Pair(c)' = Pair(c)  BY <4>3 DEF Pair, LabelOf, Labelled, Entries
      <4> QED BY <4>2, <4>4
    <3> QED BY <3>1, <3>2 DEF ShowsLabels
  <2>2. ASSUME NEW x \in Candidates, NEW label \in Labels, Decide(x, label)
        PROVE  ShowsLabels(sheet)'
    <3>0. sheet # Null  BY <2>2 DEF Decide
    <3>1. sheet \in [DOMAIN sheet -> SheetRows]  BY <3>0 DEF Types, IsSheet
    <3>2. x \in DOMAIN sheet /\ sheet' = [sheet EXCEPT ![x].final = label]
      BY <2>2 DEF Decide
    <3>3. DOMAIN sheet' = DOMAIN sheet  BY <3>1, <3>2
    <3>4. ASSUME NEW c \in DOMAIN sheet
          PROVE  sheet'[c].pair = sheet[c].pair
      <4>1. sheet[x] \in SheetRows  BY <3>1, <3>2
      <4>2. [sheet[x] EXCEPT !.final = label].pair = sheet[x].pair  BY <4>1 DEF SheetRows
      <4>3. sheet' = [sheet EXCEPT ![x] = [sheet[x] EXCEPT !.final = label]]  BY <3>2
      <4> QED BY <3>1, <4>2, <4>3
    <3>5. \A c \in DOMAIN sheet \cap Peers :
             Disagrees(sheet[c].pair) /\ (sheet[c].pair = Pair(c)' \/ undone'[c] > 0)
      BY <3>0, SheetStays DEF SheetsShow
    <3> QED BY <3>3, <3>4, <3>5 DEF ShowsLabels
  <2>3. CASE UNCHANGED sheet
    <3>1. sheet # Null => \A c \in DOMAIN sheet \cap Peers :
             Disagrees(sheet[c].pair) /\ (sheet[c].pair = Pair(c)' \/ undone'[c] > 0)
      BY SheetStays DEF SheetsShow
    <3> QED BY <2>3, <3>1 DEF ShowsLabels
  <2> QED BY <2>1, <2>2, <2>3
          DEF Next, vars, Submit, UndoBegin, UndoDelete, DisagreementsBegin, FreezeBegin,
              ReadLabels, WriteCsv, TornCsv, Seal, Record, Crash
<1>2. ASSUME cmd'.pc = "read"
      PROVE  ShowsLabels(cmd.sheet)'
  <2>1. CASE FreezeBegin
    <3>1. cmd'.sheet = sheet'  BY <2>1 DEF FreezeBegin
    <3> QED BY <1>1, <3>1 DEF ShowsLabels
  <2>2. CASE UNCHANGED cmd
    <3>1. ShowsLabels(cmd.sheet)  BY <1>2, <2>2 DEF SheetsShow
    <3>2. cmd.sheet # Null => \A c \in DOMAIN cmd.sheet \cap Peers :
             /\ Disagrees(cmd.sheet[c].pair)
             /\ cmd.sheet[c].pair = Pair(c)' \/ undone'[c] > 0
      BY <3>1, SheetStays
    <3> QED BY <2>2, <3>2 DEF ShowsLabels
  <2>3. ~ Seal
    <3>1. ASSUME Seal PROVE FALSE
      <4>1. cmd = [pc |-> "seal", version |-> cmd.version, rows |-> cmd.rows]
        BY <3>1 DEF Types, Seal, IsCommand, Idle
      <4> QED BY <1>2, <3>1, <4>1 DEF Seal
    <3> QED BY <3>1
  <2>4. ~ DisagreementsBegin /\ ~ WriteCsv  BY <1>2 DEF DisagreementsBegin, WriteCsv
  <2>5. ~ \E named, allow_partial \in BOOLEAN : ReadLabels(named, allow_partial)
    BY <1>2 DEF ReadLabels, Idle
  <2>6. cmd' # Idle  BY <1>2 DEF Idle
  <2> QED BY <2>1, <2>2, <2>3, <2>4, <2>5, <2>6, CommandSteps
<1> QED BY <1>1, <1>2 DEF SheetsShow

---------------------------------------------------------------------------
(* The reasons of the rows.                                                *)

LEMMA ReasonStays ==
    ASSUME Types, [Next]_vars, NEW c \in Candidates, NEW row, Reasoned(excluded, undone, c, row)
    PROVE  Reasoned(excluded', undone', c, row)
<1>1. excluded' = excluded
  BY DEF Next, vars, Submit, UndoBegin, UndoDelete, DisagreementsBegin, DisagreementsWrite,
         Decide, FreezeBegin, ReadLabels, WriteCsv, TornCsv, Seal, Record, Crash
<1>2. undone[c] > 0 => undone'[c] > 0  BY UndoneGrows
<1> QED BY <1>1, <1>2 DEF Reasoned

(* build_gold_rows: a row it makes has its reason.                         *)
LEMMA RowReasoned ==
    ASSUME Types, SheetsShow, cmd.pc = "read", NEW allow_partial,
           ~ Refuses(cmd.sheet, allow_partial), NEW c \in Kept \ Partial(Kept)
    PROVE  Reasoned(excluded, undone, c, GoldRow(cmd.sheet, c))
<1>0. c \in Candidates /\ c \notin excluded  BY DEF Kept
<1>1. CASE c \in Windowed
  <2>1. c \notin Peers  BY <1>1, CandidateAssumption
  <2>2. /\ GoldRow(cmd.sheet, c).label = Truth[c]
        /\ GoldRow(cmd.sheet, c).adjudicated = FALSE
    BY <1>1 DEF GoldRow
  <2> QED BY <1>0, <2>1, <2>2 DEF Reasoned
<1>2. CASE c \notin Windowed
  <2>1. c \in Peers  BY <1>0, <1>2 DEF Candidates
  <2>2. BothLabelled(Pair(c))  BY <1>2 DEF Partial
  <2>3. \A l \in Labelers : Pair(c)[l] \in Labels  BY <2>2, PairTyped DEF BothLabelled
  <2>4. Shown(c) = Pair(c)  BY <2>1 DEF Shown
  <2>5. CASE ~ Disagrees(Pair(c))
    <3>1. \A l, k \in Labelers : Pair(c)[l] = Pair(c)[k]  BY <2>2, <2>5 DEF Disagrees
    <3>2. /\ GoldRow(cmd.sheet, c).pair = Pair(c)
          /\ GoldRow(cmd.sheet, c).adjudicated = FALSE
          /\ GoldRow(cmd.sheet, c).label = Pair(c)[CHOOSE l \in Labelers : TRUE]
      BY <1>2, <2>4, <2>5 DEF GoldRow
    <3>3. \A l \in Labelers : Pair(c)[l] = Pair(c)[CHOOSE k \in Labelers : TRUE]
      BY <3>1, LabelersThere
    <3> QED BY <1>0, <1>2, <2>3, <3>1, <3>2, <3>3 DEF Reasoned
  <2>6. CASE Disagrees(Pair(c))
    <3>1. FinalLabel(cmd.sheet, c) # Null  BY <2>1, <2>6 DEF Refuses
    <3>2. /\ cmd.sheet # Null /\ c \in DOMAIN cmd.sheet
          /\ FinalLabel(cmd.sheet, c) = cmd.sheet[c].final
      BY <3>1 DEF FinalLabel
    <3>3. cmd.sheet[c].final \in Labels
      <4>1. IsSheet(cmd.sheet)  BY DEF Types, IsCommand, Idle
      <4>2. cmd.sheet[c] \in SheetRows  BY <3>2, <4>1 DEF IsSheet
      <4> QED BY <3>1, <3>2, <4>2 DEF SheetRows
    <3>4. /\ GoldRow(cmd.sheet, c).pair = Pair(c)
          /\ GoldRow(cmd.sheet, c).adjudicated = TRUE
          /\ GoldRow(cmd.sheet, c).label = cmd.sheet[c].final
          /\ GoldRow(cmd.sheet, c).shown = cmd.sheet[c].pair
      BY <1>2, <2>4, <2>6, <3>2 DEF GoldRow
    <3>5. cmd.sheet[c].pair = Pair(c) \/ undone[c] > 0
      BY <2>1, <3>2 DEF SheetsShow, ShowsLabels
    <3>6. ~ \A l, k \in Labelers : Pair(c)[l] = Pair(c)[k]  BY <2>6 DEF Disagrees
    <3> QED BY <1>0, <1>2, <2>3, <3>3, <3>4, <3>5, <3>6 DEF Reasoned
  <2> QED BY <2>5, <2>6
<1> QED BY <1>1, <1>2

LEMMA RowsReasonedKept ==
    ASSUME Types, SheetsShow, RowsReasoned, [Next]_vars
    PROVE  RowsReasoned'
<1> DEFINE Fine(rows) == \A c \in DOMAIN rows : Reasoned(excluded', undone', c, rows[c])
<1>1. ASSUME NEW v \in 1 .. Len(gold) PROVE Fine(gold[v])
  <2>1. DOMAIN gold[v] \subseteq Candidates  BY DEF Types, IsTable
  <2> QED BY <2>1, ReasonStays DEF RowsReasoned
<1>2. ASSUME Committing PROVE Fine(cmd.rows)
  <2>1. DOMAIN cmd.rows \subseteq Candidates
    BY <1>2 DEF Types, IsCommand, IsTable, Committing, Idle
  <2> QED BY <1>2, <2>1, ReasonStays DEF RowsReasoned
<1>3. Fine(NoRows)  BY DEF NoRows
<1>4. ASSUME Committing' PROVE Fine(cmd'.rows)
  <2>1. ASSUME NEW named, NEW allow_partial, ReadLabels(named, allow_partial)
        PROVE  Fine(cmd'.rows)
    <3>1. cmd' # Idle  BY <1>4 DEF Committing, Idle
    <3>2. /\ cmd'.rows = [c \in Kept \ Partial(Kept) |-> GoldRow(cmd.sheet, c)]
          /\ ~ Refuses(cmd.sheet, allow_partial) /\ cmd.pc = "read"
      BY <2>1, <3>1 DEF ReadLabels
    <3>3. \A c \in Kept \ Partial(Kept) : Reasoned(excluded, undone, c, GoldRow(cmd.sheet, c))
      BY <3>2, RowReasoned
    <3>4. excluded' = excluded /\ undone' = undone  BY <2>1 DEF ReadLabels, histories
    <3> QED BY <3>2, <3>3, <3>4
  <2>2. CASE WriteCsv  BY <1>2, <2>2 DEF WriteCsv, Committing
  <2>3. CASE Seal
    <3>1. cmd = [pc |-> "seal", version |-> cmd.version, rows |-> cmd.rows]
      BY <2>3 DEF Types, Seal, IsCommand, Idle
    <3>2. cmd'.rows = cmd.rows /\ Committing  BY <2>3, <3>1 DEF Seal, Committing
    <3> QED BY <1>2, <3>2
  <2>4. CASE UNCHANGED cmd  BY <1>2, <1>4, <2>4 DEF Committing
  <2>5. cmd' # Idle /\ ~ DisagreementsBegin /\ ~ FreezeBegin
    BY <1>4 DEF Committing, Idle, DisagreementsBegin, FreezeBegin
  <2> HIDE DEF Fine
  <2> QED BY <2>1, <2>2, <2>3, <2>4, <2>5, CommandSteps
<1>5. ASSUME NEW v \in 1 .. Len(gold') PROVE Fine(gold'[v])
  <2>1. CASE gold' = gold  BY <1>1, <2>1
  <2>2. ASSUME NEW rows, gold' = Append(gold, rows), Fine(rows)
        PROVE  Fine(gold'[v])
    <3>1. Len(gold) \in Nat /\ gold = [i \in 1 .. Len(gold) |-> gold[i]]  BY DEF Types
    <3>2. /\ Len(gold') = Len(gold) + 1
          /\ \A i \in 1 .. Len(gold) : gold'[i] = gold[i]
          /\ gold'[Len(gold) + 1] = rows
      BY ONLY <2>2, <3>1, Appended
    <3>3. v \in 1 .. Len(gold) \/ v = Len(gold) + 1  BY <3>1, <3>2
    <3> HIDE DEF Fine
    <3> QED BY <1>1, <2>2, <3>2, <3>3
  <2>3. WriteCsv => Committing  BY DEF WriteCsv, Committing
  <2> HIDE DEF Fine
  <2> QED BY <1>2, <1>3, <2>1, <2>2, <2>3, GoldSteps DEF GoldGrows
<1> QED BY <1>4, <1>5 DEF RowsReasoned

---------------------------------------------------------------------------
(* Versions, undos and the labels that a sealed version rests on.          *)

LEMMA VersionsKeptKept ==
    ASSUME Types, VersionsKept, [Next]_vars
    PROVE  VersionsKept'
<1>1. CASE WriteCsv
  <2>1. Len(gold) \in Nat /\ gold = [i \in 1 .. Len(gold) |-> gold[i]]  BY DEF Types
  <2>2. Len(gold') = Len(gold) + 1 /\ gold'[Len(gold) + 1] = cmd.rows
    BY <1>1, <2>1, Appended DEF WriteCsv
  <2>3. /\ cmd'.pc = "seal" /\ cmd'.version = Len(gold) + 1 /\ cmd'.rows = cmd.rows
    BY <1>1 DEF WriteCsv
  <2> QED BY <2>1, <2>2, <2>3 DEF VersionsKept
<1>2. CASE Seal
  <2>1. cmd = [pc |-> "seal", version |-> cmd.version, rows |-> cmd.rows]
    BY <1>2 DEF Types, Seal, IsCommand, Idle
  <2>2. cmd' = [pc |-> "record", version |-> cmd.version, rows |-> cmd.rows]
    BY <1>2, <2>1 DEF Seal
  <2>3. gold' = gold /\ cmd.version \in sealed'  BY <1>2 DEF Seal
  <2> QED BY <1>2, <2>1, <2>2, <2>3 DEF VersionsKept, Seal
<1>3. CASE cmd' = cmd /\ ~ WriteCsv /\ ~ Seal
  <2>1. ASSUME cmd.pc \in {"seal", "record"} PROVE gold' = gold /\ sealed \subseteq sealed'
    <3>1. ~ TornCsv  BY <2>1 DEF TornCsv
    <3>2. gold' = gold  BY <1>3, <3>1, GoldSteps DEF GoldGrows
    <3>3. sealed' = sealed
      BY <1>3 DEF Next, vars, Submit, UndoBegin, UndoDelete, DisagreementsBegin,
                  DisagreementsWrite, Decide, FreezeBegin, ReadLabels, TornCsv, Record, Crash
    <3> QED BY <3>2, <3>3
  <2> QED BY <1>3, <2>1 DEF VersionsKept
<1>4. CASE cmd'.pc \notin {"seal", "record"}  BY <1>4 DEF VersionsKept
<1>5. ASSUME NEW named, NEW allow_partial, ReadLabels(named, allow_partial)
      PROVE  cmd'.pc \notin {"seal", "record"}
  BY <1>5 DEF ReadLabels, Idle
<1> QED BY <1>1, <1>2, <1>3, <1>4, <1>5, CommandSteps DEF Idle, DisagreementsBegin, FreezeBegin

LEMMA UndosEarlyKept ==
    ASSUME UndosEarly, [Next]_vars
    PROVE  UndosEarly'
BY DEF UndosEarly, Next, vars, histories, Submit, UndoBegin, UndoDelete, DisagreementsBegin,
       DisagreementsWrite, Decide, FreezeBegin, ReadLabels, WriteCsv, TornCsv, Seal, Record, Crash

LEMMA OverlapGrows ==
    ASSUME [Next]_vars
    PROVE  overlap \subseteq overlap'
BY DEF Next, vars, histories, Submit, UndoBegin, UndoDelete, DisagreementsBegin,
       DisagreementsWrite, Decide, FreezeBegin, ReadLabels, WriteCsv, TornCsv, Seal, Record, Crash

(* A label a freeze has read stays, or its labeller is in overlap.         *)
LEMMA ReadLabelStays ==
    ASSUME Types, UndosEarly, [Next]_vars, NEW c \in Candidates, ReadByFreeze(c),
           NEW l \in Labelers \ overlap', NEW label, Gave(labels[l], c, label)
    PROVE  Gave(labels'[l], c, label)
<1>1. ASSUME TakenBack(l, c) PROVE l \in overlap'
  <2>1. l \in early  BY <1>1 DEF UndosEarly, TakenBack, UndoDelete
  <2> QED BY <1>1, <2>1 DEF TakenBack
<1> QED BY <1>1, RowsStay

LEMMA LabelsStayKept ==
    ASSUME Types, VersionsKept, UndosEarly, LabelsStay, SheetsShow, [Next]_vars
    PROVE  LabelsStay'
<1>1. ASSUME NEW rows, RestsOn(labels, overlap, rows), DOMAIN rows \subseteq Candidates,
             \A c \in DOMAIN rows : ReadByFreeze(c)
      PROVE  RestsOn(labels', overlap', rows)
  BY <1>1, OverlapGrows, ReadLabelStays DEF RestsOn
<1>2. ASSUME NEW v \in sealed
      PROVE  RestsOn(labels', overlap', gold[v])
  <2>1. DOMAIN gold[v] \subseteq Candidates  BY DEF Types, IsTable
  <2>2. \A c \in DOMAIN gold[v] : ReadByFreeze(c)  BY DEF ReadByFreeze
  <2> QED BY <1>1, <2>1, <2>2 DEF LabelsStay
<1>3. ASSUME Committing
      PROVE  RestsOn(labels', overlap', cmd.rows)
  <2>1. DOMAIN cmd.rows \subseteq Candidates
    BY <1>3 DEF Types, IsCommand, IsTable, Committing, Idle
  <2>2. \A c \in DOMAIN cmd.rows : ReadByFreeze(c)  BY <1>3 DEF ReadByFreeze, Committing
  <2> QED BY <1>1, <1>3, <2>1, <2>2 DEF LabelsStay
<1>4. ASSUME NEW v \in sealed'
      PROVE  RestsOn(labels', overlap', gold'[v])
  <2>1. CASE v \in sealed
    <3>1. gold'[v] = gold[v]  BY <2>1, GoldTyped DEF Types
    <3> QED BY <1>2, <2>1, <3>1
  <2>2. CASE Seal /\ v = cmd.version
    <3>1. gold'[v] = cmd.rows /\ Committing  BY <2>2 DEF Seal, VersionsKept, Committing
    <3> QED BY <1>3, <3>1
  <2> QED BY <2>1, <2>2
          DEF Next, vars, Submit, UndoBegin, UndoDelete, DisagreementsBegin, DisagreementsWrite,
              Decide, FreezeBegin, ReadLabels, WriteCsv, TornCsv, Seal, Record, Crash
<1>5. ASSUME Committing'
      PROVE  RestsOn(labels', overlap', cmd'.rows)
  <2>1. ASSUME NEW named, NEW allow_partial, ReadLabels(named, allow_partial)
        PROVE  RestsOn(labels', overlap', cmd'.rows)
    <3>1. cmd' # Idle  BY <1>5 DEF Committing, Idle
    <3>2. cmd'.rows = [c \in Kept \ Partial(Kept) |-> GoldRow(cmd.sheet, c)] /\ labels' = labels
      BY <2>1, <3>1 DEF ReadLabels
    <3>3. ASSUME NEW c \in (Kept \ Partial(Kept)) \cap Peers, NEW l \in Labelers
          PROVE  Gave(labels[l], c, GoldRow(cmd.sheet, c).pair[l])
      <4>1. c \notin Windowed  BY CandidateAssumption
      <4>2. BothLabelled(Pair(c))  BY <4>1 DEF Partial
      <4>3. GoldRow(cmd.sheet, c).pair = Pair(c)  BY <4>1 DEF GoldRow, Shown
      <4> QED BY <4>2, <4>3, PairTyped DEF BothLabelled
    <3> QED BY <3>2, <3>3 DEF RestsOn
  <2>2. CASE WriteCsv  BY <1>3, <2>2 DEF WriteCsv, Committing
  <2>3. CASE Seal
    <3>1. cmd = [pc |-> "seal", version |-> cmd.version, rows |-> cmd.rows]
      BY <2>3 DEF Types, Seal, IsCommand, Idle
    <3>2. cmd'.rows = cmd.rows /\ Committing  BY <2>3, <3>1 DEF Seal, Committing
    <3> QED BY <1>3, <3>2
  <2>4. CASE UNCHANGED cmd  BY <1>3, <1>5, <2>4 DEF Committing
  <2>5. cmd' # Idle /\ ~ DisagreementsBegin /\ ~ FreezeBegin
    BY <1>5 DEF Committing, Idle, DisagreementsBegin, FreezeBegin
  <2> QED BY <2>1, <2>2, <2>3, <2>4, <2>5, CommandSteps
<1> QED BY <1>4, <1>5 DEF LabelsStay

---------------------------------------------------------------------------
(* The meeting and the disagreement rows.                                  *)

(* A decision stays in the sheet, unless the command that writes a new one *)
(* replaces it.                                                            *)
LEMMA DecisionStays ==
    ASSUME Types, [Next]_vars, NEW c \in Filled(sheet)
    PROVE  c \in Filled(sheet') \/ DisagreementsWrite
<1>1. ASSUME NEW x \in Candidates, NEW label \in Labels, Decide(x, label)
      PROVE  c \in Filled(sheet') /\ Filled(sheet') \subseteq Filled(sheet) \cup {x}
  <2>1. /\ sheet \in [DOMAIN sheet -> SheetRows] /\ DOMAIN sheet \subseteq Candidates
        /\ x \in DOMAIN sheet
    BY <1>1 DEF Types, IsSheet, Decide
  <2>2. sheet' = [sheet EXCEPT ![x].final = label]  BY <1>1 DEF Decide
  <2>3. sheet[x] \in SheetRows  BY <2>1
  <2>4. /\ [sheet[x] EXCEPT !.final = label] \in SheetRows
        /\ [sheet[x] EXCEPT !.final = label].final = label
    BY <2>3 DEF SheetRows
  <2>5. sheet' = [sheet EXCEPT ![x] = [sheet[x] EXCEPT !.final = label]]  BY <2>2
  <2>6. /\ sheet' \in [DOMAIN sheet -> SheetRows]
        /\ sheet'[x].final = label
        /\ \A y \in DOMAIN sheet : y # x => sheet'[y] = sheet[y]
    BY <2>1, <2>4, <2>5
  <2>7. sheet' # Null  BY <2>1, <2>6, SheetAssumption
  <2>8. label # Null  BY CandidateAssumption
  <2>9. DOMAIN sheet' = DOMAIN sheet  BY <2>6
  <2> QED BY <1>1, <2>1, <2>6, <2>7, <2>8, <2>9 DEF Filled, Decide
<1>2. CASE UNCHANGED sheet  BY <1>2
<1> QED BY <1>1, <1>2
        DEF Next, vars, Submit, UndoBegin, UndoDelete, DisagreementsBegin, FreezeBegin,
            ReadLabels, WriteCsv, TornCsv, Seal, Record, Crash

LEMMA NothingDecidedKept ==
    ASSUME Types, NothingDecided, [Next]_vars
    PROVE  NothingDecided'
<1> SUFFICES ASSUME cmd'.pc = "disagreements" PROVE Filled(sheet') \subseteq filled'
  BY DEF NothingDecided, Filled
<1>1. CASE DisagreementsBegin
  <2>1. sheet' = sheet /\ Filled(sheet) = {}  BY <1>1 DEF DisagreementsBegin, AdjudicationInProgress
  <2> QED BY <2>1
<1>2. ASSUME NEW x \in Candidates, NEW label \in Labels, Decide(x, label)
      PROVE  Filled(sheet') \subseteq filled'
  <2>1. /\ sheet \in [DOMAIN sheet -> SheetRows] /\ x \in DOMAIN sheet /\ sheet # Null
    BY <1>2 DEF Types, IsSheet, Decide
  <2>2. sheet' = [sheet EXCEPT ![x].final = label]  BY <1>2 DEF Decide
  <2>3. DOMAIN sheet' = DOMAIN sheet /\ \A y \in DOMAIN sheet : y # x => sheet'[y] = sheet[y]
    BY <2>1, <2>2
  <2>4. Filled(sheet') \subseteq Filled(sheet) \cup {x}  BY <2>1, <2>3 DEF Filled
  <2>5. cmd.pc = "disagreements" /\ filled' = filled \cup {x}  BY <1>2 DEF Decide
  <2> QED BY <2>4, <2>5 DEF NothingDecided
<1>3. CASE cmd' = cmd /\ sheet' = sheet /\ filled' = filled  BY <1>3 DEF NothingDecided
<1>4. cmd' # Idle /\ ~ FreezeBegin /\ ~ WriteCsv  BY DEF Idle, FreezeBegin, WriteCsv
<1>5. ~ \E named, allow_partial \in BOOLEAN : ReadLabels(named, allow_partial)
  BY DEF ReadLabels, Idle
<1>6. ~ Seal
  <2>1. ASSUME Seal PROVE FALSE
    <3>1. cmd = [pc |-> "seal", version |-> cmd.version, rows |-> cmd.rows]
      BY <2>1 DEF Types, Seal, IsCommand, Idle
    <3> QED BY <2>1, <3>1 DEF Seal
  <2> QED BY <2>1
<1> QED BY <1>1, <1>2, <1>3, <1>4, <1>5, <1>6
        DEF Next, vars, histories, Submit, UndoBegin, UndoDelete, DisagreementsWrite, TornCsv,
            Record, Crash

LEMMA RecordsKept ==
    ASSUME Types, VersionsKept, RecordsFollowFiles, [Next]_vars
    PROVE  RecordsFollowFiles'
<1>1. sealed \subseteq sealed' /\ \A v \in sealed : gold'[v] = gold[v]
  <2>1. sealed \subseteq sealed'
    BY DEF Next, vars, Submit, UndoBegin, UndoDelete, DisagreementsBegin, DisagreementsWrite,
           Decide, FreezeBegin, ReadLabels, WriteCsv, TornCsv, Seal, Record, Crash
  <2> QED BY <2>1, GoldTyped DEF Types
<1>2. CASE records' = records  BY <1>1, <1>2 DEF RecordsFollowFiles
<1>3. CASE Record /\ records' = Inserted(cmd.rows)
  <2>1. cmd.version \in sealed /\ gold[cmd.version] = cmd.rows
    BY <1>3 DEF Record, VersionsKept
  <2>2. ASSUME NEW c \in DOMAIN records', c \notin DOMAIN records
        PROVE  /\ c \in DOMAIN cmd.rows /\ cmd.rows[c].adjudicated
               /\ cmd.rows[c].label = records'[c]
    BY <1>3, <2>2 DEF Inserted, Adjudicated
  <2>3. \A c \in DOMAIN records : records'[c] = records[c]  BY <1>3 DEF Inserted
  <2> QED BY <1>1, <2>1, <2>2, <2>3 DEF RecordsFollowFiles
<1> QED BY <1>2, <1>3
        DEF Next, vars, Submit, UndoBegin, UndoDelete, DisagreementsBegin, DisagreementsWrite,
            Decide, FreezeBegin, ReadLabels, WriteCsv, TornCsv, Seal, Record, Crash

---------------------------------------------------------------------------
(* The invariant, and what follows from it.                                *)

LEMMA InvInit == Init => IInv
<1> SUFFICES ASSUME Init PROVE IInv
  OBVIOUS
<1>1. Types  BY TypesInit
<1>2. gold = <<>> /\ Len(gold) = 0 /\ sealed = {} /\ sheet = Null /\ cmd.pc = "idle" /\ undo = {}
  BY DEF Init, Idle
<1>3. RecordsFollowFiles  BY DEF Init, NoRows, RecordsFollowFiles
<1> QED BY <1>1, <1>2, <1>3
        DEF IInv, SheetsShow, ShowsLabels, RowsReasoned, Committing, VersionsKept, UndosEarly,
            LabelsStay, NothingDecided

LEMMA InvNext == IInv /\ [Next]_vars => IInv'
BY TypesKept, SheetsShowKept, RowsReasonedKept, VersionsKeptKept, UndosEarlyKept,
   LabelsStayKept, NothingDecidedKept, RecordsKept DEF IInv

LEMMA Invariant == Spec => []IInv
BY InvInit, InvNext, PTL DEF Spec

(* What the rows, the files and the running command hold, at any time: one *)
(* label of a person to a cluster, rows of candidates, a sha256 only for a *)
(* version there is, disagreements only of peers, and a command that has   *)
(* written its version works on the last one.                              *)
THEOREM TypeCorrect == Spec => []TypeOK
<1>1. IInv => TypeOK
  <2> SUFFICES ASSUME Types, VersionsKept PROVE TypeOK
    BY DEF IInv
  <2>1. ASSUME NEW l \in Labelers, NEW i \in 1 .. Len(labels[l]), NEW j \in 1 .. Len(labels[l])
        PROVE  /\ labels[l][i].cluster \in Candidates /\ labels[l][i].label \in Labels
               /\ labels[l][i].cluster = labels[l][j].cluster => i = j
    <3>1. labels[l] \in Seq(Entry) /\ Single(labels[l])  BY DEF Types
    <3>2. labels[l][i] \in Entry  BY <3>1
    <3> QED BY <3>1, <3>2 DEF Single, Entry
  <2>2. sheet # Null => \A c \in DOMAIN sheet : /\ sheet[c].pair \in Pairs \cup {Null}
                                               /\ sheet[c].final \in Labels \cup {Null}
    BY DEF Types, IsSheet, SheetRows
  <2>3. cmd.pc \in {"idle", "disagreements", "read", "write", "seal", "record"}
    BY DEF Types, IsCommand, Idle
  <2>4. DOMAIN gold = 1 .. Len(gold)  BY DEF Types
  <2> QED BY <2>1, <2>2, <2>3, <2>4 DEF Types, IsTable, VersionsKept, TypeOK
<1> QED BY <1>1, Invariant, PTL

(* build_gold_rows: every row of every version has its reason.  That the   *)
(* meeting decided on the labels of the row needs the sheets: as long as   *)
(* nothing is taken back a pair that disagrees can no longer change.       *)
THEOREM GoldIsEarned == Spec => []GoldEarned
<1>1. IInv => GoldEarned
  <2> SUFFICES ASSUME IInv PROVE GoldEarned
    OBVIOUS
  <2>1. DOMAIN gold = 1 .. Len(gold)  BY DEF IInv, Types
  <2> QED BY <2>1 DEF IInv, RowsReasoned, Reasoned, GoldEarned
<1> QED BY <1>1, Invariant, PTL

(* undo_last and cmd_freeze: the labels any sealed version rests on are in *)
(* the database, but for a labeller whose undo began while gold_v1.sha256  *)
(* did not exist and took back what a freeze had read; and a disagreement  *)
(* row is that of a version whose files are there.  When version 1 was     *)
(* torn that file never exists, and any later undo is such a one.          *)
THEOREM SealedIsBorneOut == Spec => []SealedBorneOut
<1>1. IInv => SealedBorneOut
  <2> SUFFICES ASSUME IInv PROVE UndoStopsAtFreeze
    BY DEF IInv, SealedBorneOut
  <2> SUFFICES ASSUME NEW v \in sealed, NEW c \in DOMAIN gold[v] \cap Peers,
                      NEW l \in Labelers \ overlap
               PROVE  \E e \in Entries(l) : e.cluster = c /\ e.label = gold[v][c].pair[l]
    BY DEF UndoStopsAtFreeze
  <2>1. Gave(labels[l], c, gold[v][c].pair[l])  BY DEF IInv, LabelsStay, RestsOn
  <2> QED BY <2>1 DEF Gave, Entries
<1> QED BY <1>1, Invariant, PTL

(* _adjudication_in_progress: a final label of the meeting is overwritten  *)
(* only when it was written while the command was running.                 *)
THEOREM MeetingIsKept == Spec => MeetingKept
<1>1. IInv /\ [Next]_vars => [\A c \in Filled(sheet) : c \in Filled(sheet') \/ c \in filled]_vars
  <2> SUFFICES ASSUME IInv, [Next]_vars, NEW c \in Filled(sheet), c \notin Filled(sheet')
               PROVE  c \in filled
    OBVIOUS
  <2>1. DisagreementsWrite  BY DecisionStays DEF IInv
  <2> QED BY <2>1 DEF IInv, NothingDecided, DisagreementsWrite
<1> QED BY <1>1, Invariant, PTL DEF Spec, MeetingKept
---------------------------------------------------------------------------
(* The pages, for every set of clusters and any limits.  What a page shows  *)
(* of a cluster is a function of what its reader may know; but for the      *)
(* labeller's rows, once the LIMIT has cut groups that decisions made.      *)

LEMMA GroupsCover == ASSUME NEW w, NEW h \in Heads
                     PROVE  UNION Groups(w, h) = Related[h]
<1> DEFINE key(k) == <<Rule[k], world[w].status[k]>>
           group(g) == {k \in Related[h] : key(k) = g}
<1>1. Groups(w, h) = {group(g) : g \in {key(k) : k \in Related[h]}}
  BY DEF Groups
<1>2. \A k \in Related[h] : k \in group(key(k)) /\ group(key(k)) \in Groups(w, h)
  BY <1>1
<1>3. \A g \in Groups(w, h) : g \subseteq Related[h]
  BY <1>1
<1> QED BY <1>2, <1>3

LEMMA GroupsAreFinite == ASSUME NEW w, NEW h \in Heads
                         PROVE  IsFiniteSet(Related[h]) /\ IsFiniteSet(Groups(w, h))
<1>1. IsFiniteSet(SUBSET Heads)
  BY ViewsAssumption, FS_SUBSET
<1>2. Related[h] \subseteq Heads
  BY DEF Related
<1>3. Groups(w, h) \subseteq SUBSET Heads
  BY <1>2 DEF Groups
<1> QED BY <1>1, <1>2, <1>3, ViewsAssumption, FS_Subset

(* The heads of a group share their rule: there are no more rules than      *)
(* groups.                                                                  *)
LEMMA FewerRules == ASSUME NEW w, NEW h \in Heads
                    PROVE  /\ IsFiniteSet(ByRule({Related[h]}))
                           /\ Cardinality(ByRule({Related[h]})) <= Cardinality(Groups(w, h))
<1> DEFINE key(k) == <<Rule[k], world[w].status[k]>>
           group(g) == {k \in Related[h] : key(k) = g}
           of(r) == {k \in Related[h] : Rule[k] = r}
           view(r) == [rule |-> r, clusters |-> Cardinality(of(r)), alerts |-> Alerts(of(r)),
                       times |-> {Time[x] : x \in of(r)}]
           views == ByRule({Related[h]})
           f == [g \in Groups(w, h) |-> view(Rule[CHOOSE k \in g : TRUE])]
<1>1. Groups(w, h) = {group(g) : g \in {key(k) : k \in Related[h]}}
  BY DEF Groups
<1>2. views = {view(Rule[k]) : k \in Related[h]}
  <2>1. UNION {Related[h]} = Related[h]
    OBVIOUS
  <2> QED BY <2>1 DEF ByRule
<1>3. ASSUME NEW g \in Groups(w, h)
      PROVE  /\ (CHOOSE k \in g : TRUE) \in g /\ g \subseteq Related[h]
             /\ \A k, l \in g : Rule[k] = Rule[l]
  <2>1. PICK k \in Related[h] : g = group(key(k))
    BY <1>1
  <2>2. k \in g
    BY <2>1
  <2>3. \A l \in g : key(l) = key(k) /\ l \in Related[h]
    BY <2>1
  <2>4. \A l \in g : Rule[l] = Rule[k]
    BY <2>3
  <2> QED BY <2>2, <2>3, <2>4
<1> HIDE DEF view
<1>4. \A g \in Groups(w, h) : f[g] \in views
  BY <1>2, <1>3
<1>5. ASSUME NEW v \in views
      PROVE  \E g \in Groups(w, h) : f[g] = v
  <2>1. PICK k \in Related[h] : v = view(Rule[k])
    BY <1>2
  <2>2. group(key(k)) \in Groups(w, h) /\ k \in group(key(k))
    BY <1>1
  <2>3. Rule[CHOOSE l \in group(key(k)) : TRUE] = Rule[k]
    BY <2>2, <1>3
  <2>4. f[group(key(k))] = v
    BY <2>1, <2>2, <2>3
  <2> QED BY <2>2, <2>4
<1> HIDE DEF f, views
<1>6. f \in [Groups(w, h) -> views]
  BY <1>4 DEF f
<1>7. f \in Surjection(Groups(w, h), views)
  BY <1>5, <1>6 DEF Surjection
<1> QED BY <1>7, GroupsAreFinite, FS_Surjection DEF views

(* What is shown beside a G2 cluster is what a G1 cluster would be shown.   *)
LEMMA SameCorrelation == ASSUME NEW w, NEW h \in Heads,
                                Cardinality(Groups(w, h)) <= MaxRows
                         PROVE  G2View(w, h) = G1View(h)
<1> DEFINE rules == ByRule({Related[h]})
<1>1. Top(Groups(w, h), AlertCounts, MaxRows) = {Groups(w, h)}
  BY DEF Top
<1>2. Cardinality(rules) <= MaxRows
  <2>1. Cardinality(rules) \in Nat /\ Cardinality(Groups(w, h)) \in Nat
    BY FewerRules, GroupsAreFinite, FS_CardinalityType
  <2> QED BY <2>1, FewerRules, ViewsAssumption
<1>3. Top(rules, [r \in rules |-> r.alerts], MaxRows) = {rules}
  BY <1>2 DEF Top
<1>4. UNION Groups(w, h) = UNION {Related[h]}
  BY GroupsCover
<1>5. ByRule(Groups(w, h)) = rules
  BY <1>4 DEF ByRule
<1>6. {ByRule(T) : T \in Top(Groups(w, h), AlertCounts, MaxRows)} = {rules}
  BY <1>1, <1>5
<1> QED BY <1>3, <1>6 DEF G2View, G1View

LEMMA LabelersAreBlind == LabelerBlind
<1>1. \A v, w \in DOMAIN world : LabelPage(v) = LabelPage(w)
  BY DEF LabelPage, NextUnlabelled
<1>2. \A h \in Heads : \A v : G2View(v, h).samples = G1View(h).samples
  BY DEF G2View, G1View
<1>3. ASSUME NEW v, NEW w, NEW h \in Heads, world[v].status = world[w].status
      PROVE  G2View(v, h) = G2View(w, h)
  <2>1. Groups(v, h) = Groups(w, h)
    BY <1>3 DEF Groups
  <2> QED BY <2>1 DEF G2View
<1> QED BY <1>1, <1>2, <1>3, SameCorrelation DEF LabelerBlind

(* An undecided head of the blind arm is hidden in both worlds, and what is *)
(* left of its row is the same in both.                                     *)
LEMMA RowsAreBlind ==
    ASSUME NEW v, NEW w, NEW h, world[v].status = world[w].status
    PROVE  /\ QueueRow(v, h).alert_id = h /\ QueueRow(w, h).alert_id = h
           /\ Undecided(QueueRow(v, h)) => QueueRow(v, h) = QueueRow(w, h)
<1> DEFINE keys == {"alert_id", "risk_band", "occurrence_count", "triaged_count",
                    "needs_retriage", "status", "suggestion", "triage_status", "run_id"}
           kept == keys \ {"suggestion", "triage_status", "run_id"}
           row(u) == [alert_id |-> h, risk_band |-> RiskBand(h), occurrence_count |-> Count[h],
                      triaged_count |-> triaged[h], needs_retriage |-> NeedsRetriage(h),
                      status |-> world[u].status[h], suggestion |-> Suggestion(u, h),
                      triage_status |-> TriageStatus(u, h), run_id |-> triaged[h]]
<1>1. \A u : QueueRow(u, h) = Strip(u, h, row(u))
  BY DEF QueueRow
<1>2. Hidden(v, h) <=> Hidden(w, h)
  BY DEF Hidden
<1>3. \A u : /\ row(u).alert_id = h /\ row(u).status = world[u].status[h]
             /\ DOMAIN row(u) = keys
  OBVIOUS
<1>4. \A key \in kept : row(v)[key] = row(w)[key]
  OBVIOUS
<1> HIDE DEF row
<1>5. \A u : Hidden(u, h) => Strip(u, h, row(u)) = [key \in kept |-> row(u)[key]]
  BY <1>3 DEF Strip
<1>6. \A u : ~ Hidden(u, h) => Strip(u, h, row(u)) = row(u)
  BY DEF Strip
<1>7. \A u : /\ Strip(u, h, row(u)).alert_id = h
             /\ Strip(u, h, row(u)).status = world[u].status[h]
  BY <1>3, <1>5, <1>6
<1>8. Undecided(QueueRow(v, h)) => Hidden(v, h)
  BY <1>1, <1>7 DEF Undecided, Hidden, ShowStates
<1>9. Hidden(v, h) => QueueRow(v, h) = QueueRow(w, h)
  BY <1>1, <1>2, <1>4, <1>5
<1> QED BY <1>1, <1>7, <1>8, <1>9

LEMMA PagesAreBlind ==
    ASSUME NEW v, NEW w, NEW h \in Heads, world[v].status = world[w].status,
           Undecided(AlertView(v, h))
    PROVE  AlertView(v, h) = AlertView(w, h)
<1> DEFINE keys == {"alert_id", "occurrence_count", "triaged_count", "status", "risk_band",
                    "correlation", "statuses", "samples", "correlated_now", "suggestion",
                    "triage_status"}
           kept == keys \ {"suggestion", "triage_status", "run_id"}
           correlation(u) == Top(Groups(u, h), AlertCounts, MaxRows)
           statuses(u) == [k \in Related[h] |-> world[u].status[k]]
           row(u) == [alert_id |-> h, occurrence_count |-> Count[h],
                      triaged_count |-> triaged[h], status |-> world[u].status[h],
                      risk_band |-> RiskBand(h), correlation |-> correlation(u),
                      statuses |-> statuses(u), samples |-> Samples[h],
                      correlated_now |-> Cardinality(Related[h]),
                      suggestion |-> Suggestion(u, h), triage_status |-> TriageStatus(u, h)]
<1>1. \A u : AlertView(u, h) = Strip(u, h, row(u))
  BY DEF AlertView
<1>2. Hidden(v, h) <=> Hidden(w, h)
  BY DEF Hidden
<1>3. correlation(v) = correlation(w) /\ statuses(v) = statuses(w)
  <2>1. Groups(v, h) = Groups(w, h)
    BY DEF Groups
  <2> QED BY <2>1
<1> HIDE DEF correlation, statuses
<1>4. \A u : /\ row(u).alert_id = h /\ row(u).status = world[u].status[h]
             /\ DOMAIN row(u) = keys
  OBVIOUS
<1>5. \A key \in kept : row(v)[key] = row(w)[key]
  BY <1>3
<1> HIDE DEF row
<1>6. \A u : Hidden(u, h) => Strip(u, h, row(u)) = [key \in kept |-> row(u)[key]]
  BY <1>4 DEF Strip
<1>7. ~ Hidden(v, h) => Strip(v, h, row(v)) = row(v)
  BY DEF Strip
<1>8. /\ Strip(v, h, row(v)).alert_id = h
      /\ Strip(v, h, row(v)).status = world[v].status[h]
  BY <1>4, <1>6, <1>7
<1>9. Hidden(v, h)
  BY <1>1, <1>8 DEF Undecided, Hidden, ShowStates
<1> QED BY <1>1, <1>2, <1>5, <1>6, <1>9

(* Which heads are queued, and in which order, says nothing of an answer.   *)
LEMMA QueuesAreBlind ==
    ASSUME NEW v, NEW w, world[v].status = world[w].status
    PROVE  Queued(v) = Queued(w)
<1> DEFINE queue(S) == [i \in 1 .. Cardinality(S) |->
                           CHOOSE h \in S : Cardinality({k \in S : Before(k, h)}) = i - 1]
           queued(u) == {h \in Heads : world[u].status[h] = "queued_tier1"}
<1>1. \A u : Queued(u) = queue(queued(u))
  BY DEF Queued
<1>2. queued(v) = queued(w)
  OBVIOUS
<1> HIDE DEF queue, queued
<1> QED BY <1>1, <1>2

LEMMA QueueLength == ASSUME NEW v
                     PROVE  Len(Queued(v)) \in Nat
<1> DEFINE S == {h \in Heads : world[v].status[h] = "queued_tier1"}
           q == [i \in 1 .. Cardinality(S) |->
                    CHOOSE h \in S : Cardinality({k \in S : Before(k, h)}) = i - 1]
<1>1. Cardinality(S) \in Nat
  BY ViewsAssumption, FS_Subset, FS_CardinalityType
<1>2. Queued(v) = q
  BY DEF Queued
<1>3. q \in Seq({q[i] : i \in 1 .. Cardinality(S)})
  <2> DEFINE n == Cardinality(S)
             e(i) == CHOOSE h \in S : Cardinality({k \in S : Before(k, h)}) = i - 1
  <2>1. q = [i \in 1 .. n |-> e(i)]
    OBVIOUS
  <2> HIDE DEF q, n, e
  <2>2. n \in Nat
    BY <1>1 DEF n
  <2>3. q \in Seq({q[i] : i \in 1 .. n})
    BY <2>1, <2>2
  <2> QED BY <2>3 DEF n
<1> HIDE DEF q
<1> QED BY <1>2, <1>3

LEMMA AnalystsAreBlind == AnalystBlind
<1> SUFFICES ASSUME NEW v \in DOMAIN world, NEW w \in DOMAIN world,
                    world[v].status = world[w].status
             PROVE  /\ \A page \in 1 .. Cardinality(Heads) :
                          LET one == ListQueue(v, page)
                              other == ListQueue(w, page)
                          IN  /\ one.total = other.total /\ Len(one.rows) = Len(other.rows)
                              /\ \A i \in DOMAIN one.rows :
                                    IF Undecided(one.rows[i]) THEN one.rows[i] = other.rows[i]
                                    ELSE one.rows[i].alert_id = other.rows[i].alert_id
                    /\ \A h \in Heads : Undecided(AlertView(v, h)) => AlertView(v, h) = AlertView(w, h)
  BY DEF AnalystBlind
<1>1. ASSUME NEW page \in 1 .. Cardinality(Heads)
      PROVE  LET one == ListQueue(v, page)
                 other == ListQueue(w, page)
             IN  /\ one.total = other.total /\ Len(one.rows) = Len(other.rows)
                 /\ \A i \in DOMAIN one.rows :
                       IF Undecided(one.rows[i]) THEN one.rows[i] = other.rows[i]
                       ELSE one.rows[i].alert_id = other.rows[i].alert_id
  <2> DEFINE last == IF page * PageSize < Len(Queued(v)) THEN page * PageSize ELSE Len(Queued(v))
             heads == SubSeq(Queued(v), (page - 1) * PageSize + 1, last)
             one == ListQueue(v, page)
             other == ListQueue(w, page)
  <2>1. Queued(v) = Queued(w)
    BY QueuesAreBlind
  <2>2. one = [total |-> Len(Queued(v)), rows |-> [i \in DOMAIN heads |-> QueueRow(v, heads[i])]]
    BY DEF ListQueue
  <2>3. other = [total |-> Len(Queued(v)), rows |-> [i \in DOMAIN heads |-> QueueRow(w, heads[i])]]
    BY <2>1 DEF ListQueue
  <2> HIDE DEF heads, one, other
  <2>4. /\ one.total = other.total
        /\ one.rows = [i \in DOMAIN heads |-> QueueRow(v, heads[i])]
        /\ other.rows = [i \in DOMAIN heads |-> QueueRow(w, heads[i])]
    BY <2>2, <2>3
  <2>5. Len(one.rows) = Len(other.rows)
    <3>1. heads = [i \in 1 .. Len(heads) |-> heads[i]] /\ Len(heads) \in Nat
      <4> DEFINE first == (page - 1) * PageSize + 1
                 shown == {Queued(v)[i] : i \in first .. last}
      <4>1. Len(Queued(v)) \in Nat
        BY QueueLength
      <4>2. first \in Int /\ last \in Int
        <5>1. page * PageSize \in Int /\ (page - 1) * PageSize \in Int
          BY ViewsAssumption
        <5> QED BY <4>1, <5>1
      <4> HIDE DEF first, last
      <4>3. \A i \in first .. last : Queued(v)[i] \in shown
        OBVIOUS
      <4> HIDE DEF shown
      <4>4. SubSeq(Queued(v), first, last) \in Seq(shown)
        BY <4>2, <4>3, SubSeqProperties
      <4>5. heads \in Seq(shown)
        BY <4>4 DEF heads, first
      <4> QED BY <4>5
    <3> QED BY <2>4, <3>1
  <2>6. ASSUME NEW i \in DOMAIN one.rows
        PROVE  IF Undecided(one.rows[i]) THEN one.rows[i] = other.rows[i]
               ELSE one.rows[i].alert_id = other.rows[i].alert_id
    <3>1. one.rows[i] = QueueRow(v, heads[i]) /\ other.rows[i] = QueueRow(w, heads[i])
      BY <2>4
    <3> QED BY <3>1, RowsAreBlind
  <2> QED BY <2>4, <2>5, <2>6 DEF one, other
<1> QED BY <1>1, PagesAreBlind

(* However the two databases came to differ, the labeller is given the same *)
(* clusters and samples and, of the model and the other labeller, learns    *)
(* nothing from the rows; nor of the decisions, where the groups by rule,   *)
(* category and status are no more than the LIMIT (tier1/labels.py): with   *)
(* more of them nothing is claimed of the decisions.  The queue and the     *)
(* page of an undecided cluster of the blind arm are the same, for any      *)
(* number of groups (tier1/visibility.py).                                  *)
THEOREM PagesUnprimed == viewsSpec => []NobodyPrimed
<1>1. NobodyPrimed
  BY LabelersAreBlind, AnalystsAreBlind DEF NobodyPrimed
<1> QED BY <1>1, PTL
=============================================================================
