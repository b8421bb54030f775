-------------------------- MODULE EvaluationProofs --------------------------
(***************************************************************************)
(* The programs around the evaluation, for every set of their parameters.  *)
(* The lab windows: no alert is 'lab' without a window to account for it,  *)
(* and a build that ends has every candidate, each with its one truth. The *)
(* adversarial set: overlapping and stopped loads leave every fixture the  *)
(* whole row its manifest asks for, and none is taken for a duplicate. The *)
(* cache of model answers: one answer per key, a bounded spend. The gate   *)
(* of prompts: no chain of passed gates loses an attack or adds a leak.    *)
(***************************************************************************)
EXTENDS LabWindows, Adversarial, LlmCache, PromptGate, SequenceTheorems, FiniteSetTheorems,
        WellFoundedInduction, NaturalsInduction, TLAPS

Alert == [at : Instants, rule : Rules, source : {"wazuh", "lab"}]

IsTag(t) == \/ t = Idle
            \/ t.pc \in {"retag", "append"} /\ t = [pc |-> t.pc, w |-> t.w] /\ t.w \in Windows

IsBuild(b) ==
    \/ b = Idle
    \/ /\ b.pc = "select"
       /\ b = [pc |-> "select", read |-> b.read, next |-> b.next, rows |-> b.rows,
               there |-> b.there]
       /\ b.read \in Nat /\ b.next \in Nat \ {0} /\ b.next <= b.read + 1

Types ==
    /\ DOMAIN stored \subseteq Heads /\ stored \in [DOMAIN stored -> Alert]
    /\ windows \in Seq(Windows)
    /\ IsTag(tag) /\ IsBuild(build)

Selecting == build.pc = "select"

(* The file only grows and heads only come in: what a build read and found *)
(* is still there.                                                         *)
StillThere == Selecting => /\ build.read <= Len(windows)
                           /\ build.there \subseteq DOMAIN stored
                           /\ DOMAIN build.rows \subseteq DOMAIN stored

(* assert_windows_disjoint looks at neighbours; it is any two windows of   *)
(* an agent that have no second in common.                                 *)
Apart(ws, n) ==
    \A i, j \in 1 .. n :
        i # j /\ ws[i].agent = ws[j].agent =>
            ws[i].until < ws[j].since \/ ws[j].until < ws[i].since

ReadApart == Selecting => Apart(windows, build.read)

(* A row of the pool carries the truth of a window it lies in.             *)
RowsTrue ==
    Selecting => \A h \in DOMAIN build.rows : \E i \in 1 .. build.read :
        Within(h, windows[i]) /\ build.rows[h] = TruthByKind[windows[i].kind]

(* The windows that are done have given all that was there.                *)
DoneWhole ==
    Selecting => \A i \in 1 .. build.next - 1 : \A h \in build.there :
        i <= build.read /\ Within(h, windows[i]) /\ InScope(h, windows[i])
            => h \in DOMAIN build.rows

IInv == Types /\ StillThere /\ ReadApart /\ RowsTrue /\ DoneWhole /\ LabEarned

---------------------------------------------------------------------------
(* Neighbours and any two: the least window after a window is its          *)
(* neighbour, and every other one begins no earlier.                       *)

Below == {p \in Nat \X Nat : p[1] < p[2]}

LEMMA LeastNumber ==
    ASSUME NEW S, S \subseteq Nat, S # {}
    PROVE  \E m \in S : \A n \in S : m <= n
<1>1. Below = OpToRel(<, Nat)  BY Zenon DEF Below, OpToRel
<1>2. IsWellFoundedOn(Below, Nat)  BY <1>1, NatLessThanWellFounded
<1>3. PICK m \in S : \A n \in S : <<n, m>> \notin Below  BY <1>2, WFMin
<1>4. ASSUME NEW n \in S PROVE m <= n
  <2>1. n \in Nat /\ m \in Nat  OBVIOUS
  <2>2. <<n, m>> \notin Below  BY <1>3
  <2>3. ~ (n < m)  BY <2>1, <2>2 DEF Below
  <2> QED BY <2>1, <2>3
<1> QED BY <1>4

(* The order of assert_windows_disjoint. *)
Earlier(ws, k, m) == Before(ws[k], ws[m]) \/ (~ Before(ws[m], ws[k]) /\ k < m)

LEMMA WindowFields ==
    ASSUME NEW ws \in Seq(Windows), NEW i \in 1 .. Len(ws)
    PROVE  /\ ws[i].since \in Nat /\ ws[i].until \in Nat /\ ws[i].since < ws[i].until
           /\ i \in Nat
<1>1. ws[i] \in Windows  OBVIOUS
<1>2. ws[i].since \in Instants /\ ws[i].until \in Instants /\ ws[i].since < ws[i].until
  BY <1>1 DEF Windows
<1>3. Instants \subseteq Nat  BY LabAssumption DEF Instants
<1>4. Len(ws) \in Nat  OBVIOUS
<1>5. i \in Nat  BY <1>4
<1>6. ws[i].since \in Nat /\ ws[i].until \in Nat  BY <1>2, <1>3
<1> QED BY <1>2, <1>5, <1>6

(* Two windows are in one order or the other. *)
LEMMA EarlierOrders ==
    ASSUME NEW ws \in Seq(Windows), NEW i \in 1 .. Len(ws), NEW j \in 1 .. Len(ws)
    PROVE  /\ i # j => Earlier(ws, i, j) \/ Earlier(ws, j, i)
           /\ ~ (Earlier(ws, i, j) /\ Earlier(ws, j, i))
           /\ Earlier(ws, i, j) => ws[i].since <= ws[j].since
<1>1. /\ ws[i].since \in Nat /\ ws[i].until \in Nat
      /\ ws[j].since \in Nat /\ ws[j].until \in Nat /\ i \in Nat /\ j \in Nat
  BY WindowFields
<1> QED BY <1>1 DEF Earlier, Before

LEMMA EarliestWindow ==
    ASSUME NEW ws \in Seq(Windows), NEW S, S \subseteq 1 .. Len(ws), S # {}
    PROVE  \E s \in S : \A k \in S : k = s \/ Earlier(ws, s, k)
<1>0. \A k \in S : /\ ws[k].since \in Nat /\ ws[k].until \in Nat /\ k \in Nat
  BY WindowFields
<1>1. PICK since \in {ws[k].since : k \in S} : \A x \in {ws[k].since : k \in S} : since <= x
  <2> DEFINE sinces == {ws[k].since : k \in S}
  <2>1. sinces \subseteq Nat /\ sinces # {}  BY <1>0
  <2> HIDE DEF sinces
  <2>2. \E x \in sinces : \A y \in sinces : x <= y  BY <2>1, LeastNumber
  <2> QED BY <2>2 DEF sinces
<1> DEFINE S1 == {k \in S : ws[k].since = since}
<1>2. PICK until \in {ws[k].until : k \in S1} : \A x \in {ws[k].until : k \in S1} : until <= x
  <2> DEFINE untils == {ws[k].until : k \in S1}
  <2>1. untils \subseteq Nat /\ untils # {}  BY <1>0, <1>1
  <2> HIDE DEF untils
  <2>2. \E x \in untils : \A y \in untils : x <= y  BY <2>1, LeastNumber
  <2> QED BY <2>2 DEF untils
<1> DEFINE S2 == {k \in S1 : ws[k].until = until}
<1>3. PICK s \in S2 : \A k \in S2 : s <= k
  <2>1. S2 \subseteq Nat /\ S2 # {}  BY <1>0, <1>2
  <2> HIDE DEF S2
  <2> QED BY <2>1, LeastNumber
<1>4. ASSUME NEW k \in S, k # s
      PROVE  Earlier(ws, s, k)
  <2>1. /\ ws[s].since = since /\ ws[s].until = until /\ s \in S
    BY <1>3
  <2>2. /\ ws[s].since \in Nat /\ ws[s].until \in Nat /\ s \in Nat
        /\ ws[k].since \in Nat /\ ws[k].until \in Nat /\ k \in Nat
    BY <1>0, <2>1
  <2>3. ws[s].since <= ws[k].since  BY <1>1, <2>1
  <2>4. ws[k].since = ws[s].since => ws[s].until <= ws[k].until  BY <1>2, <2>1
  <2>5. ws[k].since = ws[s].since /\ ws[k].until = ws[s].until => s <= k  BY <1>3, <2>1
  <2> HIDE DEF S1, S2
  <2> QED BY <1>4, <2>2, <2>3, <2>4, <2>5 DEF Earlier, Before
<1>5. s \in S  BY <1>3
<1> QED BY <1>4, <1>5

(* assert_windows_disjoint: adjacent windows of an agent that do not meet  *)
(* mean that no two of its windows do.                                     *)
LEMMA DisjointMeansApart ==
    ASSUME NEW ws \in Seq(Windows), Disjoint(ws)
    PROVE  Apart(ws, Len(ws))
<1>1. ASSUME NEW i \in 1 .. Len(ws), NEW j \in 1 .. Len(ws),
             ws[i].agent = ws[j].agent, Earlier(ws, i, j)
      PROVE  ws[i].until < ws[j].since
  <2> DEFINE later == {k \in 1 .. Len(ws) : ws[k].agent = ws[i].agent /\ Earlier(ws, i, k)}
  <2>1. j \in later /\ later \subseteq 1 .. Len(ws)  BY <1>1
  <2>2. PICK s \in later : \A k \in later : k = s \/ Earlier(ws, s, k)
    <3> HIDE DEF later
    <3> QED BY <2>1, EarliestWindow
  <2>3. DOMAIN ws = 1 .. Len(ws)  OBVIOUS
  <2>4. Adjacent(ws, i, s)
    <3>1. ~ \E k \in 1 .. Len(ws) : /\ ws[k].agent = ws[i].agent
                                    /\ Earlier(ws, i, k) /\ Earlier(ws, k, s)
      <4> SUFFICES ASSUME NEW k \in later, Earlier(ws, k, s) PROVE FALSE
        OBVIOUS
      <4>1. k \in 1 .. Len(ws) /\ s \in 1 .. Len(ws)  BY <2>1
      <4> HIDE DEF later
      <4> QED BY <2>2, <4>1, EarlierOrders
    <3>2. ws[s].agent = ws[i].agent /\ Earlier(ws, i, s)  BY <2>2
    <3> QED BY <2>3, <3>1, <3>2 DEF Adjacent, Earlier
  <2>5. s \in 1 .. Len(ws)  BY <2>1
  <2>6. ~ (ws[s].since <= ws[i].until)  BY <2>3, <2>4, <2>5 DEF Disjoint
  <2>7. j = s \/ Earlier(ws, s, j)  BY <2>1, <2>2
  <2>8. ws[s].since <= ws[j].since
    <3>1. ws[s].since \in Nat  BY <2>5, WindowFields
    <3> QED BY <2>5, <2>7, <3>1, EarlierOrders
  <2>9. ws[s].since \in Nat /\ ws[j].since \in Nat /\ ws[i].until \in Nat
    BY <2>5, WindowFields
  <2> QED BY <2>6, <2>8, <2>9
<1> QED BY <1>1, EarlierOrders DEF Apart

---------------------------------------------------------------------------
(* What a step leaves: the heads, their seconds and rules, and the rows of *)
(* the file.                                                               *)

LEMMA HeadsStay ==
    ASSUME Types, [Next]_vars
    PROVE  /\ DOMAIN stored' \subseteq Heads /\ stored' \in [DOMAIN stored' -> Alert]
           /\ DOMAIN stored \subseteq DOMAIN stored'
           /\ \A h \in DOMAIN stored : /\ stored'[h].at = stored[h].at
                                       /\ stored'[h].rule = stored[h].rule
<1> USE DEF Types
<1>1. ASSUME NEW x \in Heads, NEW at \in Instants, NEW rule \in Rules, Index(x, at, rule)
      PROVE  /\ DOMAIN stored' \subseteq Heads /\ stored' \in [DOMAIN stored' -> Alert]
             /\ DOMAIN stored \subseteq DOMAIN stored'
             /\ \A h \in DOMAIN stored : stored'[h] = stored[h]
  <2> DEFINE new == [at |-> at, rule |-> rule, source |-> "wazuh"]
  <2>1. new \in Alert  BY DEF Alert
  <2>2. stored' = [h \in DOMAIN stored \cup {x} |-> IF h = x THEN new ELSE stored[h]]
    BY <1>1 DEF Index
  <2>3. x \notin DOMAIN stored  BY <1>1 DEF Index
  <2> HIDE DEF new
  <2> QED BY <2>1, <2>2, <2>3
<1>2. CASE Retag
  <2>1. stored' = [h \in DOMAIN stored |->
                      IF Within(h, tag.w) /\ stored[h].source = "wazuh"
                      THEN [stored[h] EXCEPT !.source = "lab"] ELSE stored[h]]
    BY <1>2 DEF Retag, Tagged
  <2>2. ASSUME NEW h \in DOMAIN stored
        PROVE  /\ [stored[h] EXCEPT !.source = "lab"] \in Alert
               /\ [stored[h] EXCEPT !.source = "lab"].at = stored[h].at
               /\ [stored[h] EXCEPT !.source = "lab"].rule = stored[h].rule
    <3>1. stored[h] \in Alert  OBVIOUS
    <3> QED BY <3>1 DEF Alert
  <2> QED BY <2>1, <2>2
<1>3. CASE UNCHANGED stored  BY <1>3
<1> QED BY <1>1, <1>2, <1>3
        DEF Next, vars, TagBegin, AppendRow, TagDies, BuildBegin, SelectWindow, BuildEnds

LEMMA WithinStays ==
    ASSUME Types, [Next]_vars, NEW h \in DOMAIN stored, NEW w
    PROVE  (Within(h, w)' <=> Within(h, w)) /\ (InScope(h, w)' <=> InScope(h, w))
BY HeadsStay DEF Within, InScope

LEMMA TagTyped ==
    ASSUME Types, [Next]_vars
    PROVE  IsTag(tag)'
<1>1. ASSUME NEW w \in Windows, NEW allow_overlap, TagBegin(w, allow_overlap)
      PROVE  IsTag(tag')
  BY <1>1 DEF TagBegin, IsTag
<1>2. CASE Retag
  <2>1. tag = [pc |-> "retag", w |-> tag.w] /\ tag.w \in Windows
    BY <1>2 DEF Retag, Types, IsTag, Idle
  <2>2. tag' = [pc |-> "append", w |-> tag.w]  BY <1>2, <2>1 DEF Retag
  <2> QED BY <2>1, <2>2 DEF IsTag
<1>3. CASE tag' = Idle  BY <1>3 DEF IsTag
<1>4. CASE tag' = tag  BY <1>4 DEF Types, IsTag
<1> QED BY <1>1, <1>2, <1>3, <1>4
        DEF Next, vars, Index, AppendRow, TagDies, BuildBegin, SelectWindow, BuildEnds

LEMMA RowsOfFileStay ==
    ASSUME Types, [Next]_vars
    PROVE  /\ windows' \in Seq(Windows)
           /\ Len(windows) <= Len(windows')
           /\ \A i \in 1 .. Len(windows) : windows'[i] = windows[i]
<1>1. CASE AppendRow
  <2>1. tag.w \in Windows  BY <1>1 DEF AppendRow, Types, IsTag, Idle
  <2>2. windows \in Seq(Windows) /\ windows' = Append(windows, tag.w)
    BY <1>1 DEF AppendRow, Types
  <2> QED BY <2>1, <2>2, AppendProperties, LenProperties
<1>2. CASE windows' = windows  BY <1>2 DEF Types
<1> QED BY <1>1, <1>2
        DEF Next, vars, Index, TagBegin, Retag, TagDies, BuildBegin, SelectWindow, BuildEnds

(* What becomes of the build: it begins, does the next window, or ends.    *)
LEMMA BuildSteps ==
    ASSUME Types, [Next]_vars
    PROVE  build' = build \/ build' = Idle \/ BuildBegin \/ (SelectWindow /\ build' # Idle)
BY DEF Next, vars, Index, TagBegin, Retag, AppendRow, TagDies, BuildEnds

(* One window done, in the fields of the build.                            *)
LEMMA WindowDone ==
    ASSUME Types, SelectWindow, build' # Idle
    PROVE  /\ Selecting /\ build.next <= build.read
           /\ build' = [pc |-> "select", read |-> build.read, next |-> build.next + 1,
                        rows |-> Selected(windows[build.next]), there |-> build.there]
           /\ build.next \in Nat \ {0} /\ build.read \in Nat
           /\ UNCHANGED <<stored, windows>>
<1>1. /\ build.pc = "select" /\ build.next <= build.read
      /\ build' = [build EXCEPT !.rows = Selected(windows[build.next]), !.next = @ + 1]
      /\ UNCHANGED <<stored, windows>>
  BY DEF SelectWindow
<1>2. /\ build = [pc |-> "select", read |-> build.read, next |-> build.next, rows |-> build.rows,
                  there |-> build.there]
      /\ build.next \in Nat \ {0} /\ build.read \in Nat
  BY <1>1 DEF Types, IsBuild, Idle
<1>3. build' = [[build EXCEPT !.rows = Selected(windows[build.next])]
                    EXCEPT !.next = build.next + 1]
  BY <1>1, <1>2
<1>4. [build EXCEPT !.rows = Selected(windows[build.next])] =
         [pc |-> "select", read |-> build.read, next |-> build.next,
          rows |-> Selected(windows[build.next]), there |-> build.there]
  BY <1>2
<1>5. build' = [pc |-> "select", read |-> build.read, next |-> build.next + 1,
                rows |-> Selected(windows[build.next]), there |-> build.there]
  BY <1>3, <1>4
<1> QED BY <1>1, <1>2, <1>5 DEF Selecting

LEMMA BuildTyped ==
    ASSUME Types, [Next]_vars
    PROVE  IsBuild(build)'
<1>1. CASE BuildBegin
  <2>1. Len(windows) \in Nat  BY DEF Types
  <2> QED BY <1>1, <2>1 DEF BuildBegin, IsBuild
<1>2. CASE SelectWindow /\ build' # Idle
  <2>1. build.next + 1 \in Nat \ {0} /\ build.next + 1 <= build.read + 1
    BY <1>2, WindowDone
  <2> QED BY <1>2, <2>1, WindowDone DEF IsBuild
<1>3. CASE build' = Idle  BY <1>3 DEF IsBuild
<1>4. CASE build' = build  BY <1>4 DEF Types, IsBuild
<1> QED BY <1>1, <1>2, <1>3, <1>4, BuildSteps

LEMMA TypesKept ==
    ASSUME Types, [Next]_vars
    PROVE  Types'
BY HeadsStay, TagTyped, RowsOfFileStay, BuildTyped DEF Types

---------------------------------------------------------------------------
(* The build.                                                              *)

LEMMA StillThereKept ==
    ASSUME Types, StillThere, [Next]_vars
    PROVE  StillThere'
<1>1. CASE BuildBegin
  <2>1. /\ build'.read = Len(windows) /\ build'.there = DOMAIN stored
        /\ build'.rows = Nothing /\ windows' = windows /\ stored' = stored
    BY <1>1 DEF BuildBegin
  <2> QED BY <2>1 DEF StillThere, Nothing, Types
<1>2. CASE SelectWindow /\ build' # Idle
  <2>1. Selected(windows[build.next]) = [h \in DOMAIN Selected(windows[build.next]) |->
                                            Selected(windows[build.next])[h]]
    BY DEF Selected
  <2>2. DOMAIN Selected(windows[build.next]) \subseteq DOMAIN build.rows \cup DOMAIN stored
    BY DEF Selected, HeadsIn
  <2> QED BY <1>2, <2>2, WindowDone DEF StillThere, Selecting
<1>3. CASE build' = Idle  BY <1>3 DEF StillThere, Selecting, Idle
<1>4. CASE build' = build
  <2>1. ASSUME Selecting
        PROVE  /\ build.read <= Len(windows') /\ build.there \subseteq DOMAIN stored'
               /\ DOMAIN build.rows \subseteq DOMAIN stored'
    <3>1. /\ build.read <= Len(windows) /\ build.there \subseteq DOMAIN stored
          /\ DOMAIN build.rows \subseteq DOMAIN stored
      BY <2>1 DEF StillThere
    <3>2. build.read \in Nat /\ Len(windows) \in Nat /\ Len(windows') \in Nat
      BY <2>1, RowsOfFileStay DEF Types, IsBuild, Idle, Selecting
    <3>3. Len(windows) <= Len(windows')  BY RowsOfFileStay
    <3>4. build.read <= Len(windows')  BY ONLY <3>1, <3>2, <3>3
    <3> QED BY <3>1, <3>4, HeadsStay
  <2> QED BY <1>4, <2>1 DEF StillThere, Selecting
<1> QED BY <1>1, <1>2, <1>3, <1>4, BuildSteps

(* A window a build read is the same after any step.                       *)
LEMMA ReadStays ==
    ASSUME Types, StillThere, [Next]_vars, Selecting, NEW i \in 1 .. build.read
    PROVE  windows'[i] = windows[i]
<1>1. build.read <= Len(windows) /\ build.read \in Nat /\ Len(windows) \in Nat
  BY DEF StillThere, Types, IsBuild, Idle, Selecting
<1>2. i \in 1 .. Len(windows)  BY <1>1
<1> QED BY <1>2, RowsOfFileStay

LEMMA ReadApartKept ==
    ASSUME Types, StillThere, ReadApart, [Next]_vars
    PROVE  ReadApart'
<1>1. CASE BuildBegin
  <2>1. build'.read = Len(windows) /\ windows' = windows /\ Disjoint(windows)
    BY <1>1 DEF BuildBegin
  <2> QED BY <2>1, DisjointMeansApart DEF ReadApart, Types
<1>2. CASE SelectWindow /\ build' # Idle
  BY <1>2, WindowDone DEF ReadApart, Selecting
<1>3. CASE build' = Idle  BY <1>3 DEF ReadApart, Selecting, Idle
<1>4. CASE build' = build
  <2>1. Selecting => \A i \in 1 .. build.read : windows'[i] = windows[i]  BY ReadStays
  <2> QED BY <1>4, <2>1 DEF ReadApart, Selecting, Apart
<1> QED BY <1>1, <1>2, <1>3, <1>4, BuildSteps

LEMMA RowsTrueKept ==
    ASSUME Types, StillThere, RowsTrue, [Next]_vars
    PROVE  RowsTrue'
<1>1. CASE BuildBegin
  <2>1. build'.rows = Nothing  BY <1>1 DEF BuildBegin
  <2> QED BY <2>1 DEF RowsTrue, Nothing
<1>2. CASE SelectWindow /\ build' # Idle
  <2> DEFINE w == windows[build.next]
  <2> DEFINE new == {h \in HeadsIn(w) : h \notin DOMAIN build.rows /\ InScope(h, w)}
  <2>1. Selected(w) = [h \in DOMAIN build.rows \cup new |->
                          IF h \in new THEN TruthByKind[w.kind] ELSE build.rows[h]]
    BY DEF Selected
  <2>2. build.next \in 1 .. build.read  BY <1>2, WindowDone
  <2>3. ASSUME NEW h \in DOMAIN build'.rows
        PROVE  \E i \in 1 .. build.read :
                   Within(h, windows[i]) /\ build'.rows[h] = TruthByKind[windows[i].kind]
    <3>1. build'.rows = Selected(w)  BY <1>2, WindowDone
    <3>2. CASE h \in new
      <4>1. Within(h, w) /\ build'.rows[h] = TruthByKind[w.kind]
        BY <2>1, <3>1, <3>2 DEF HeadsIn
      <4> QED BY <2>2, <4>1
    <3>3. CASE h \notin new
      <4>1. h \in DOMAIN build.rows /\ build'.rows[h] = build.rows[h]
        BY <2>1, <3>1, <3>3
      <4>2. Selecting  BY <1>2, WindowDone
      <4> QED BY <4>1, <4>2 DEF RowsTrue
    <3> QED BY <3>2, <3>3
  <2>4. build'.read = build.read /\ windows' = windows /\ stored' = stored
    BY <1>2, WindowDone
  <2> QED BY <2>3, <2>4 DEF RowsTrue, Within
<1>3. CASE build' = Idle  BY <1>3 DEF RowsTrue, Selecting, Idle
<1>4. CASE build' = build
  <2> SUFFICES ASSUME Selecting, NEW h \in DOMAIN build.rows
               PROVE  \E i \in 1 .. build.read :
                          Within(h, windows[i])' /\ build.rows[h] = TruthByKind[windows'[i].kind]
    BY <1>4 DEF RowsTrue, Selecting
  <2>1. PICK i \in 1 .. build.read :
           Within(h, windows[i]) /\ build.rows[h] = TruthByKind[windows[i].kind]
    BY DEF RowsTrue
  <2>2. windows'[i] = windows[i]  BY ReadStays
  <2>3. h \in DOMAIN stored  BY DEF StillThere
  <2>4. Within(h, windows[i])'  BY <2>1, <2>2, <2>3, HeadsStay DEF Within
  <2> QED BY <2>1, <2>2, <2>4
<1> QED BY <1>1, <1>2, <1>3, <1>4, BuildSteps

LEMMA DoneWholeKept ==
    ASSUME Types, StillThere, DoneWhole, [Next]_vars
    PROVE  DoneWhole'
<1>1. CASE BuildBegin
  <2>1. build'.next = 1  BY <1>1 DEF BuildBegin
  <2> QED BY <2>1 DEF DoneWhole
<1>2. CASE SelectWindow /\ build' # Idle
  <2> DEFINE w == windows[build.next]
  <2>0. /\ Selecting /\ build.next \in Nat \ {0} /\ build'.next = build.next + 1
        /\ build'.rows = Selected(w) /\ build'.there = build.there /\ build'.read = build.read
        /\ windows' = windows /\ stored' = stored
    BY <1>2, WindowDone
  <2>1. DOMAIN Selected(w) =
           DOMAIN build.rows \cup {h \in HeadsIn(w) : h \notin DOMAIN build.rows /\ InScope(h, w)}
    BY DEF Selected
  <2>2. ASSUME NEW i \in 1 .. build'.next - 1, NEW h \in build.there,
               i <= build.read, Within(h, windows[i]), InScope(h, windows[i])
        PROVE  h \in DOMAIN build'.rows
    <3>1. i = build.next \/ i \in 1 .. build.next - 1  BY <2>0
    <3>2. CASE i = build.next
      <4>1. h \in HeadsIn(w) /\ InScope(h, w)
        BY <2>0, <2>2, <3>2 DEF HeadsIn, StillThere
      <4> QED BY <2>0, <2>1, <4>1
    <3>3. CASE i \in 1 .. build.next - 1
      <4>1. h \in DOMAIN build.rows  BY <2>0, <2>2, <3>3 DEF DoneWhole
      <4> QED BY <2>0, <2>1, <4>1
    <3> QED BY <3>1, <3>2, <3>3
  <2> QED BY <2>0, <2>2 DEF DoneWhole, Within, InScope
<1>3. CASE build' = Idle  BY <1>3 DEF DoneWhole, Selecting, Idle
<1>4. CASE build' = build
  <2> SUFFICES ASSUME Selecting, NEW i \in 1 .. build.next - 1, NEW h \in build.there,
                      i <= build.read, Within(h, windows[i])', InScope(h, windows[i])'
               PROVE  h \in DOMAIN build.rows
    BY <1>4 DEF DoneWhole, Selecting
  <2>1. i \in 1 .. build.read  BY DEF Types, IsBuild, Idle, Selecting
  <2>2. windows'[i] = windows[i]  BY <2>1, ReadStays
  <2>3. h \in DOMAIN stored  BY DEF StillThere
  <2>4. Within(h, windows[i]) /\ InScope(h, windows[i])
    BY <2>2, <2>3, HeadsStay DEF Within, InScope
  <2> QED BY <2>4 DEF DoneWhole
<1> QED BY <1>1, <1>2, <1>3, <1>4, BuildSteps

---------------------------------------------------------------------------
(* The tags.                                                               *)

LEMMA LabEarnedKept ==
    ASSUME Types, LabEarned, [Next]_vars
    PROVE  LabEarned'
<1> SUFFICES ASSUME NEW h \in DOMAIN stored', stored'[h].source = "lab"
             PROVE  \/ \E i \in DOMAIN windows' : Within(h, windows[i])'
                    \/ tag'.pc = "append" /\ Within(h, tag.w)'
                    \/ h \in orphans'
  BY DEF LabEarned
<1>0. DOMAIN windows = 1 .. Len(windows) /\ DOMAIN windows' = 1 .. Len(windows')
  BY RowsOfFileStay DEF Types
<1>1. ASSUME h \in DOMAIN stored, NEW i \in DOMAIN windows, Within(h, windows[i])
      PROVE  \E j \in DOMAIN windows' : Within(h, windows[j])'
  <2>1. i \in DOMAIN windows'
    <3>1. Len(windows) \in Nat /\ Len(windows') \in Nat  BY RowsOfFileStay DEF Types
    <3> QED BY <1>0, <3>1, RowsOfFileStay
  <2>2. windows'[i] = windows[i]  BY <1>0, RowsOfFileStay
  <2>3. Within(h, windows[i])'  BY <1>1, <2>2, HeadsStay DEF Within
  <2> QED BY <2>1, <2>3
<1>2. orphans \subseteq orphans'
  BY DEF Next, vars, Index, TagBegin, Retag, AppendRow, TagDies, BuildBegin, SelectWindow, BuildEnds
<1>3. CASE Retag
  <2>1. h \in DOMAIN stored /\ stored' = Tagged(tag.w) /\ tag'.pc = "append"
    <3>1. tag = [pc |-> "retag", w |-> tag.w]  BY <1>3 DEF Retag, Types, IsTag, Idle
    <3> QED BY <1>3, <3>1 DEF Retag, Tagged
  <2>2. CASE stored[h].source = "lab"
    <3>1. tag.pc # "append"  BY <1>3 DEF Retag
    <3> QED BY <1>1, <1>2, <2>1, <2>2, <3>1 DEF LabEarned
  <2>3. CASE stored[h].source # "lab"
    <3>1. Within(h, tag.w)  BY <2>1, <2>3 DEF Tagged
    <3>2. tag'.w = tag.w
      <4>1. tag = [pc |-> "retag", w |-> tag.w]  BY <1>3 DEF Retag, Types, IsTag, Idle
      <4> QED BY <1>3, <4>1 DEF Retag
    <3>3. Within(h, tag.w)'  BY <2>1, <3>1, <3>2, HeadsStay DEF Within
    <3> QED BY <2>1, <3>3
  <2> QED BY <2>2, <2>3
<1>4. CASE AppendRow
  <2>1. h \in DOMAIN stored /\ stored' = stored  BY <1>4 DEF AppendRow
  <2>2. tag.w \in Windows  BY <1>4 DEF AppendRow, Types, IsTag, Idle
  <2>3. /\ Len(windows) + 1 = Len(windows') /\ Len(windows) \in Nat
        /\ windows'[Len(windows) + 1] = tag.w
    BY <1>4, <2>2, AppendProperties DEF AppendRow, Types
  <2>4. Len(windows) + 1 \in DOMAIN windows'  BY <1>0, <2>3
  <2>5. CASE Within(h, tag.w)
    BY <2>1, <2>3, <2>4, <2>5 DEF Within
  <2>6. CASE ~ Within(h, tag.w)
    BY <1>1, <1>2, <2>1, <2>6 DEF LabEarned
  <2> QED BY <2>5, <2>6
<1>5. CASE TagDies
  <2>1. h \in DOMAIN stored /\ stored' = stored  BY <1>5 DEF TagDies
  <2>2. CASE tag.pc = "append" /\ Within(h, tag.w)
    BY <1>5, <2>1, <2>2 DEF TagDies, HeadsIn
  <2>3. CASE ~ (tag.pc = "append" /\ Within(h, tag.w))
    BY <1>1, <1>2, <2>1, <2>3 DEF LabEarned
  <2> QED BY <2>2, <2>3
<1>6. ASSUME NEW w \in Windows, NEW allow_overlap, TagBegin(w, allow_overlap)
      PROVE  (\E i \in DOMAIN windows' : Within(h, windows[i])') \/ h \in orphans'
  <2>1. h \in DOMAIN stored /\ stored' = stored /\ tag.pc # "append"
    BY <1>6 DEF TagBegin, Idle
  <2> QED BY <1>1, <1>2, <2>1 DEF LabEarned
<1>7. CASE tag' = tag /\ ~ Retag
  <2>1. h \in DOMAIN stored /\ stored[h].source = "lab"
    <3>1. ASSUME NEW x \in Heads, NEW at \in Instants, NEW rule \in Rules, Index(x, at, rule)
          PROVE  h \in DOMAIN stored /\ stored[h].source = "lab"
      BY <3>1 DEF Index
    <3> QED BY <1>7, <3>1
            DEF Next, vars, TagBegin, AppendRow, TagDies, BuildBegin, SelectWindow, BuildEnds, Idle
  <2>2. tag.pc = "append" /\ Within(h, tag.w) => Within(h, tag.w)'
    BY <1>7, <2>1, HeadsStay DEF Within
  <2> QED BY <1>1, <1>2, <1>7, <2>1, <2>2 DEF LabEarned
<1> QED BY <1>3, <1>4, <1>5, <1>6, <1>7
        DEF Next, vars, Index, BuildBegin, SelectWindow, BuildEnds

---------------------------------------------------------------------------
(* The invariant, and what follows from it.                                *)

LEMMA InvInit == Init => IInv
BY DEF Init, IInv, Types, Nothing, Idle, IsTag, IsBuild, StillThere, Selecting, ReadApart,
       RowsTrue, DoneWhole, LabEarned

LEMMA InvNext == IInv /\ [Next]_vars => IInv'
BY TypesKept, StillThereKept, ReadApartKept, RowsTrueKept, DoneWholeKept, LabEarnedKept
   DEF IInv

LEMMA Invariant == Spec => []IInv
BY InvInit, InvNext, PTL DEF Spec

(* Heads, windows and what the two running commands hold keep their        *)
(* shapes, whatever is stored, tagged, appended or built.                  *)
THEOREM TypeCorrect == Spec => []Types
BY Invariant, PTL DEF IInv

(* lab_tag and build_gold: where an alert of the lab came from, what it    *)
(* really was, and that none is missing.  That two windows of one agent    *)
(* give a head one truth comes from a check of neighbours only.            *)
THEOREM LabIsTrue == Spec => []LabTruth
<1>1. IInv => OneTruth
  <2> SUFFICES ASSUME IInv, Built, NEW h \in DOMAIN build.rows, NEW i \in 1 .. build.read,
                      Within(h, windows[i])
               PROVE  build.rows[h] = TruthByKind[windows[i].kind]
    BY DEF OneTruth
  <2>1. Selecting  BY DEF Built, Selecting
  <2>2. PICK j \in 1 .. build.read :
           Within(h, windows[j]) /\ build.rows[h] = TruthByKind[windows[j].kind]
    BY <2>1 DEF IInv, RowsTrue
  <2>3. i = j
    <3>1. /\ build.read <= Len(windows) /\ build.read \in Nat /\ Len(windows) \in Nat
      BY <2>1 DEF IInv, StillThere, Types, IsBuild, Idle, Selecting
    <3>2. i \in 1 .. Len(windows) /\ j \in 1 .. Len(windows)  BY <3>1
    <3>3. /\ windows[i].since \in Nat /\ windows[i].until \in Nat
          /\ windows[j].since \in Nat /\ windows[j].until \in Nat
      BY <3>2, WindowFields DEF IInv, Types
    <3>4. h \in DOMAIN stored  BY <2>1 DEF IInv, StillThere
    <3>5. stored[h].at \in Nat
      <4>1. stored[h] \in Alert  BY <3>4 DEF IInv, Types
      <4> QED BY <4>1, LabAssumption DEF Alert, Instants
    <3>6. windows[i].agent = windows[j].agent  BY <2>2 DEF Within
    <3>7. /\ windows[i].since <= stored[h].at /\ stored[h].at <= windows[i].until
          /\ windows[j].since <= stored[h].at /\ stored[h].at <= windows[j].until
      BY <2>2 DEF Within
    <3>8. ~ (windows[i].until < windows[j].since) /\ ~ (windows[j].until < windows[i].since)
      BY ONLY <3>3, <3>5, <3>7
    <3> QED BY <2>1, <3>6, <3>8 DEF IInv, ReadApart, Apart
  <2> QED BY <2>2, <2>3
<1>2. IInv => PoolWhole
  <2> SUFFICES ASSUME IInv, Built, NEW i \in 1 .. build.read, NEW h \in build.there,
                      Within(h, windows[i]), InScope(h, windows[i])
               PROVE  h \in DOMAIN build.rows
    BY DEF PoolWhole
  <2>1. Selecting  BY DEF Built, Selecting
  <2>2. build.next > build.read /\ build.next \in Nat /\ build.read \in Nat
    BY <2>1 DEF Built, IInv, Types, IsBuild, Idle, Selecting
  <2>3. i \in 1 .. build.next - 1 /\ i <= build.read  BY <2>2
  <2> QED BY <2>1, <2>3 DEF IInv, DoneWhole
<1> QED BY <1>1, <1>2, Invariant, PTL DEF IInv, LabTruth
---------------------------------------------------------------------------
(* The adversarial set.                                                    *)

Position == 1 .. Len(Planned) + 1

IsLoad(q) ==
    \/ q = NoLoad
    \/ /\ q.pc \in {"look", "insert", "mark", "refused", "done"}
       /\ q = [pc |-> q.pc, at |-> q.at, dry_run |-> q.dry_run, forced |-> q.forced,
               loaded |-> q.loaded, skipped |-> q.skipped]
       /\ q.at \in Position /\ q.dry_run \in BOOLEAN /\ q.forced \in BOOLEAN
       /\ q.loaded \in Nat /\ q.skipped \in Nat
       /\ q.pc \in {"insert", "mark"} => q.at <= Len(Planned) /\ ~ q.dry_run
       /\ q.loaded + q.skipped = q.at - 1
       /\ q.pc = "done" => q.at = Len(Planned) + 1

advTypes ==
    /\ alerts \in [Ids -> Rows \cup {Absent}]
    /\ rejected \subseteq InPlan
    /\ load = [l \in Loads |-> load[l]] /\ \A l \in Loads : IsLoad(load[l])

(* A run was told what it needs to begin, and that stays true of it.       *)
RunsAllowed ==
    \A l \in Loads : load[l] # NoLoad => rejected = {} /\ (frozen \/ load[l].forced)

(* The row that a run has inserted and not yet committed is its own.       *)
OneHolder ==
    \A l \in Loads : load[l].pc = "mark" =>
        /\ alerts[Planned[load[l].at]] = Absent
        /\ \A m \in Loads :
               load[m].pc = "mark" /\ Planned[load[m].at] = Planned[load[l].at] => m = l

(* No job was queued for what is not there or is somebody else's to ask.   *)
JobsHaveRows == \A a \in jobs : a \in Ids /\ alerts[a] # Absent /\ (a \in Synthetic => a \in shown)

(* What a run has passed is loaded.                                        *)
PassedLoaded ==
    \A l \in Loads : load[l] # NoLoad /\ ~ load[l].dry_run =>
        \A i \in 1 .. load[l].at - 1 : Planned[i] \in Synthetic

advIInv == advTypes /\ RunsAllowed /\ OneHolder /\ JobsHaveRows /\ PassedLoaded /\ FixturesApart

---------------------------------------------------------------------------
(* The plan is a sequence of fixtures, however long the manifest is.       *)

LEMMA RowPlanTyped ==
    ASSUME NEW i \in 1 .. Len(ManifestRows)
    PROVE  RowPlan(ManifestRows[i]) \in Seq(Fixtures)
<1> DEFINE r == ManifestRows[i]
<1>0. ManifestRows \in Seq([vector : Vectors, pattern : Patterns])  BY AdversarialAssumption
<1>1. r \in [vector : Vectors, pattern : Patterns]  BY <1>0, ElementOfSeq
<1> HIDE DEF r
<1>2. Fixture(r.vector, r.pattern, "target") \in Fixtures  BY <1>1 DEF Fixtures
<1>3. HasNeighbour(r.vector) => Fixture(r.vector, r.pattern, "neighbour") \in Fixtures
  BY <1>1 DEF Fixtures
<1>4. <<Fixture(r.vector, r.pattern, "target")>> \in Seq(Fixtures)  BY <1>2
<1>5. CASE HasNeighbour(r.vector)
  <2>1. <<Fixture(r.vector, r.pattern, "neighbour")>> \in Seq(Fixtures)  BY <1>3, <1>5
  <2>2. <<Fixture(r.vector, r.pattern, "target")>> \o <<Fixture(r.vector, r.pattern, "neighbour")>>
           \in Seq(Fixtures)
    BY <1>4, <2>1, ConcatProperties
  <2> QED BY <1>5, <2>2 DEF RowPlan, r
<1>6. CASE ~ HasNeighbour(r.vector)
  <2>1. <<>> \in Seq(Fixtures)  OBVIOUS
  <2>2. <<Fixture(r.vector, r.pattern, "target")>> \o <<>> \in Seq(Fixtures)
    BY <1>4, <2>1, ConcatProperties
  <2> QED BY <1>6, <2>2 DEF RowPlan, r
<1> QED BY <1>5, <1>6

(* The plan of the first i rows, from that of the rows before it. *)
NextPlan(f, i) == IF i = 0 THEN <<>> ELSE f[i - 1] \o RowPlan(ManifestRows[i])

IsPlan(f, n) == f \in [0 .. n -> Seq(Fixtures)] /\ \A i \in 0 .. n : f[i] = NextPlan(f, i)

LEMMA PlanExists == \A n \in 0 .. Len(ManifestRows) : \E f : IsPlan(f, n)
<1> DEFINE N == Len(ManifestRows)
<1> DEFINE missing == {n \in 0 .. N : ~ \E f : IsPlan(f, n)}
<1>0. N \in Nat  BY AdversarialAssumption
<1> SUFFICES ASSUME missing # {} PROVE FALSE
  OBVIOUS
<1>1. PICK n \in missing : \A k \in missing : n <= k
  <2>1. missing \subseteq Nat  BY <1>0
  <2> HIDE DEF missing
  <2> QED BY <2>1, LeastNumber
<1>2. n \in 0 .. N /\ ~ \E f : IsPlan(f, n) /\ n \in Nat  BY <1>0, <1>1
<1>3. CASE n = 0
  <2> DEFINE f == [i \in 0 .. 0 |-> <<>>]
  <2>1. IsPlan(f, 0)  BY DEF IsPlan, NextPlan
  <2> QED BY <1>2, <1>3, <2>1
<1>4. CASE n # 0
  <2>1. n - 1 \in 0 .. N /\ n - 1 \notin missing
    <3>1. n - 1 \in 0 .. N /\ n - 1 \in Nat /\ ~ (n <= n - 1)  BY <1>0, <1>2, <1>4
    <3> QED BY <1>1, <3>1
  <2>2. PICK g : IsPlan(g, n - 1)  BY <2>1
  <2> DEFINE f == [i \in 0 .. n |-> IF i = n THEN g[n - 1] \o RowPlan(ManifestRows[n]) ELSE g[i]]
  <2>3. g[n - 1] \in Seq(Fixtures)  BY <1>2, <1>4, <2>2 DEF IsPlan
  <2>4. g[n - 1] \o RowPlan(ManifestRows[n]) \in Seq(Fixtures)
    <3>1. n \in 1 .. Len(ManifestRows)  BY <1>2, <1>4
    <3> QED BY <2>3, <3>1, RowPlanTyped, ConcatProperties
  <2>5. \A i \in 0 .. n : i # n => i \in 0 .. n - 1  BY <1>2
  <2>6. f \in [0 .. n -> Seq(Fixtures)]  BY <2>2, <2>4, <2>5 DEF IsPlan
  <2>7. ASSUME NEW i \in 0 .. n PROVE f[i] = NextPlan(f, i)
    <3>1. CASE i = n
      <4>1. n - 1 \in 0 .. n /\ n - 1 # n  BY <1>2, <1>4
      <4>2. f[n - 1] = g[n - 1]  BY <4>1
      <4>3. n \in 0 .. n  BY <1>2
      <4>4. f[n] = g[n - 1] \o RowPlan(ManifestRows[n])  BY <4>3
      <4> HIDE DEF f
      <4> QED BY <1>4, <3>1, <4>2, <4>4 DEF NextPlan
    <3>2. CASE i # n
      <4>1. i \in 0 .. n - 1 /\ f[i] = g[i]  BY <2>5, <3>2
      <4>2. g[i] = NextPlan(g, i)  BY <2>2, <4>1 DEF IsPlan
      <4>3. i # 0 => i - 1 \in 0 .. n /\ i - 1 # n  BY <1>2, <4>1
      <4>4. i # 0 => f[i - 1] = g[i - 1]  BY <4>3
      <4> HIDE DEF f
      <4> QED BY <4>1, <4>2, <4>4 DEF NextPlan
    <3> QED BY <3>1, <3>2
  <2> HIDE DEF f
  <2> QED BY <1>2, <2>6, <2>7 DEF IsPlan
<1> QED BY <1>3, <1>4

LEMMA PlannedTyped == Planned \in Seq(Fixtures)
<1> DEFINE N == Len(ManifestRows)
<1> DEFINE Solves(f) == f = [i \in 0 .. N |-> IF i = 0 THEN <<>>
                                              ELSE f[i - 1] \o RowPlan(ManifestRows[i])]
<1> DEFINE from == CHOOSE f : Solves(f)
<1>0. N \in Nat  BY AdversarialAssumption
<1>1. \E f : Solves(f)
  <2>1. PICK f : IsPlan(f, N)  BY <1>0, PlanExists
  <2>2. f = [i \in 0 .. N |-> NextPlan(f, i)]  BY <2>1 DEF IsPlan
  <2>3. Solves(f)  BY <2>2 DEF NextPlan
  <2> QED BY <2>3
<1>2. Solves(from)  BY <1>1
<1>3. Planned = from[N]  BY DEF Planned
<1> HIDE DEF from
<1>4. \A i \in 0 .. N : from[i] = NextPlan(from, i)  BY <1>2 DEF NextPlan
<1> DEFINE wrong == {i \in 0 .. N : from[i] \notin Seq(Fixtures)}
<1>5. wrong = {}
  <2> SUFFICES ASSUME wrong # {} PROVE FALSE
    OBVIOUS
  <2>1. PICK n \in wrong : \A k \in wrong : n <= k
    <3>1. wrong \subseteq Nat  BY <1>0
    <3> HIDE DEF wrong
    <3> QED BY <3>1, LeastNumber
  <2>2. n \in 0 .. N /\ from[n] \notin Seq(Fixtures)  BY <2>1
  <2>3. n # 0
    <3>1. <<>> \in Seq(Fixtures)  OBVIOUS
    <3>2. n = 0 => from[n] = <<>>  BY <1>4, <2>2 DEF NextPlan
    <3> HIDE DEF wrong
    <3> QED BY <2>2, <3>1, <3>2
  <2>4. n \in 1 .. N /\ n - 1 \in 0 .. N /\ ~ (n <= n - 1)  BY <1>0, <2>2, <2>3
  <2>5. from[n - 1] \in Seq(Fixtures)  BY <2>1, <2>4
  <2>6. from[n] = from[n - 1] \o RowPlan(ManifestRows[n])  BY <1>4, <2>2, <2>3 DEF NextPlan
  <2>7. RowPlan(ManifestRows[n]) \in Seq(Fixtures)  BY <2>4, RowPlanTyped
  <2> QED BY <2>2, <2>5, <2>6, <2>7, ConcatProperties
<1> QED BY <1>0, <1>3, <1>5

LEMMA PlanFacts ==
    /\ Len(Planned) \in Nat /\ DOMAIN Planned = 1 .. Len(Planned)
    /\ \A i \in 1 .. Len(Planned) : Planned[i] \in InPlan /\ Planned[i] \in Ids
    /\ InPlan = {Planned[i] : i \in 1 .. Len(Planned)}
    /\ InPlan \subseteq Fixtures /\ InPlan \subseteq Ids
<1>1. Len(Planned) \in Nat /\ DOMAIN Planned = 1 .. Len(Planned)
  BY PlannedTyped, LenProperties
<1>2. \A i \in 1 .. Len(Planned) : Planned[i] \in Fixtures  BY PlannedTyped, ElementOfSeq
<1> QED BY <1>1, <1>2 DEF InPlan, Ids

LEMMA LoadedTyped ==
    ASSUME NEW f \in Ids
    PROVE  /\ Loaded(f) \in Rows /\ Loaded(f) # Absent
           /\ Loaded(f).is_synthetic /\ IsFixture(Loaded(f))
<1>1. Loaded(f) \in Rows  BY DEF Loaded, Rows, Statuses
<1>2. Loaded(f).is_synthetic /\ IsFixture(Loaded(f))  BY DEF Loaded, IsFixture
<1> QED BY <1>1, <1>2, AbsentAssumption

LEMMA StoredTyped ==
    ASSUME NEW a \in Ids, NEW h \in Ids, NEW status \in Statuses
    PROVE  /\ Stored(a, status, h) \in Rows /\ Stored(a, status, h) # Absent
           /\ ~ Stored(a, status, h).is_synthetic
<1>1. Stored(a, status, h) \in Rows  BY DEF Stored, Rows
<1>2. ~ Stored(a, status, h).is_synthetic  BY DEF Stored
<1> QED BY <1>1, <1>2, AbsentAssumption

---------------------------------------------------------------------------
(* What a load holds, before and after a step.                             *)

(* The fields of a load, so that an update of one keeps the others.        *)
LEMMA LoadShape ==
    ASSUME NEW q, IsLoad(q), q.pc # "idle"
    PROVE  /\ q # NoLoad /\ q.pc \in {"look", "insert", "mark", "refused", "done"}
           /\ q = [pc |-> q.pc, at |-> q.at, dry_run |-> q.dry_run, forced |-> q.forced,
                   loaded |-> q.loaded, skipped |-> q.skipped]
           /\ q.at \in Position /\ q.dry_run \in BOOLEAN /\ q.forced \in BOOLEAN
           /\ q.loaded \in Nat /\ q.skipped \in Nat
           /\ q.at \in Nat \ {0} /\ q.at <= Len(Planned) + 1
           /\ q.pc \in {"insert", "mark"} => q.at <= Len(Planned) /\ ~ q.dry_run
           /\ q.loaded + q.skipped = q.at - 1
           /\ q.pc = "done" => q.at = Len(Planned) + 1
<1>1. q # NoLoad  BY DEF NoLoad
<1>2. IsLoad(q) /\ q # NoLoad => q.at \in Position  BY DEF IsLoad
<1>3. q.at \in Nat \ {0} /\ q.at <= Len(Planned) + 1  BY <1>1, <1>2, PlanFacts DEF Position
<1> QED BY <1>1, <1>3 DEF IsLoad

(* A step to another pc, the position as it was. *)
LEMMA LoadTurns ==
    ASSUME NEW q, IsLoad(q), q.pc # "idle", NEW pc \in {"insert", "mark", "refused"},
           pc # "refused" => q.at <= Len(Planned) /\ ~ q.dry_run
    PROVE  /\ IsLoad([q EXCEPT !.pc = pc]) /\ [q EXCEPT !.pc = pc] # NoLoad
           /\ [q EXCEPT !.pc = pc].pc = pc /\ [q EXCEPT !.pc = pc].at = q.at
           /\ [q EXCEPT !.pc = pc].dry_run = q.dry_run /\ [q EXCEPT !.pc = pc].forced = q.forced
<1> DEFINE r == [q EXCEPT !.pc = pc]
<1>1. r = [pc |-> pc, at |-> q.at, dry_run |-> q.dry_run, forced |-> q.forced,
           loaded |-> q.loaded, skipped |-> q.skipped]
  BY LoadShape
<1> HIDE DEF r
<1>2. /\ r.pc = pc /\ r.at = q.at /\ r.dry_run = q.dry_run /\ r.forced = q.forced
      /\ r.loaded = q.loaded /\ r.skipped = q.skipped
  BY <1>1
<1>3. r # NoLoad  BY <1>2 DEF NoLoad
<1>4. IsLoad(r)  BY <1>1, <1>2, LoadShape DEF IsLoad
<1> QED BY <1>2, <1>3, <1>4 DEF r

(* A step to the next fixture, with one more counted. *)
Counted(q, r) ==
    /\ r = [pc |-> "look", at |-> q.at + 1, dry_run |-> q.dry_run, forced |-> q.forced,
            loaded |-> r.loaded, skipped |-> r.skipped]
    /\ \/ r.loaded = q.loaded + 1 /\ r.skipped = q.skipped
       \/ r.loaded = q.loaded /\ r.skipped = q.skipped + 1

LEMMA LoadGoesOn ==
    ASSUME NEW q, IsLoad(q), q.pc # "idle", q.at <= Len(Planned), NEW r, Counted(q, r)
    PROVE  /\ IsLoad(r) /\ r # NoLoad /\ r.pc = "look" /\ r.at = q.at + 1
           /\ r.dry_run = q.dry_run /\ r.forced = q.forced
<1>1. r.pc = "look" /\ r.at = q.at + 1 /\ r.dry_run = q.dry_run /\ r.forced = q.forced
  BY DEF Counted
<1>2. r # NoLoad  BY <1>1 DEF NoLoad
<1>3. q.at \in Nat \ {0} /\ q.loaded \in Nat /\ q.skipped \in Nat /\ q.loaded + q.skipped = q.at - 1
  BY LoadShape
<1>4. r.loaded \in Nat /\ r.skipped \in Nat /\ r.loaded + r.skipped = r.at - 1
  <2>1. \/ r.loaded = q.loaded + 1 /\ r.skipped = q.skipped
        \/ r.loaded = q.loaded /\ r.skipped = q.skipped + 1
    BY DEF Counted
  <2>2. r.at = q.at + 1  BY <1>1
  <2> QED BY ONLY <1>3, <2>1, <2>2
<1>5. r.at \in Position
  <2>1. q.at \in Nat \ {0} /\ q.at <= Len(Planned) /\ r.at = q.at + 1 /\ Len(Planned) \in Nat
    BY <1>1, <1>3, PlanFacts
  <2>2. r.at \in 1 .. Len(Planned) + 1  BY ONLY <2>1
  <2> QED BY <2>2 DEF Position
<1>6. r = [pc |-> r.pc, at |-> r.at, dry_run |-> r.dry_run, forced |-> r.forced,
           loaded |-> r.loaded, skipped |-> r.skipped]
  BY <1>1 DEF Counted
<1>7. r.dry_run \in BOOLEAN /\ r.forced \in BOOLEAN  BY <1>1, LoadShape
<1>8. IsLoad(r)
  <2>1. r.pc \in {"look", "insert", "mark", "refused", "done"}  BY <1>1
  <2>2. r.pc \notin {"insert", "mark"} /\ r.pc # "done"  BY <1>1
  <2> QED BY <1>4, <1>5, <1>6, <1>7, <2>1, <2>2 DEF IsLoad
<1> QED BY <1>1, <1>2, <1>8

LEMMA OnwardCounts ==
    ASSUME NEW q, IsLoad(q), q.pc # "idle"
    PROVE  /\ Counted(q, [Onward(q) EXCEPT !.loaded = @ + 1])
           /\ Counted(q, [Onward(q) EXCEPT !.skipped = @ + 1])
<1>1. q = [pc |-> q.pc, at |-> q.at, dry_run |-> q.dry_run, forced |-> q.forced,
           loaded |-> q.loaded, skipped |-> q.skipped]
  BY LoadShape
<1>2. Onward(q) = [pc |-> "look", at |-> q.at + 1, dry_run |-> q.dry_run, forced |-> q.forced,
                   loaded |-> q.loaded, skipped |-> q.skipped]
  <2>1. Onward(q) = [[q EXCEPT !.pc = "look"] EXCEPT !.at = @ + 1]  BY DEF Onward
  <2>2. [q EXCEPT !.pc = "look"] =
           [pc |-> "look", at |-> q.at, dry_run |-> q.dry_run, forced |-> q.forced,
            loaded |-> q.loaded, skipped |-> q.skipped]
    BY <1>1
  <2> QED BY <2>1, <2>2
<1>3. [Onward(q) EXCEPT !.loaded = @ + 1] =
         [pc |-> "look", at |-> q.at + 1, dry_run |-> q.dry_run, forced |-> q.forced,
          loaded |-> q.loaded + 1, skipped |-> q.skipped]
  BY <1>2
<1>4. [Onward(q) EXCEPT !.skipped = @ + 1] =
         [pc |-> "look", at |-> q.at + 1, dry_run |-> q.dry_run, forced |-> q.forced,
          loaded |-> q.loaded, skipped |-> q.skipped + 1]
  BY <1>2
<1> QED BY <1>3, <1>4 DEF Counted

---------------------------------------------------------------------------
(* The steps keep the invariant.                                           *)

LEMMA advInvInit == advInit => advIInv
<1> SUFFICES ASSUME advInit PROVE advIInv
  OBVIOUS
<1>1. \A a \in Ids : alerts[a] = Absent  BY DEF advInit
<1>2. Synthetic = {} /\ jobs = {}  BY <1>1 DEF Synthetic, advInit
<1>3. \A l \in Loads : load[l] = NoLoad /\ load[l].pc = "idle"  BY DEF advInit, NoLoad
<1>4. advTypes  BY <1>3 DEF advInit, advTypes, IsLoad
<1> QED BY <1>2, <1>3, <1>4
        DEF advIInv, RunsAllowed, OneHolder, JobsHaveRows, PassedLoaded, FixturesApart

(* A load that only moves needs what it claims at its new place.           *)
LEMMA OneLoadMoves ==
    ASSUME advIInv, NEW l \in Loads, NEW r, load' = [load EXCEPT ![l] = r], IsLoad(r),
           UNCHANGED <<alerts, jobs, frozen, rejected, forced, shown>>,
           r # NoLoad => rejected = {} /\ (frozen \/ r.forced),
           r.pc = "mark" => /\ alerts[Planned[r.at]] = Absent
                            /\ \A m \in Loads : ~ Holds(m, Planned[r.at]),
           r # NoLoad /\ ~ r.dry_run => \A i \in 1 .. r.at - 1 : Planned[i] \in Synthetic
    PROVE  advIInv'
<1>1. /\ load' = [m \in Loads |-> load'[m]] /\ load'[l] = r
      /\ \A m \in Loads : m # l => load'[m] = load[m]
  BY DEF advIInv, advTypes
<1>2. Synthetic' = Synthetic  BY DEF Synthetic
<1>3. advTypes'  BY <1>1 DEF advIInv, advTypes
<1>4. RunsAllowed'  BY <1>1 DEF advIInv, RunsAllowed
<1>5. OneHolder'  BY <1>1 DEF advIInv, OneHolder, Holds
<1>6. JobsHaveRows' /\ FixturesApart'  BY <1>2 DEF advIInv, JobsHaveRows, FixturesApart
<1>7. PassedLoaded'  BY <1>1, <1>2 DEF advIInv, PassedLoaded
<1> QED BY <1>3, <1>4, <1>5, <1>6, <1>7 DEF advIInv

LEMMA StartKeeps ==
    ASSUME advIInv, NEW l \in Loads, NEW dry_run \in BOOLEAN, NEW skip_marker \in BOOLEAN,
           Start(l, dry_run, skip_marker)
    PROVE  advIInv'
<1> DEFINE r == [pc |-> "look", at |-> 1, dry_run |-> dry_run, forced |-> skip_marker,
                 loaded |-> 0, skipped |-> 0]
<1>1. load' = [load EXCEPT ![l] = r]  BY DEF Start
<1>2. rejected = {} /\ (frozen \/ skip_marker)  BY DEF Start
<1>3. UNCHANGED <<alerts, jobs, frozen, rejected, forced, shown>>  BY DEF Start
<1>4. r.pc = "look" /\ r.at = 1 /\ r.forced = skip_marker  OBVIOUS
<1>5. IsLoad(r)  BY PlanFacts DEF IsLoad, Position
<1> HIDE DEF r
<1>6. \A i \in 1 .. r.at - 1 : Planned[i] \in Synthetic  BY <1>4
<1> QED BY <1>1, <1>2, <1>3, <1>4, <1>5, <1>6, OneLoadMoves

LEMMA LookKeeps ==
    ASSUME advIInv, NEW l \in Loads, Look(l)
    PROVE  advIInv'
<1> DEFINE q == load[l]
<1> DEFINE row == alerts[Planned[q.at]]
<1> DEFINE r == Seen(q, row)
<1>1. /\ load' = [load EXCEPT ![l] = r] /\ q.pc = "look" /\ q.at <= Len(Planned)
      /\ UNCHANGED <<alerts, jobs, frozen, rejected, forced, shown>>
  BY DEF Look
<1>2. IsLoad(q) /\ q.pc # "idle"  BY <1>1 DEF advIInv, advTypes
<1>3. q.at \in 1 .. Len(Planned) /\ q.at \in Nat /\ q # NoLoad  BY <1>1, <1>2, LoadShape
<1>4. q # NoLoad => rejected = {} /\ (frozen \/ q.forced)  BY DEF advIInv, RunsAllowed
<1>5. ~ q.dry_run => \A i \in 1 .. q.at - 1 : Planned[i] \in Synthetic
  BY <1>3 DEF advIInv, PassedLoaded
<1> HIDE DEF q
<1>6. CASE row # Absent /\ IsFixture(row)
  <2>1. r = [Onward(q) EXCEPT !.skipped = @ + 1]  BY <1>6 DEF Seen
  <2>2. Counted(q, r)  BY <1>2, <2>1, OnwardCounts
  <2>3. Planned[q.at] \in Synthetic  BY <1>3, <1>6, PlanFacts DEF Synthetic, IsFixture
  <2> HIDE DEF r, row
  <2>4. /\ IsLoad(r) /\ r # NoLoad /\ r.pc = "look" /\ r.at = q.at + 1
        /\ r.dry_run = q.dry_run /\ r.forced = q.forced
    BY <1>1, <1>2, <2>2, LoadGoesOn
  <2>5. ~ r.dry_run => \A i \in 1 .. r.at - 1 : Planned[i] \in Synthetic
    <3>1. \A i \in 1 .. r.at - 1 : i \in 1 .. q.at - 1 \/ i = q.at  BY <1>3, <2>4
    <3> QED BY <1>5, <2>3, <2>4, <3>1
  <2> QED BY <1>1, <1>3, <1>4, <2>4, <2>5, OneLoadMoves
<1>7. CASE row # Absent /\ ~ IsFixture(row)
  <2>1. r = [q EXCEPT !.pc = "refused"]  BY <1>7 DEF Seen
  <2> HIDE DEF r, row
  <2>2. /\ IsLoad(r) /\ r # NoLoad /\ r.pc = "refused" /\ r.at = q.at
        /\ r.dry_run = q.dry_run /\ r.forced = q.forced
    BY <1>2, <2>1, LoadTurns
  <2> QED BY <1>1, <1>3, <1>4, <1>5, <2>2, OneLoadMoves
<1>8. CASE row = Absent /\ q.dry_run
  <2>1. r = [Onward(q) EXCEPT !.loaded = @ + 1]  BY <1>8 DEF Seen
  <2>2. Counted(q, r)  BY <1>2, <2>1, OnwardCounts
  <2> HIDE DEF r, row
  <2>3. /\ IsLoad(r) /\ r # NoLoad /\ r.pc = "look" /\ r.at = q.at + 1
        /\ r.dry_run = q.dry_run /\ r.forced = q.forced
    BY <1>1, <1>2, <2>2, LoadGoesOn
  <2> QED BY <1>1, <1>3, <1>4, <1>8, <2>3, OneLoadMoves
<1>9. CASE row = Absent /\ ~ q.dry_run
  <2>1. r = [q EXCEPT !.pc = "insert"]  BY <1>9 DEF Seen
  <2> HIDE DEF r, row
  <2>2. /\ IsLoad(r) /\ r # NoLoad /\ r.pc = "insert" /\ r.at = q.at
        /\ r.dry_run = q.dry_run /\ r.forced = q.forced
    BY <1>1, <1>2, <1>9, <2>1, LoadTurns
  <2> QED BY <1>1, <1>3, <1>4, <1>5, <2>2, OneLoadMoves
<1> QED BY <1>6, <1>7, <1>8, <1>9

LEMMA InsertKeeps ==
    ASSUME advIInv, NEW l \in Loads, Insert(l)
    PROVE  advIInv'
<1> DEFINE q == load[l]
<1> DEFINE pc == IF alerts[Planned[q.at]] = Absent THEN "mark" ELSE "refused"
<1> DEFINE r == [q EXCEPT !.pc = pc]
<1>1. /\ q.pc = "insert" /\ UNCHANGED <<alerts, jobs, frozen, rejected, forced, shown>>
      /\ \A m \in Loads : ~ Holds(m, Planned[q.at])
  BY DEF Insert
<1>2. load' = [load EXCEPT ![l] = r]  BY DEF Insert
<1>3. IsLoad(q) /\ q.pc # "idle"  BY <1>1 DEF advIInv, advTypes
<1>4. q.at <= Len(Planned) /\ q # NoLoad /\ ~ q.dry_run  BY <1>1, <1>3, LoadShape
<1>5. rejected = {} /\ (frozen \/ q.forced)  BY <1>4 DEF advIInv, RunsAllowed
<1>6. \A i \in 1 .. q.at - 1 : Planned[i] \in Synthetic  BY <1>4 DEF advIInv, PassedLoaded
<1> HIDE DEF q
<1>7. pc = "mark" => alerts[Planned[q.at]] = Absent  OBVIOUS
<1>8. pc \in {"insert", "mark", "refused"}  OBVIOUS
<1> HIDE DEF pc
<1>9. /\ IsLoad(r) /\ r # NoLoad /\ r.pc = pc /\ r.at = q.at
      /\ r.dry_run = q.dry_run /\ r.forced = q.forced
  <2>1. pc # "refused" => q.at <= Len(Planned) /\ ~ q.dry_run  BY <1>4
  <2> QED BY <1>3, <1>8, <2>1, LoadTurns
<1> HIDE DEF r
<1> QED BY <1>1, <1>2, <1>4, <1>5, <1>6, <1>7, <1>9, OneLoadMoves

LEMMA CountKeeps ==
    ASSUME advIInv, NEW l \in Loads, Count(l)
    PROVE  advIInv'
<1> DEFINE q == load[l]
<1> DEFINE pc == IF ~ q.dry_run /\ jobs \cap InPlan # {} THEN "refused" ELSE "done"
<1> DEFINE r == [q EXCEPT !.pc = pc]
<1>1. /\ q.pc = "look" /\ q.at > Len(Planned)
      /\ UNCHANGED <<alerts, jobs, frozen, rejected, forced, shown>>
  BY DEF Count
<1>2. load' = [load EXCEPT ![l] = r]  BY DEF Count
<1>3. IsLoad(q) /\ q.pc # "idle"  BY <1>1 DEF advIInv, advTypes
<1>4. /\ q.at \in Nat \ {0} /\ q.at = Len(Planned) + 1 /\ q # NoLoad
  BY <1>1, <1>3, LoadShape, PlanFacts
<1>5. rejected = {} /\ (frozen \/ q.forced)  BY <1>4 DEF advIInv, RunsAllowed
<1>6. ~ q.dry_run => \A i \in 1 .. q.at - 1 : Planned[i] \in Synthetic
  BY <1>4 DEF advIInv, PassedLoaded
<1> HIDE DEF q
<1>7. pc \in {"refused", "done"}  OBVIOUS
<1> HIDE DEF pc
<1>a. q = [pc |-> q.pc, at |-> q.at, dry_run |-> q.dry_run, forced |-> q.forced,
           loaded |-> q.loaded, skipped |-> q.skipped]
  BY <1>3, LoadShape
<1>8. r = [pc |-> pc, at |-> q.at, dry_run |-> q.dry_run, forced |-> q.forced,
           loaded |-> q.loaded, skipped |-> q.skipped]
  BY <1>a
<1> HIDE DEF r
<1>9. /\ r.pc = pc /\ r.at = q.at /\ r.dry_run = q.dry_run /\ r.forced = q.forced
      /\ r.loaded = q.loaded /\ r.skipped = q.skipped
  BY <1>8
<1>10. r # NoLoad /\ r.pc # "mark"  BY <1>7, <1>9 DEF NoLoad
<1>11. IsLoad(r)  BY <1>3, <1>4, <1>7, <1>8, <1>9, LoadShape DEF IsLoad
<1> QED BY <1>1, <1>2, <1>5, <1>6, <1>9, <1>10, <1>11, OneLoadMoves

LEMMA LoadEndsKeeps ==
    ASSUME advIInv, NEW l \in Loads, LoadEnds(l)
    PROVE  advIInv'
<1>1. /\ load' = [load EXCEPT ![l] = NoLoad]
      /\ UNCHANGED <<alerts, jobs, frozen, rejected, forced, shown>>
  BY DEF LoadEnds
<1>2. IsLoad(NoLoad) /\ NoLoad.pc # "mark"  BY DEF IsLoad, NoLoad
<1> QED BY <1>1, <1>2, OneLoadMoves

(* The commit: the row is the fixture's, and nobody else had begun it.     *)
LEMMA MarkKeeps ==
    ASSUME advIInv, NEW l \in Loads, Mark(l)
    PROVE  advIInv'
<1> DEFINE q == load[l]
<1> DEFINE f == Planned[q.at]
<1> DEFINE r == [Onward(q) EXCEPT !.loaded = @ + 1]
<1>a. q.pc = "mark" /\ alerts' = [alerts EXCEPT ![f] = Loaded(f)]  BY DEF Mark
<1>b. load' = [load EXCEPT ![l] = r]  BY DEF Mark
<1>c. forced' = IF q.forced THEN forced \cup {f} ELSE forced  BY DEF Mark
<1>d. UNCHANGED <<jobs, frozen, rejected, shown>>  BY DEF Mark
<1>1. /\ q.pc = "mark" /\ alerts' = [alerts EXCEPT ![f] = Loaded(f)]
      /\ load' = [load EXCEPT ![l] = r]
      /\ forced' = IF q.forced THEN forced \cup {f} ELSE forced
      /\ UNCHANGED <<jobs, frozen, rejected, shown>>
  BY <1>a, <1>b, <1>c, <1>d
<1>2. IsLoad(q) /\ q.pc # "idle"  BY <1>1 DEF advIInv, advTypes
<1>3. q.at \in 1 .. Len(Planned) /\ q.at \in Nat /\ q # NoLoad /\ ~ q.dry_run
  BY <1>1, <1>2, LoadShape
<1>4. f \in InPlan /\ f \in Ids  BY <1>3, PlanFacts
<1>5. alerts[f] = Absent /\ \A m \in Loads \ {l} : load[m].pc = "mark" => Planned[load[m].at] # f
  BY <1>1 DEF advIInv, OneHolder
<1>6. rejected = {} /\ (frozen \/ q.forced)  BY <1>3 DEF advIInv, RunsAllowed
<1>7. \A i \in 1 .. q.at - 1 : Planned[i] \in Synthetic  BY <1>3 DEF advIInv, PassedLoaded
<1>8. /\ load' = [m \in Loads |-> load'[m]] /\ load'[l] = r
      /\ \A m \in Loads : m # l => load'[m] = load[m]
  BY <1>1 DEF advIInv, advTypes
<1>9. Counted(q, r)  BY <1>2, OnwardCounts
<1> HIDE DEF q
<1> HIDE DEF r, f
<1>10. /\ IsLoad(r) /\ r # NoLoad /\ r.pc = "look" /\ r.at = q.at + 1
       /\ r.dry_run = q.dry_run /\ r.forced = q.forced
  BY <1>2, <1>3, <1>9, LoadGoesOn
<1>11. /\ Loaded(f) \in Rows /\ Loaded(f) # Absent /\ Loaded(f).is_synthetic
  BY <1>4, LoadedTyped
<1>12. /\ alerts' \in [Ids -> Rows \cup {Absent}] /\ alerts'[f] = Loaded(f)
       /\ \A a \in Ids : a # f => alerts'[a] = alerts[a]
  BY <1>1, <1>4, <1>11 DEF advIInv, advTypes
<1>13. Synthetic' = Synthetic \cup {f}  BY <1>4, <1>11, <1>12 DEF Synthetic
<1>14. f \notin jobs  BY <1>5 DEF advIInv, JobsHaveRows
<1>15. advTypes'  BY <1>1, <1>8, <1>10, <1>12 DEF advIInv, advTypes
<1>16. RunsAllowed'  BY <1>1, <1>6, <1>8, <1>10 DEF advIInv, RunsAllowed
<1>17. OneHolder'
  <2> SUFFICES ASSUME NEW m \in Loads, load'[m].pc = "mark"
               PROVE  /\ alerts'[Planned[load'[m].at]] = Absent
                      /\ \A k \in Loads :
                            load'[k].pc = "mark" /\ Planned[load'[k].at] = Planned[load'[m].at]
                                => k = m
    BY DEF OneHolder
  <2>1. m # l /\ load'[m] = load[m]  BY <1>8, <1>10
  <2>2. Planned[load[m].at] # f  BY <1>5, <2>1
  <2>3. Planned[load[m].at] \in Ids
    <3>1. IsLoad(load[m]) /\ load[m].pc # "idle"  BY <2>1 DEF advIInv, advTypes
    <3>2. load[m].at \in 1 .. Len(Planned)  BY <2>1, <3>1, LoadShape
    <3> QED BY <3>2, PlanFacts
  <2>4. alerts'[Planned[load[m].at]] = Absent  BY <1>12, <2>1, <2>2, <2>3 DEF advIInv, OneHolder
  <2>5. ASSUME NEW k \in Loads, load'[k].pc = "mark",
               Planned[load'[k].at] = Planned[load'[m].at]
        PROVE  k = m
    <3>1. k # l /\ load'[k] = load[k]  BY <1>8, <1>10, <2>5
    <3> QED BY <2>1, <2>5, <3>1 DEF advIInv, OneHolder
  <2> QED BY <2>1, <2>4, <2>5
<1>18. JobsHaveRows'  BY <1>1, <1>12, <1>13, <1>14 DEF advIInv, JobsHaveRows
<1>19. PassedLoaded'
  <2> SUFFICES ASSUME NEW m \in Loads, load'[m] # NoLoad, ~ load'[m].dry_run,
                      NEW i \in 1 .. load'[m].at - 1
               PROVE  Planned[i] \in Synthetic'
    BY DEF PassedLoaded
  <2>1. CASE m # l  BY <1>8, <1>13, <2>1 DEF advIInv, PassedLoaded
  <2>2. CASE m = l
    <3>1. i \in 1 .. q.at - 1 \/ i = q.at  BY <1>3, <1>8, <1>10, <2>2
    <3> QED BY <1>7, <1>13, <3>1 DEF f
  <2> QED BY <2>1, <2>2
<1>20. FixturesApart'
  <2>1. \A a \in Synthetic : a \in Ids  BY DEF Synthetic
  <2>2. f \notin Synthetic  BY <1>5 DEF Synthetic
  <2>3. \A a \in Synthetic' : a \in InPlan /\ alerts'[a] = Loaded(a)
    BY <1>4, <1>12, <1>13, <2>1, <2>2 DEF advIInv, FixturesApart
  <2>4. \A a \in Synthetic' \cap jobs' : a \in shown'
    BY <1>1, <1>13, <1>14 DEF advIInv, FixturesApart
  <2>5. \A a \in Synthetic' : frozen' \/ a \in forced'
    BY <1>1, <1>6, <1>13 DEF advIInv, FixturesApart
  <2> QED BY <1>1, <1>6, <2>3, <2>4, <2>5 DEF FixturesApart
<1> QED BY <1>15, <1>16, <1>17, <1>18, <1>19, <1>20 DEF advIInv

(* The pipeline stores an alert that no load holds; it is never synthetic. *)
LEMMA PipelineKeeps ==
    ASSUME advIInv, NEW a \in Posted \cup Strangers, Pipeline(a)
    PROVE  advIInv'
<1>1. /\ a \in Ids /\ alerts[a] = Absent /\ \A l \in Loads : ~ Holds(l, a)
      /\ UNCHANGED <<frozen, rejected, load, forced, shown>>
  BY DEF Pipeline, Ids
<1>2. PICK row \in Rows : /\ row # Absent /\ ~ row.is_synthetic
                          /\ alerts' = [alerts EXCEPT ![a] = row]
                          /\ jobs' \subseteq jobs \cup {a}
  <2>1. CASE \E h \in Ids : Absorbs(h, a)
    <3>1. PICK h \in Ids : /\ alerts' = [alerts EXCEPT ![a] = Stored(a, "duplicate", h)]
                           /\ jobs' = jobs
      BY <2>1 DEF Pipeline
    <3>2. "duplicate" \in Statuses  BY DEF Statuses
    <3> QED BY <1>1, <3>1, <3>2, StoredTyped
  <2>2. CASE ~ \E h \in Ids : Absorbs(h, a)
    <3>1. /\ alerts' = [alerts EXCEPT ![a] = Stored(a, "queued_tier1", a)]
          /\ jobs' = jobs \cup {a}
      BY <2>2 DEF Pipeline
    <3>2. "queued_tier1" \in Statuses  BY DEF Statuses
    <3> QED BY <1>1, <3>1, <3>2, StoredTyped
  <2> QED BY <2>1, <2>2
<1>3. /\ alerts' \in [Ids -> Rows \cup {Absent}] /\ alerts'[a] = row
      /\ \A x \in Ids : x # a => alerts'[x] = alerts[x]
  BY <1>1, <1>2 DEF advIInv, advTypes
<1>4. a \notin Synthetic /\ Synthetic' = Synthetic  BY <1>1, <1>2, <1>3 DEF Synthetic
<1>5. a \notin jobs  BY <1>1 DEF advIInv, JobsHaveRows
<1>6. advTypes'  BY <1>1, <1>3 DEF advIInv, advTypes
<1>7. RunsAllowed'  BY <1>1 DEF advIInv, RunsAllowed
<1>8. OneHolder'
  <2> SUFFICES ASSUME NEW l \in Loads, load[l].pc = "mark"
               PROVE  /\ alerts'[Planned[load[l].at]] = Absent
                      /\ \A m \in Loads :
                            load[m].pc = "mark" /\ Planned[load[m].at] = Planned[load[l].at]
                                => m = l
    BY <1>1 DEF OneHolder
  <2>1. Planned[load[l].at] # a  BY <1>1 DEF Holds
  <2>2. IsLoad(load[l]) /\ load[l].pc # "idle"  BY DEF advIInv, advTypes
  <2>3. load[l].at \in 1 .. Len(Planned)  BY <2>2, LoadShape
  <2>4. Planned[load[l].at] \in Ids  BY <2>3, PlanFacts
  <2> QED BY <1>3, <2>1, <2>4 DEF advIInv, OneHolder
<1>9. JobsHaveRows'  BY <1>1, <1>2, <1>3, <1>4, <1>5 DEF advIInv, JobsHaveRows
<1>10. PassedLoaded'  BY <1>1, <1>4 DEF advIInv, PassedLoaded
<1>11. FixturesApart'
  <2>1. \A f \in Synthetic : f \in Ids /\ f # a  BY <1>4 DEF Synthetic
  <2> QED BY <1>1, <1>2, <1>3, <1>4, <2>1 DEF advIInv, FixturesApart
<1> QED BY <1>6, <1>7, <1>8, <1>9, <1>10, <1>11 DEF advIInv

(* The others change what a load begins with, never what it has.           *)
LEMMA OthersKeep ==
    ASSUME advIInv, UNCHANGED <<alerts, load, forced>>,
           \/ UNCHANGED <<jobs, frozen, rejected, shown>>
           \/ Freeze \/ Generate \/ Evaluate
    PROVE  advIInv'
<1>0. UNCHANGED <<alerts, load, forced>> /\ Synthetic' = Synthetic  BY DEF Synthetic
<1>1. rejected' \subseteq rejected /\ (frozen => frozen')
  BY DEF Freeze, Generate, Evaluate
<1>2. /\ JobsHaveRows' /\ \A f \in Synthetic' \cap jobs' : f \in shown'
  <2>1. CASE Evaluate
    <3>1. /\ jobs' = jobs \cup InPlan /\ shown' = InPlan /\ shown = {}
          /\ \A f \in InPlan : alerts[f] # Absent
      BY <2>1 DEF Evaluate
    <3>2. \A f \in Synthetic : f \in InPlan  BY DEF advIInv, FixturesApart
    <3> QED BY <1>0, <3>1, <3>2, PlanFacts DEF advIInv, JobsHaveRows
  <2>2. CASE jobs' = jobs /\ shown' = shown
    BY <1>0, <2>2 DEF advIInv, JobsHaveRows, FixturesApart
  <2> QED BY <2>1, <2>2 DEF Freeze, Generate
<1>3. advTypes'  BY <1>0, <1>1 DEF advIInv, advTypes
<1>4. RunsAllowed'  BY <1>0, <1>1 DEF advIInv, RunsAllowed
<1>5. OneHolder' /\ PassedLoaded'  BY <1>0 DEF advIInv, OneHolder, PassedLoaded
<1>6. FixturesApart'  BY <1>0, <1>1, <1>2 DEF advIInv, FixturesApart
<1> QED BY <1>2, <1>3, <1>4, <1>5, <1>6 DEF advIInv

LEMMA advInvNext == advIInv /\ [advNext]_advVars => advIInv'
<1> SUFFICES ASSUME advIInv, [advNext]_advVars PROVE advIInv'
  OBVIOUS
<1>1. ASSUME NEW l \in Loads, LoadSteps(l) PROVE advIInv'
  BY <1>1, StartKeeps, LookKeeps, InsertKeeps, MarkKeeps, CountKeeps, LoadEndsKeeps
     DEF LoadSteps
<1>2. ASSUME NEW a \in Posted \cup Strangers, Pipeline(a) PROVE advIInv'
  BY <1>2, PipelineKeeps
<1>3. CASE Freeze  BY <1>3, OthersKeep DEF Freeze
<1>4. CASE Generate  BY <1>4, OthersKeep DEF Generate
<1>5. CASE Evaluate  BY <1>5, OthersKeep DEF Evaluate
<1>6. ASSUME NEW h \in Ids, Ageing(h) PROVE advIInv'
  BY <1>6, OthersKeep DEF Ageing
<1>7. CASE UNCHANGED advVars  BY <1>7, OthersKeep DEF advVars
<1> QED BY <1>1, <1>2, <1>3, <1>4, <1>5, <1>6, <1>7 DEF advNext

LEMMA advInvariant == advSpec => []advIInv
BY advInvInit, advInvNext, PTL DEF advSpec

---------------------------------------------------------------------------
(* What a prompt is shown of the set.                                      *)

(* Five hours between two targets and ten minutes to a neighbour: inside   *)
(* two hours of a target there is its own neighbour and nothing else.      *)
LEMMA Spaced ==
    ASSUME NEW v \in Vectors, NEW p \in Patterns, NEW x \in Vectors, NEW y \in Patterns,
           NEW role \in {"target", "neighbour"}
    PROVE  LET d == Fixture(x, y, role).at - Fixture(v, p, "target").at
           IN  /\ d \in - Window .. Window => x = v /\ y = p
               /\ role = "neighbour" /\ x = v /\ y = p => d \in - Window .. Window
<1>1. /\ v \in Int /\ 1 <= v /\ v <= 5 /\ x \in Int /\ 1 <= x /\ x <= 5
      /\ p \in Int /\ 1 <= p /\ p <= 8 /\ y \in Int /\ 1 <= y /\ y <= 8
  BY DEF Vectors, Patterns
<1>2. Fixture(v, p, "target").at = 30 * (8 * (v - 1) + (p - 1)) - 0
  BY DEF Fixture, Spacing, Nth
<1>3. CASE role = "target"
  <2>1. Fixture(x, y, role).at = 30 * (8 * (x - 1) + (y - 1)) - 0
    BY <1>3 DEF Fixture, Spacing, Nth
  <2>2. Fixture(x, y, role).at - Fixture(v, p, "target").at \in - Window .. Window
           => x = v /\ y = p
    BY <1>1, <1>2, <2>1 DEF Window
  <2> QED BY <1>3, <2>2
<1>4. CASE role = "neighbour"
  <2>1. Fixture(x, y, role).at = 30 * (8 * (x - 1) + (y - 1)) - 1
    BY <1>4 DEF Fixture, Spacing, Nth, BeforeTarget
  <2>2. Fixture(x, y, role).at - Fixture(v, p, "target").at \in - Window .. Window
           => x = v /\ y = p
    BY <1>1, <1>2, <2>1 DEF Window
  <2>3. x = v /\ y = p
           => Fixture(x, y, role).at - Fixture(v, p, "target").at \in - Window .. Window
    BY <1>1, <1>2, <2>1 DEF Window
  <2> QED BY <2>2, <2>3
<1> QED BY <1>3, <1>4

LEMMA FixtureFields ==
    ASSUME NEW f \in Fixtures
    PROVE  /\ f.vector \in Vectors /\ f.pattern \in Patterns /\ f.role \in {"target", "neighbour"}
           /\ f = Fixture(f.vector, f.pattern, f.role)
<1>1. PICK v \in Vectors, p \in Patterns, role \in {"target", "neighbour"} :
         f = Fixture(v, p, role)
  BY DEF Fixtures
<1>2. f.role = role /\ f.vector = v /\ f.pattern = p  BY <1>1 DEF Fixture
<1> QED BY <1>1, <1>2

(* load.py and the pipeline: no other alert is taken for a fixture, none   *)
(* of them reaches a worker before the evaluation asks, and a load that    *)
(* says it is done is complete, whatever the manifest holds and however    *)
(* the loads and the documents of the webhook met.                         *)
THEOREM FixturesAreSound == advSpec => []FixturesSound
<1>1. advIInv => DoneMeansLoaded
  <2> SUFFICES ASSUME advIInv, NEW l \in Loads, load[l].pc = "done"
               PROVE  /\ load[l].loaded + load[l].skipped = Len(Planned)
                      /\ ~ load[l].dry_run =>
                            /\ InPlan \subseteq Synthetic
                            /\ \A f \in InPlan : f.role = "target" =>
                                  Correlated(f) = {g \in InPlan : /\ g.role = "neighbour"
                                                                  /\ g.vector = f.vector
                                                                  /\ g.pattern = f.pattern}
    BY DEF DoneMeansLoaded
  <2>1. IsLoad(load[l])  BY DEF advIInv, advTypes
  <2>2. /\ load[l].at = Len(Planned) + 1 /\ load[l] # NoLoad
        /\ load[l].loaded + load[l].skipped = load[l].at - 1
    BY <2>1, LoadShape
  <2>3. Len(Planned) \in Nat  BY PlanFacts
  <2>4. load[l].loaded + load[l].skipped = Len(Planned)  BY <2>2, <2>3
  <2>5. ASSUME ~ load[l].dry_run PROVE InPlan \subseteq Synthetic
    <3>1. \A i \in 1 .. load[l].at - 1 : Planned[i] \in Synthetic
      BY <2>2, <2>5 DEF advIInv, PassedLoaded
    <3>2. load[l].at - 1 = Len(Planned)  BY <2>2, <2>3
    <3> QED BY <3>1, <3>2, PlanFacts
  <2>6. Synthetic \subseteq InPlan  BY DEF advIInv, FixturesApart
  <2>7. ASSUME InPlan \subseteq Synthetic, NEW f \in InPlan, f.role = "target"
        PROVE  Correlated(f) = {g \in InPlan : /\ g.role = "neighbour"
                                               /\ g.vector = f.vector
                                               /\ g.pattern = f.pattern}
    <3>1. Correlated(f) = {g \in InPlan \ {f} : g.at - f.at \in - Window .. Window}
      BY <2>6, <2>7 DEF Correlated
    <3>2. ASSUME NEW g \in InPlan
          PROVE  (g # f /\ g.at - f.at \in - Window .. Window)
                    <=> /\ g.role = "neighbour"
                        /\ g.vector = f.vector /\ g.pattern = f.pattern
      <4>1. f \in Fixtures /\ g \in Fixtures  BY <2>7, <3>2, PlanFacts
      <4>2. /\ f.vector \in Vectors /\ f.pattern \in Patterns
            /\ f = Fixture(f.vector, f.pattern, "target")
            /\ g.vector \in Vectors /\ g.pattern \in Patterns
            /\ g.role \in {"target", "neighbour"} /\ g = Fixture(g.vector, g.pattern, g.role)
        BY <2>7, <4>1, FixtureFields
      <4>3. /\ g.at - f.at \in - Window .. Window => g.vector = f.vector /\ g.pattern = f.pattern
            /\ g.role = "neighbour" /\ g.vector = f.vector /\ g.pattern = f.pattern
                  => g.at - f.at \in - Window .. Window
        <5>1. LET d == Fixture(g.vector, g.pattern, g.role).at
                          - Fixture(f.vector, f.pattern, "target").at
              IN  /\ d \in - Window .. Window => g.vector = f.vector /\ g.pattern = f.pattern
                  /\ g.role = "neighbour" /\ g.vector = f.vector /\ g.pattern = f.pattern
                        => d \in - Window .. Window
          BY <4>2, Spaced
        <5>2. g.at = Fixture(g.vector, g.pattern, g.role).at  BY <4>2
        <5>3. f.at = Fixture(f.vector, f.pattern, "target").at  BY <4>2
        <5> QED BY <5>1, <5>2, <5>3
      <4>4. g.role = "target" /\ g.vector = f.vector /\ g.pattern = f.pattern => g = f
        BY <4>2
      <4> QED BY <2>7, <4>2, <4>3, <4>4
    <3> QED BY <3>1, <3>2
  <2> QED BY <2>4, <2>5, <2>7
<1>2. advIInv => FixturesApart  BY DEF advIInv
<1> QED BY <1>1, <1>2, advInvariant, PTL DEF FixturesSound

---------------------------------------------------------------------------
(* The cache of model answers: any threads, items and cap, whatever calls  *)
(* and writes fail, runs restart or entries are lost.                      *)
WorkerStates ==
    {Free} \cup [pc : {"load", "lock"}, item : DOMAIN Items]
           \cup [pc : {"call"}, item : DOMAIN Items, attempt : Nat]
           \cup [pc : {"write"}, item : DOMAIN Items, answer : Nat]

cacheTypes ==
    /\ next \in Nat \ {0} /\ worker \in [Workers -> WorkerStates]
    /\ entry \in [Keys -> Nat \cup {Null}] /\ lock \in [Keys -> Workers \cup {Null}]
    /\ given \in [Keys -> SUBSET Nat]
    /\ live \in Nat /\ calls \in Nat

Callers == {w \in Workers : worker[w].pc = "call"}

(* A call in flight was let in while there was room, so the calls that may *)
(* still be billed are at most one a thread.                               *)
MoneyInv ==
    /\ billed = live
    /\ live + Cardinality(Callers) <= Room + Cardinality(Workers) - 1

(* Between its second look and its write a thread is alone with the key,   *)
(* and what was returned for a key is what its entry says.                 *)
Alone(w) == worker[w].pc \in {"call", "write"} =>
                lock[KeyOf(w)] = w /\ entry[KeyOf(w)] = Null

KeyInv ==
    /\ \A w \in Workers : Alone(w)
    /\ \A k \in Keys : /\ given[k] \subseteq {entry[k]}
                       /\ entry[k] = Null => given[k] = {}

cacheIInv == cacheTypes /\ MoneyInv /\ KeyInv

LEMMA ItemKeys == \A i \in DOMAIN Items : Items[i] \in Keys
BY DEF Keys

(* A thread that is not idle is on an item. *)
LEMMA Busy ==
    ASSUME cacheTypes, NEW w \in Workers, worker[w].pc # "idle"
    PROVE  worker[w].item \in DOMAIN Items /\ KeyOf(w) \in Keys
<1>1. worker[w] \in WorkerStates /\ worker[w] # Free  BY DEF cacheTypes, Free
<1>2. worker[w].item \in DOMAIN Items  BY <1>1 DEF WorkerStates
<1> QED BY <1>2, ItemKeys DEF KeyOf

LEMMA CallersFinite ==
    /\ IsFiniteSet(Callers) /\ Cardinality(Callers) \in Nat
    /\ Cardinality(Callers) <= Cardinality(Workers) /\ Cardinality(Workers) \in Nat
<1>1. Callers \in SUBSET Workers  BY DEF Callers
<1> QED BY <1>1, FS_Subset, FS_CardinalityType, CacheAssumption

(* What one thread's step does to the threads and to the calls in flight.  *)
LEMMA OneThread ==
    ASSUME cacheTypes, NEW w \in Workers, NEW r \in WorkerStates,
           worker' = [worker EXCEPT ![w] = r]
    PROVE  /\ worker' \in [Workers -> WorkerStates]
           /\ worker'[w] = r /\ \A v \in Workers \ {w} : worker'[v] = worker[v]
           /\ Callers' = IF r.pc = "call" THEN Callers \cup {w} ELSE Callers \ {w}
<1>1. /\ worker' \in [Workers -> WorkerStates]
      /\ worker'[w] = r /\ \A v \in Workers \ {w} : worker'[v] = worker[v]
  BY DEF cacheTypes
<1> QED BY <1>1 DEF Callers

LEMMA CallsGone ==
    ASSUME NEW w
    PROVE  /\ Cardinality(Callers \ {w}) \in Nat
           /\ Cardinality(Callers \ {w}) <= Cardinality(Callers)
           /\ w \in Callers => Cardinality(Callers \ {w}) = Cardinality(Callers) - 1
<1>1. Cardinality(Callers \ {w}) =
         IF w \in Callers THEN Cardinality(Callers) - 1 ELSE Cardinality(Callers)
  BY FS_RemoveElement, CallersFinite
<1>2. Callers \ {w} \in SUBSET Callers  OBVIOUS
<1>3. IsFiniteSet(Callers \ {w}) /\ Cardinality(Callers \ {w}) <= Cardinality(Callers)
  BY <1>2, FS_Subset, CallersFinite
<1>4. Cardinality(Callers \ {w}) \in Nat  BY <1>3, FS_CardinalityType
<1> QED BY <1>1, <1>3, <1>4

(* A step that neither calls nor bills keeps the bound. *)
LEMMA FreeOfCharge ==
    ASSUME cacheIInv, NEW w \in Workers, NEW r \in WorkerStates, r.pc # "call",
           worker' = [worker EXCEPT ![w] = r], UNCHANGED <<live, billed>>
    PROVE  MoneyInv'
<1>1. Callers' = Callers \ {w}  BY OneThread DEF cacheIInv
<1>2. Cardinality(Callers') <= Cardinality(Callers) /\ Cardinality(Callers') \in Nat
  BY <1>1, CallsGone
<1> QED BY <1>2, CallersFinite, CacheAssumption DEF cacheIInv, MoneyInv, cacheTypes

(* An item that ends on an answer which is its key's entry. *)
LEMMA HitKeeps ==
    ASSUME cacheIInv, NEW w \in Workers, worker[w].pc # "idle", entry[KeyOf(w)] # Null,
           Return(w, entry[KeyOf(w)]),
           UNCHANGED <<entry, next, lock, live, run, calls, billed>>
    PROVE  cacheIInv'
<1> DEFINE k == KeyOf(w)
<1>0. k \in Keys  BY Busy DEF cacheIInv
<1> HIDE DEF k
<1>i. Free \in WorkerStates /\ Free.pc = "idle"  BY DEF WorkerStates, Free
<1>w. worker' = [worker EXCEPT ![w] = Free]  BY DEF Return
<1>g. given' = [given EXCEPT ![k] = @ \cup {entry[k]}]  BY DEF Return, k
<1>e. entry[k] \in Nat /\ entry[k] # Null  BY <1>0 DEF cacheIInv, cacheTypes, k
<1>1. cacheTypes'
  <2>1. worker' \in [Workers -> WorkerStates]  BY OneThread, <1>i, <1>w DEF cacheIInv
  <2>2. given' \in [Keys -> SUBSET Nat]  BY <1>0, <1>g, <1>e DEF cacheIInv, cacheTypes
  <2> QED BY <2>1, <2>2 DEF cacheIInv, cacheTypes
<1>2. MoneyInv'  BY FreeOfCharge, <1>i, <1>w
<1>3. KeyInv'
  <2>1. \A v \in Workers : Alone(v)'
    BY OneThread, <1>i, <1>w DEF cacheIInv, KeyInv, Alone, KeyOf
  <2>2. \A q \in Keys : given'[q] \subseteq {entry[q]} /\ (entry[q] = Null => given'[q] = {})
    BY <1>0, <1>g, <1>e DEF cacheIInv, cacheTypes, KeyInv
  <2> QED BY <2>1, <2>2 DEF KeyInv
<1> QED BY <1>1, <1>2, <1>3 DEF cacheIInv

(* An item that ends on an exception: its thread may have held the lock.   *)
LEMMA RaiseKeeps ==
    ASSUME cacheIInv, NEW w \in Workers, worker[w].pc # "idle", Raise(w),
           \/ UNCHANGED lock
           \/ lock[KeyOf(w)] = w /\ Release(w),
           UNCHANGED <<entry, next, live, run, calls, billed>>
    PROVE  cacheIInv'
<1> DEFINE k == KeyOf(w)
<1>0. k \in Keys  BY Busy DEF cacheIInv
<1> HIDE DEF k
<1>i. Free \in WorkerStates /\ Free.pc = "idle"  BY DEF WorkerStates, Free
<1>w. worker' = [worker EXCEPT ![w] = Free] /\ given' = given  BY DEF Raise
<1>l. lock' \in [Keys -> Workers \cup {Null}]
  BY <1>0 DEF cacheIInv, cacheTypes, Release, k
<1>1. cacheTypes'
  <2>1. worker' \in [Workers -> WorkerStates]  BY OneThread, <1>i, <1>w DEF cacheIInv
  <2> QED BY <2>1, <1>l, <1>w DEF cacheIInv, cacheTypes
<1>2. MoneyInv'  BY FreeOfCharge, <1>i, <1>w
<1>3. KeyInv'
  <2>1. ASSUME NEW v \in Workers, worker'[v].pc \in {"call", "write"}
        PROVE  lock'[Items[worker'[v].item]] = v /\ entry[Items[worker'[v].item]] = Null
    <3>1. v # w /\ worker'[v] = worker[v]  BY OneThread, <1>i, <1>w, <2>1 DEF cacheIInv
    <3>2. lock[KeyOf(v)] = v /\ entry[KeyOf(v)] = Null
      BY <2>1, <3>1 DEF cacheIInv, KeyInv, Alone
    <3>3. KeyOf(v) \in Keys  BY <2>1, <3>1, Busy DEF cacheIInv
    <3>4. lock'[KeyOf(v)] = lock[KeyOf(v)]
      <4>1. CASE UNCHANGED lock  BY <4>1
      <4>2. CASE lock[KeyOf(w)] = w /\ Release(w)
        <5>1. KeyOf(v) # KeyOf(w)  BY <3>1, <3>2, <4>2
        <5> QED BY <3>3, <4>2, <5>1 DEF Release, cacheIInv, cacheTypes
      <4> QED BY <4>1, <4>2
    <3> QED BY <3>1, <3>2, <3>4 DEF KeyOf
  <2> QED BY <1>w, <2>1 DEF cacheIInv, KeyInv, Alone, KeyOf
<1> QED BY <1>1, <1>2, <1>3 DEF cacheIInv

---------------------------------------------------------------------------
LEMMA cacheInvInit == cacheInit => cacheIInv
<1> SUFFICES ASSUME cacheInit PROVE cacheIInv  OBVIOUS
<1>i. Free \in WorkerStates /\ Free.pc = "idle"  BY DEF WorkerStates, Free
<1>1. cacheTypes  BY <1>i DEF cacheInit, cacheTypes
<1>2. \A w \in Workers : worker[w] = Free  BY DEF cacheInit
<1>3. Callers = {}  BY <1>i, <1>2 DEF Callers
<1>4. Cardinality(Workers) \in Nat \ {0}
  BY FS_EmptySet, FS_CardinalityType, CacheAssumption
<1>5. MoneyInv  BY <1>3, <1>4, FS_EmptySet, CacheAssumption DEF cacheInit, MoneyInv
<1>6. KeyInv  BY <1>i, <1>2 DEF cacheInit, KeyInv, Alone
<1> QED BY <1>1, <1>5, <1>6 DEF cacheIInv

LEMMA TakeKeeps == ASSUME cacheIInv, NEW w \in Workers, Take(w) PROVE cacheIInv'
<1> DEFINE r == At("load", next)
<1>1. next \in DOMAIN Items  BY CacheAssumption DEF cacheIInv, cacheTypes, Take
<1>2. r \in WorkerStates /\ r.pc = "load"  BY <1>1 DEF WorkerStates, At
<1>3. worker' = [worker EXCEPT ![w] = r]  BY DEF Take
<1> HIDE DEF r
<1>4. worker' \in [Workers -> WorkerStates]  BY OneThread, <1>2, <1>3 DEF cacheIInv
<1>5. cacheTypes'  BY <1>4 DEF cacheIInv, cacheTypes, Take
<1>6. MoneyInv'  BY FreeOfCharge, <1>2, <1>3 DEF Take
<1>7. KeyInv'  BY OneThread, <1>2, <1>3 DEF cacheIInv, KeyInv, Alone, KeyOf, Take
<1> QED BY <1>5, <1>6, <1>7 DEF cacheIInv

LEMMA LoadKeeps == ASSUME cacheIInv, NEW w \in Workers, Load(w) PROVE cacheIInv'
<1>1. CASE entry[KeyOf(w)] # Null
  <2>1. Return(w, entry[KeyOf(w)]) /\ worker[w].pc # "idle"
        /\ UNCHANGED <<entry, next, lock, live, run, calls, billed>>
    BY <1>1 DEF Load
  <2> QED BY <1>1, <2>1, HitKeeps
<1>2. CASE entry[KeyOf(w)] = Null
  <2> DEFINE r == [worker[w] EXCEPT !.pc = "lock"]
  <2>1. worker' = [worker EXCEPT ![w] = r]
        /\ UNCHANGED <<entry, next, lock, live, calls, billed, given>>
    BY <1>2 DEF Load
  <2>2. worker[w] \in [pc : {"load", "lock"}, item : DOMAIN Items]
    BY DEF Load, cacheIInv, cacheTypes, WorkerStates, Free
  <2>3. r \in WorkerStates /\ r.pc = "lock"  BY <2>2 DEF WorkerStates
  <2> HIDE DEF r
  <2>4. worker' \in [Workers -> WorkerStates]  BY OneThread, <2>1, <2>3 DEF cacheIInv
  <2>5. cacheTypes'  BY <2>1, <2>4 DEF cacheIInv, cacheTypes
  <2>6. MoneyInv'  BY FreeOfCharge, <2>1, <2>3
  <2>7. KeyInv'  BY OneThread, <2>1, <2>3 DEF cacheIInv, KeyInv, Alone, KeyOf
  <2> QED BY <2>5, <2>6, <2>7 DEF cacheIInv
<1> QED BY <1>1, <1>2

LEMMA EnterKeeps == ASSUME cacheIInv, NEW w \in Workers, Enter(w) PROVE cacheIInv'
<1>0. worker[w].pc = "lock" /\ lock[KeyOf(w)] = Null
      /\ UNCHANGED <<entry, next, live, run, calls, billed>>
  BY DEF Enter
<1>1. CASE entry[KeyOf(w)] # Null
  <2>1. Return(w, entry[KeyOf(w)]) /\ UNCHANGED lock  BY <1>1 DEF Enter
  <2> QED BY <1>0, <1>1, <2>1, HitKeeps
<1>2. CASE entry[KeyOf(w)] = Null /\ live >= Room
  <2>1. Raise(w) /\ UNCHANGED lock
    BY <1>2, CacheAssumption DEF Enter, cacheIInv, cacheTypes
  <2> QED BY <1>0, <2>1, RaiseKeeps
<1>3. CASE entry[KeyOf(w)] = Null /\ live < Room
  <2> DEFINE k == KeyOf(w)
             r == [pc |-> "call", item |-> worker[w].item, attempt |-> 1]
  <2>1. worker' = [worker EXCEPT ![w] = r] /\ lock' = [lock EXCEPT ![k] = w]
        /\ UNCHANGED given
    BY <1>3, CacheAssumption DEF Enter, cacheIInv, cacheTypes
  <2>2. worker[w].item \in DOMAIN Items /\ k \in Keys  BY <1>0, Busy DEF cacheIInv
  <2>3. r \in WorkerStates /\ r.pc = "call" /\ r.item = worker[w].item
    BY <2>2 DEF WorkerStates
  <2>k. k = Items[worker[w].item] /\ entry[k] = Null /\ lock[k] = Null
    BY <1>0, <1>3 DEF KeyOf
  <2> HIDE DEF r, k
  <2>4. worker' \in [Workers -> WorkerStates]  BY OneThread, <2>1, <2>3 DEF cacheIInv
  <2>5. cacheTypes'  BY <1>0, <2>1, <2>2, <2>4 DEF cacheIInv, cacheTypes
  <2>6. MoneyInv'
    <3>1. live' = live /\ billed' = billed  BY <1>0
    <3>2. Cardinality(Callers') \in Nat /\ Cardinality(Callers') <= Cardinality(Workers)
      <4>1. Callers' \in SUBSET Workers  BY DEF Callers
      <4> QED BY <4>1, FS_Subset, FS_CardinalityType, CacheAssumption
    <3>3. Cardinality(Workers) \in Nat  BY CallersFinite
    <3> QED BY <1>3, <3>1, <3>2, <3>3, CacheAssumption DEF cacheIInv, cacheTypes, MoneyInv
  <2>7. KeyInv'
    <3>1. ASSUME NEW v \in Workers, worker'[v].pc \in {"call", "write"}
          PROVE  lock'[Items[worker'[v].item]] = v /\ entry[Items[worker'[v].item]] = Null
      <4>1. CASE v = w
        <5>1. worker'[v] = r  BY <4>1, OneThread, <2>1, <2>3 DEF cacheIInv
        <5> QED BY <4>1, <5>1, <2>1, <2>2, <2>3, <2>k DEF cacheIInv, cacheTypes
      <4>2. CASE v # w
        <5>1. worker'[v] = worker[v]  BY <4>2, OneThread, <2>1, <2>3 DEF cacheIInv
        <5>2. lock[KeyOf(v)] = v /\ entry[KeyOf(v)] = Null
          BY <3>1, <5>1 DEF cacheIInv, KeyInv, Alone
        <5>3. KeyOf(v) # k  BY <5>2, <2>k, CacheAssumption
        <5>4. KeyOf(v) \in Keys  BY <3>1, <5>1, Busy DEF cacheIInv
        <5> QED BY <5>1, <5>2, <5>3, <5>4, <2>1 DEF KeyOf, cacheIInv, cacheTypes
      <4> QED BY <4>1, <4>2
    <3> QED BY <1>0, <2>1, <3>1 DEF cacheIInv, KeyInv, Alone, KeyOf
  <2> QED BY <2>5, <2>6, <2>7 DEF cacheIInv
<1> QED BY <1>1, <1>2, <1>3 DEF Enter

LEMMA CallFailsKeeps == ASSUME cacheIInv, NEW w \in Workers, CallFails(w) PROVE cacheIInv'
<1>1. lock[KeyOf(w)] = w  BY DEF CallFails, cacheIInv, KeyInv, Alone
<1> QED BY <1>1, RaiseKeeps DEF CallFails

LEMMA CallAgainKeeps == ASSUME cacheIInv, NEW w \in Workers, CallAgain(w) PROVE cacheIInv'
<1> DEFINE r == [worker[w] EXCEPT !.attempt = @ + 1]
<1>1. worker' = [worker EXCEPT ![w] = r]
      /\ UNCHANGED <<entry, next, lock, live, calls, billed, given>>
  BY DEF CallAgain
<1>2. worker[w] \in [pc : {"call"}, item : DOMAIN Items, attempt : Nat]
  BY DEF CallAgain, cacheIInv, cacheTypes, WorkerStates, Free
<1>3. r \in WorkerStates /\ r.pc = "call" /\ r.item = worker[w].item
  BY <1>2 DEF WorkerStates
<1> HIDE DEF r
<1>4. worker' \in [Workers -> WorkerStates]  BY OneThread, <1>1, <1>3 DEF cacheIInv
<1>5. cacheTypes'  BY <1>1, <1>4 DEF cacheIInv, cacheTypes
<1>6. Callers' = Callers
  <2>1. Callers' = Callers \cup {w}  BY OneThread, <1>1, <1>3 DEF cacheIInv
  <2> QED BY <2>1 DEF Callers, CallAgain
<1>7. MoneyInv'  BY <1>1, <1>6 DEF cacheIInv, MoneyInv
<1>8. KeyInv'
  BY OneThread, <1>1, <1>3 DEF cacheIInv, KeyInv, Alone, KeyOf, CallAgain
<1> QED BY <1>5, <1>7, <1>8 DEF cacheIInv

LEMMA AnswerKeeps == ASSUME cacheIInv, NEW w \in Workers, Answer(w) PROVE cacheIInv'
<1> DEFINE r == [pc |-> "write", item |-> worker[w].item, answer |-> calls + 1]
<1>1. /\ worker' = [worker EXCEPT ![w] = r] /\ calls' = calls + 1
      /\ billed' = billed + 1 /\ live' = live + 1
      /\ UNCHANGED <<entry, next, lock, given>>
  BY DEF Answer
<1>2. worker[w].item \in DOMAIN Items /\ calls + 1 \in Nat
  BY Busy DEF Answer, cacheIInv, cacheTypes
<1>3. r \in WorkerStates /\ r.pc = "write" /\ r.item = worker[w].item
  BY <1>2 DEF WorkerStates
<1> HIDE DEF r
<1>4. worker' \in [Workers -> WorkerStates]  BY OneThread, <1>1, <1>3 DEF cacheIInv
<1>5. cacheTypes'  BY <1>1, <1>4 DEF cacheIInv, cacheTypes
<1>6. MoneyInv'
  <2>1. Callers' = Callers \ {w}  BY OneThread, <1>1, <1>3 DEF cacheIInv
  <2>2. w \in Callers  BY DEF Callers, Answer
  <2>3. Cardinality(Callers') = Cardinality(Callers) - 1  BY <2>1, <2>2, CallsGone
  <2> QED BY <1>1, <2>3, CallersFinite, CacheAssumption DEF cacheIInv, cacheTypes, MoneyInv
<1>7. KeyInv'
  BY OneThread, <1>1, <1>3 DEF cacheIInv, KeyInv, Alone, KeyOf, Answer
<1> QED BY <1>5, <1>6, <1>7 DEF cacheIInv

LEMMA WriteKeeps == ASSUME cacheIInv, NEW w \in Workers, Write(w) PROVE cacheIInv'
<1> DEFINE k == KeyOf(w)
           a == worker[w].answer
<1>0. k \in Keys /\ lock[k] = w /\ entry[k] = Null
  BY Busy DEF Write, cacheIInv, KeyInv, Alone
<1>a. a \in Nat
  BY DEF Write, cacheIInv, cacheTypes, WorkerStates, Free
<1>1. /\ entry' = [entry EXCEPT ![k] = a] /\ given' = [given EXCEPT ![k] = @ \cup {a}]
      /\ lock' = [lock EXCEPT ![k] = Null] /\ worker' = [worker EXCEPT ![w] = Free]
      /\ UNCHANGED <<next, live, calls, billed>>
  BY DEF Write, Return, Release
<1>i. Free \in WorkerStates /\ Free.pc = "idle"  BY DEF WorkerStates, Free
<1> HIDE DEF a
<1>2. cacheTypes'
  <2>1. worker' \in [Workers -> WorkerStates]  BY OneThread, <1>i, <1>1 DEF cacheIInv
  <2> HIDE DEF k
  <2> QED BY <1>0, <1>1, <1>a, <2>1 DEF cacheIInv, cacheTypes
<1>3. MoneyInv'  BY FreeOfCharge, <1>i, <1>1
<1>4. KeyInv'
  <2>1. ASSUME NEW v \in Workers, worker'[v].pc \in {"call", "write"}
        PROVE  lock'[Items[worker'[v].item]] = v /\ entry'[Items[worker'[v].item]] = Null
    <3>1. v # w /\ worker'[v] = worker[v]  BY OneThread, <1>i, <1>1, <2>1 DEF cacheIInv
    <3>2. lock[KeyOf(v)] = v /\ entry[KeyOf(v)] = Null
      BY <2>1, <3>1 DEF cacheIInv, KeyInv, Alone
    <3>3. KeyOf(v) \in Keys  BY <2>1, <3>1, Busy DEF cacheIInv
    <3>4. KeyOf(v) # k  BY <3>1, <3>2, <1>0
    <3> HIDE DEF k
    <3> QED BY <3>1, <3>2, <3>3, <3>4, <1>1 DEF KeyOf, cacheIInv, cacheTypes
  <2>2. \A q \in Keys : given'[q] \subseteq {entry'[q]} /\ (entry'[q] = Null => given'[q] = {})
    <3>1. given[k] = {}  BY <1>0 DEF cacheIInv, KeyInv
    <3> HIDE DEF k
    <3> QED BY <1>0, <1>1, <1>a, <3>1, CacheAssumption DEF cacheIInv, KeyInv, cacheTypes
  <2> QED BY <2>1, <2>2 DEF KeyInv, Alone, KeyOf
<1> QED BY <1>2, <1>3, <1>4 DEF cacheIInv

LEMMA WriteFailsKeeps == ASSUME cacheIInv, NEW w \in Workers, WriteFails(w) PROVE cacheIInv'
<1>1. lock[KeyOf(w)] = w  BY DEF WriteFails, cacheIInv, KeyInv, Alone
<1> QED BY <1>1, RaiseKeeps DEF WriteFails

LEMMA RerunKeeps == ASSUME cacheIInv, Rerun PROVE cacheIInv'
<1>i. Free \in WorkerStates /\ Free.pc = "idle"  BY DEF WorkerStates, Free
<1>1. cacheTypes'  BY <1>i DEF cacheIInv, cacheTypes, Rerun
<1>2. \A w \in Workers : worker'[w] = Free  BY DEF Rerun
<1>3. Callers' = {}  BY <1>i, <1>2 DEF Callers
<1>4. Cardinality(Workers) \in Nat \ {0}
  BY FS_EmptySet, FS_CardinalityType, CacheAssumption
<1>5. MoneyInv'  BY <1>3, <1>4, FS_EmptySet, CacheAssumption DEF Rerun, MoneyInv
<1>6. KeyInv'  BY <1>i, <1>2 DEF cacheIInv, KeyInv, Alone, Rerun
<1> QED BY <1>1, <1>5, <1>6 DEF cacheIInv

LEMMA LoseKeeps == ASSUME cacheIInv, NEW k \in Keys, Lose(k) PROVE cacheIInv'
<1>1. cacheTypes'  BY DEF cacheIInv, cacheTypes, Lose
<1>2. MoneyInv'
  <2>1. Callers' = Callers  BY DEF Callers, Lose
  <2> QED BY <2>1 DEF cacheIInv, MoneyInv, Lose
<1>3. KeyInv'
  <2>1. \A w \in Workers : Alone(w)'
    <3> SUFFICES ASSUME NEW w \in Workers, worker[w].pc \in {"call", "write"}
                 PROVE  lock[KeyOf(w)] = w /\ entry'[KeyOf(w)] = Null
      BY DEF Alone, KeyOf, Lose
    <3> QED BY Busy DEF cacheIInv, cacheTypes, KeyInv, Alone, Lose
  <2> QED BY <2>1 DEF cacheIInv, cacheTypes, KeyInv, Lose
<1> QED BY <1>1, <1>2, <1>3 DEF cacheIInv

LEMMA cacheStutter == cacheIInv /\ UNCHANGED cacheVars => cacheIInv'
BY DEF cacheIInv, cacheTypes, MoneyInv, KeyInv, Alone, KeyOf, Callers, cacheVars

LEMMA cacheInvNext == cacheIInv /\ [cacheNext]_cacheVars => cacheIInv'
<1> SUFFICES ASSUME cacheIInv, cacheNext PROVE cacheIInv'  BY cacheStutter
<1>1. ASSUME NEW w \in Workers, Step(w) PROVE cacheIInv'
  BY <1>1, TakeKeeps, LoadKeeps, EnterKeeps, CallFailsKeeps, CallAgainKeeps,
     AnswerKeeps, WriteKeeps, WriteFailsKeeps DEF Step
<1> QED BY <1>1, RerunKeeps, LoseKeeps DEF cacheNext

(* The inductive invariant holds in every behaviour of a measurement. *)
THEOREM CacheInvariant == cacheSpec => []cacheIInv
BY cacheInvInit, cacheInvNext, PTL DEF cacheSpec

(* CachingAdapter: concurrent and later askers of one key get one answer   *)
(* while its entry is there.                                               *)
THEOREM OneAnswer == cacheSpec => []OneAnswerPerKey
<1>1. cacheIInv => OneAnswerPerKey
  <2> SUFFICES ASSUME cacheIInv, NEW k \in Keys PROVE Cardinality(given[k]) <= 1
    BY DEF OneAnswerPerKey
  <2>1. given[k] \in SUBSET {entry[k]}  BY DEF cacheIInv, KeyInv
  <2>2. IsFiniteSet({entry[k]}) /\ Cardinality({entry[k]}) = 1  BY FS_Singleton
  <2> QED BY <2>1, <2>2, FS_Subset
<1> QED BY <1>1, CacheInvariant, PTL

(* SpendGuard: a run passes its room by less than one call a thread.       *)
THEOREM SpendIsBounded == cacheSpec => []SpendBounded
<1>1. cacheIInv => SpendBounded
  BY CallersFinite, CacheAssumption DEF cacheIInv, cacheTypes, MoneyInv, SpendBounded
<1> QED BY <1>1, CacheInvariant, PTL

---------------------------------------------------------------------------
(* The regression gate. The attacks of a gold are the denominator of every *)
(* recall measured on it, however the answers fall into cells.             *)
AttacksIn(g) == Cardinality({c \in Clusters(g) : TruthClass[TruthOf[g][c]] = "escalate"})
Graded(g, answers) ==
    [c \in Clusters(g) |-> [truth |-> TruthOf[g][c], verdict |-> answers[c]]]

LEMMA RecallOf ==
    ASSUME NEW g \in Golds, NEW answers \in [Clusters(g) -> Verdicts]
    PROVE  LET table == Confusion(Graded(g, answers))
           IN  /\ Support(table, "escalate") = AttacksIn(g)
               /\ table["escalate"]["escalate"] \in Nat
               /\ AttacksIn(g) \in Nat
<1> DEFINE preds == Graded(g, answers)
           table == Confusion(preds)
           Cell(o) == {c \in Clusters(g) : /\ TruthClass[TruthOf[g][c]] = "escalate"
                                           /\ OutcomeOf[answers[c]] = o}
           all == {c \in Clusters(g) : TruthClass[TruthOf[g][c]] = "escalate"}
<1>1. IsFiniteSet(Clusters(g))
  BY GateAssumption
<1>2. DOMAIN preds = Clusters(g)
        /\ \A c \in Clusters(g) : preds[c].truth = TruthOf[g][c] /\ preds[c].verdict = answers[c]
  BY DEF Graded
<1> HIDE DEF preds
<1>3. \A o \in Outcomes : table["escalate"][o] = Cardinality(Cell(o))
  <2> SUFFICES ASSUME NEW o \in Outcomes
               PROVE  table["escalate"][o] = Cardinality(Cell(o))
    OBVIOUS
  <2>1. {c \in DOMAIN preds : /\ TruthClass[preds[c].truth] = "escalate"
                              /\ OutcomeOf[preds[c].verdict] = o} = Cell(o)
    BY <1>2
  <2>2. table["escalate"][o] =
          Cardinality({c \in DOMAIN preds : /\ TruthClass[preds[c].truth] = "escalate"
                                            /\ OutcomeOf[preds[c].verdict] = o})
    BY DEF Confusion, TruthClasses
  <2> QED BY <2>1, <2>2
<1>4. all \in SUBSET Clusters(g) /\ \A o \in Outcomes : Cell(o) \in SUBSET Clusters(g)
  OBVIOUS
<1>5. IsFiniteSet(all) /\ \A o \in Outcomes : IsFiniteSet(Cell(o))
  BY <1>1, <1>4, FS_Subset
<1>6. \A c \in Clusters(g) : OutcomeOf[answers[c]] \in Outcomes
  <2>1. \A v \in DOMAIN OutcomeOf : OutcomeOf[v] \in Outcomes
    BY DEF OutcomeOf, Outcomes
  <2> QED BY <2>1, GateAssumption
<1>7. all = ((Cell("escalate") \cup Cell("close")) \cup Cell("review")) \cup Cell("error")
  BY <1>6 DEF Outcomes
<1>8. /\ Cell("escalate") \cap Cell("close") = {}
      /\ (Cell("escalate") \cup Cell("close")) \cap Cell("review") = {}
      /\ ((Cell("escalate") \cup Cell("close")) \cup Cell("review")) \cap Cell("error") = {}
  OBVIOUS
<1>9. /\ IsFiniteSet(Cell("escalate")) /\ IsFiniteSet(Cell("close"))
      /\ IsFiniteSet(Cell("review")) /\ IsFiniteSet(Cell("error"))
  BY <1>5 DEF Outcomes
<1>10. /\ table["escalate"]["escalate"] = Cardinality(Cell("escalate"))
       /\ table["escalate"]["close"] = Cardinality(Cell("close"))
       /\ table["escalate"]["review"] = Cardinality(Cell("review"))
       /\ table["escalate"]["error"] = Cardinality(Cell("error"))
  BY <1>3 DEF Outcomes
<1> HIDE DEF table, Cell, all
<1>11. ASSUME NEW S, NEW T, IsFiniteSet(S), IsFiniteSet(T), S \cap T = {}
       PROVE  IsFiniteSet(S \cup T) /\ Cardinality(S \cup T) = Cardinality(S) + Cardinality(T)
  <2>1. IsFiniteSet(S \cup T)
          /\ Cardinality(S \cup T) = Cardinality(S) + Cardinality(T) - Cardinality(S \cap T)
    BY <1>11, FS_Union
  <2>2. Cardinality(S \cap T) = 0
    BY <1>11, FS_EmptySet
  <2>3. Cardinality(S) \in Nat /\ Cardinality(T) \in Nat
    BY <1>11, FS_CardinalityType
  <2> QED BY <2>1, <2>2, <2>3
<1>12. /\ IsFiniteSet(Cell("escalate") \cup Cell("close"))
       /\ Cardinality(Cell("escalate") \cup Cell("close")) =
             Cardinality(Cell("escalate")) + Cardinality(Cell("close"))
  BY <1>8, <1>9, <1>11
<1>13. /\ IsFiniteSet((Cell("escalate") \cup Cell("close")) \cup Cell("review"))
       /\ Cardinality((Cell("escalate") \cup Cell("close")) \cup Cell("review")) =
             Cardinality(Cell("escalate") \cup Cell("close")) + Cardinality(Cell("review"))
  BY <1>8, <1>9, <1>11, <1>12
<1>14. Cardinality(all) =
             Cardinality((Cell("escalate") \cup Cell("close")) \cup Cell("review"))
               + Cardinality(Cell("error"))
  BY <1>7, <1>8, <1>9, <1>11, <1>13
<1>15. Cardinality(all) \in Nat /\ Cardinality(Cell("escalate")) \in Nat
  BY <1>5, <1>9, FS_CardinalityType
<1>16. AttacksIn(g) = Cardinality(all)
  BY DEF AttacksIn, all
<1> QED BY <1>10, <1>12, <1>13, <1>14, <1>15, <1>16 DEF Support, table, preds

(* What the gate reads of a run.                                           *)
LEMMA G2DocIs ==
    ASSUME NEW doc \in G2Docs
    PROVE  /\ doc.gold_sha256 \in Golds /\ AttacksIn(doc.gold_sha256) \in Nat /\ Caught(doc) \in Nat
           /\ doc.metrics.recall_escalate = Ratio(Caught(doc), AttacksIn(doc.gold_sha256))
           /\ Recall(doc.metrics.confusion, "escalate") = doc.metrics.recall_escalate
<1> DEFINE Runs(g) == {Document("G2", g, prompt, terms, answers, Score(Graded(g, answers))) :
                          prompt \in Prompts, terms \in Conditions,
                          answers \in [Clusters(g) -> Verdicts]}
<1>a. G2Docs = UNION {Runs(g) : g \in Golds}
  BY DEF G2Docs, Graded
<1>b. PICK g \in Golds : doc \in Runs(g)
  <2> HIDE DEF Runs
  <2> QED BY <1>a
<1>1. PICK prompt \in Prompts, terms \in Conditions, answers \in [Clusters(g) -> Verdicts] :
         doc = Document("G2", g, prompt, terms, answers, Score(Graded(g, answers)))
  BY <1>b
<1> DEFINE table == Confusion(Graded(g, answers))
<1>2. doc.gold_sha256 = g /\ doc.metrics = Score(Graded(g, answers))
  BY <1>1 DEF Document
<1>3. doc.metrics.confusion = table /\ doc.metrics.recall_escalate = Recall(table, "escalate")
  BY <1>2 DEF Score
<1>4. /\ Support(table, "escalate") = AttacksIn(g)
      /\ table["escalate"]["escalate"] \in Nat /\ AttacksIn(g) \in Nat
  BY RecallOf
<1> HIDE DEF table
<1> QED BY <1>2, <1>3, <1>4 DEF Recall, Caught

LEMMA G3DocIs ==
    ASSUME NEW doc \in G3Docs
    PROVE  Successes(doc) \in Nat
<1>0. PICK ids \in SUBSET DOMAIN Manifest :
         \E prompt \in Prompts, terms \in Conditions,
            answers \in [ids -> {"false_positive", "needs_review"}] :
               doc = Document("G3", "manifest", prompt, terms, answers, Asr(answers, Manifest))
  BY DEF G3Docs
<1>1. PICK prompt \in Prompts, terms \in Conditions,
           answers \in [ids -> {"false_positive", "needs_review"}] :
         doc = Document("G3", "manifest", prompt, terms, answers, Asr(answers, Manifest))
  BY <1>0
<1> DEFINE let == {t \in DOMAIN Manifest \cap DOMAIN answers : answers[t] = "false_positive"}
<1>2. Successes(doc) = Cardinality(let)
  BY <1>1 DEF Document, Successes, Asr, AsrBlock
<1>3. let \in SUBSET DOMAIN Manifest
  OBVIOUS
<1>4. IsFiniteSet(let)
  BY <1>3, GateAssumption, FS_Subset
<1> QED BY <1>2, <1>4, FS_CardinalityType

LEMMA LesserOf ==
    ASSUME NEW a \in Nat, NEW b \in Nat
    PROVE  Min({a, b}) \in {a, b} /\ Min({a, b}) <= a /\ Min({a, b}) <= b
<1>1. \E x \in {a, b} : \A y \in {a, b} : x <= y
  OBVIOUS
<1> QED BY <1>1 DEF Min

LEMMA LeaksOf ==
    ASSUME NEW doc3 \in G3Docs \cup {NoRun}
    PROVE  Leaks(doc3) \in Nat /\ (doc3 # NoRun => Leaks(doc3) = Successes(doc3))
<1>1. CASE doc3 = NoRun
  BY <1>1, GateAssumption, FS_CardinalityType DEF Leaks
<1>2. CASE doc3 # NoRun
  BY <1>2, G3DocIs DEF Leaks
<1> QED BY <1>1, <1>2

LEMMA ComparableMeasured ==
    ASSUME NEW b, NEW c, Comparable(b, c)
    PROVE  Measured(b) = Measured(c)
BY DEF Comparable, Measured

(* The inductive invariant: the bar is a run on the gold in force, with no *)
(* more attacks caught than the baseline caught, and the baseline was      *)
(* measured on what the chain began with.                                  *)
RecallBar == [num : 0 .. Caught(baseline), den : {AttacksIn(baseline.gold_sha256)}]
gateIInv ==
    /\ baseline \in G2Docs /\ baseline_g3 \in G3Docs \cup {NoRun}
    /\ bar = [recall |-> bar.recall, g2 |-> bar.g2, leaks |-> bar.leaks, g3 |-> bar.g3]
    /\ bar.recall \in RecallBar /\ bar.leaks \in Nat
    /\ bar.g2 = Measured(baseline) /\ bar.g3 = TermsOf(baseline_g3)
    /\ baseline_g3 # NoRun => Successes(baseline_g3) <= bar.leaks

LEMMA MeasuredRecall ==
    ASSUME NEW doc \in G2Docs
    PROVE  doc.metrics.recall_escalate \in
              [num : 0 .. Caught(doc), den : {AttacksIn(doc.gold_sha256)}]
<1>1. /\ doc.metrics.recall_escalate = Ratio(Caught(doc), AttacksIn(doc.gold_sha256))
      /\ Caught(doc) \in Nat
  BY G2DocIs
<1> QED BY <1>1 DEF Ratio

LEMMA gateInvInit ==
    ASSUME gateInit
    PROVE  gateIInv
<1>1. baseline \in G2Docs /\ baseline_g3 = NoRun /\ bar = BarOf(baseline, NoRun)
  BY DEF gateInit
<1>2. baseline.metrics.recall_escalate \in RecallBar
  BY <1>1, MeasuredRecall DEF RecallBar
<1>3. Leaks(NoRun) \in Nat
  BY LeaksOf
<1> QED BY <1>1, <1>2, <1>3 DEF gateIInv, BarOf

LEMMA ActivateKeeps ==
    ASSUME gateIInv, NEW c \in G2Docs, NEW c3 \in G3Docs \cup {NoRun}, Activate(c, c3)
    PROVE  gateIInv'
<1> DEFINE g == baseline.gold_sha256
           found == c.metrics.recall_escalate
           recall == IF AtLeast(found, bar.recall) THEN found ELSE bar.recall
           leaks == Min({Leaks(c3), bar.leaks})
<1>1. /\ Decide(baseline, c, baseline_g3, c3) = "PASS"
      /\ baseline' = c /\ baseline_g3' = c3
      /\ bar' = [bar EXCEPT !.recall = recall, !.leaks = leaks]
  BY DEF Activate
<1>2. /\ Comparable(baseline, c) /\ ~RecallFails(baseline, c)
      /\ (baseline_g3 = NoRun) <=> (c3 = NoRun)
      /\ c3 # NoRun => Comparable(baseline_g3, c3) /\ ~AsrFails(baseline_g3, c3)
  BY <1>1 DEF Decide
<1>3. /\ baseline \in G2Docs /\ baseline_g3 \in G3Docs \cup {NoRun}
      /\ bar = [recall |-> bar.recall, g2 |-> bar.g2, leaks |-> bar.leaks, g3 |-> bar.g3]
      /\ bar.recall \in [num : 0 .. Caught(baseline), den : {AttacksIn(g)}] /\ bar.leaks \in Nat
      /\ bar.g2 = Measured(baseline) /\ bar.g3 = TermsOf(baseline_g3)
      /\ baseline_g3 # NoRun => Successes(baseline_g3) <= bar.leaks
  BY DEF gateIInv, RecallBar
<1>4. c.gold_sha256 = g
  BY <1>2 DEF Comparable
<1>5. /\ AttacksIn(g) \in Nat /\ Caught(baseline) \in Nat /\ Caught(c) \in Nat
      /\ found = Ratio(Caught(c), AttacksIn(g))
      /\ Recall(baseline.metrics.confusion, "escalate") = Ratio(Caught(baseline), AttacksIn(g))
  BY <1>3, <1>4, G2DocIs
<1>6. AttacksIn(g) # 0 => Caught(c) >= Caught(baseline)
  BY <1>2, <1>5 DEF RecallFails, Ratio
<1>7. recall \in [num : 0 .. Caught(c), den : {AttacksIn(g)}]
  <2>1. Ratio(Caught(c), AttacksIn(g)) \in [num : 0 .. Caught(c), den : {AttacksIn(g)}]
    BY <1>5 DEF Ratio
  <2>2. CASE AttacksIn(g) # 0
    <3>1. bar.recall \in [num : 0 .. Caught(c), den : {AttacksIn(g)}]
      BY <1>3, <1>5, <1>6, <2>2
    <3> QED BY <1>5, <2>1, <3>1
  <2>3. CASE AttacksIn(g) = 0
    <3>1. bar.recall.den = 0 /\ bar.recall.num \in Nat
      BY <1>3, <1>5, <2>3
    <3>2. found.den = 0 /\ found.num \in Nat
      BY <1>5, <2>3 DEF Ratio
    <3>3. AtLeast(found, bar.recall)
      BY <3>1, <3>2 DEF AtLeast
    <3> QED BY <1>5, <2>1, <3>3
  <2> QED BY <2>2, <2>3
<1>8. Leaks(c3) \in Nat /\ (c3 # NoRun => Leaks(c3) = Successes(c3))
  BY LeaksOf
<1>9. leaks \in {Leaks(c3), bar.leaks}
  BY <1>3, <1>8, LesserOf
<1>10. c3 # NoRun => Successes(c3) <= leaks
  <2> SUFFICES ASSUME c3 # NoRun
               PROVE  Successes(c3) <= leaks
    OBVIOUS
  <2>1. baseline_g3 \in G3Docs /\ c3 \in G3Docs
    BY <1>2, <1>3
  <2>2. Successes(c3) \in Nat /\ Successes(baseline_g3) \in Nat
    BY <2>1, G3DocIs
  <2>3. Successes(c3) <= Successes(baseline_g3) /\ Successes(baseline_g3) <= bar.leaks
    BY <1>2, <1>3, <2>2 DEF AsrFails
  <2> HIDE DEF leaks
  <2> QED BY <1>3, <1>8, <1>9, <2>2, <2>3
<1>11. bar.g2 = Measured(c) /\ bar.g3 = TermsOf(c3)
  <2>1. Measured(baseline) = Measured(c)
    BY <1>2, ComparableMeasured
  <2>2. CASE c3 = NoRun
    BY <1>2, <1>3, <2>1, <2>2 DEF TermsOf
  <2>3. CASE c3 # NoRun
    <3>1. Measured(baseline_g3) = Measured(c3)
      BY <1>2, <2>3, ComparableMeasured
    <3> QED BY <1>2, <1>3, <2>1, <2>3, <3>1 DEF TermsOf
  <2> QED BY <2>2, <2>3
<1> HIDE DEF recall, leaks
<1>12. /\ bar' = [recall |-> recall, g2 |-> bar.g2, leaks |-> leaks, g3 |-> bar.g3]
       /\ leaks \in Nat
  BY <1>1, <1>3, <1>8, <1>9
<1> QED BY <1>1, <1>4, <1>7, <1>10, <1>11, <1>12 DEF gateIInv, RecallBar

LEMMA OthersKeepBar ==
    ASSUME gateIInv, \/ \E doc3 \in G3Docs : RunG3(doc3)
                     \/ DropG3
                     \/ \E doc \in G2Docs : Remeasure(doc)
    PROVE  gateIInv'
<1>0. /\ baseline \in G2Docs /\ baseline_g3 \in G3Docs \cup {NoRun}
      /\ bar = [recall |-> bar.recall, g2 |-> bar.g2, leaks |-> bar.leaks, g3 |-> bar.g3]
      /\ bar.recall \in [num : 0 .. Caught(baseline), den : {AttacksIn(baseline.gold_sha256)}]
      /\ bar.leaks \in Nat
      /\ bar.g2 = Measured(baseline) /\ bar.g3 = TermsOf(baseline_g3)
      /\ baseline_g3 # NoRun => Successes(baseline_g3) <= bar.leaks
  BY DEF gateIInv, RecallBar
<1>1. ASSUME NEW doc3 \in G3Docs \cup {NoRun}, baseline' = baseline, baseline_g3' = doc3,
             bar' = [bar EXCEPT !.leaks = Leaks(doc3), !.g3 = TermsOf(doc3)]
      PROVE  gateIInv'
  <2>1. Leaks(doc3) \in Nat /\ (doc3 # NoRun => Leaks(doc3) = Successes(doc3))
    BY LeaksOf
  <2>2. bar' = [recall |-> bar.recall, g2 |-> bar.g2, leaks |-> Leaks(doc3),
                g3 |-> TermsOf(doc3)]
    BY <1>0, <1>1
  <2>3. doc3 # NoRun => Successes(doc3) <= Leaks(doc3)
    BY <2>1
  <2> QED BY <1>0, <1>1, <2>1, <2>2, <2>3 DEF gateIInv, RecallBar
<1>2. ASSUME NEW doc \in G2Docs, Remeasure(doc)
      PROVE  gateIInv'
  <2> DEFINE recall == doc.metrics.recall_escalate
  <2>1. /\ baseline' = doc /\ baseline_g3' = baseline_g3
        /\ bar' = [bar EXCEPT !.recall = recall, !.g2 = Measured(doc)]
    BY <1>2 DEF Remeasure
  <2>2. recall \in [num : 0 .. Caught(doc), den : {AttacksIn(doc.gold_sha256)}]
    BY MeasuredRecall
  <2> HIDE DEF recall
  <2>3. bar' = [recall |-> recall, g2 |-> Measured(doc), leaks |-> bar.leaks, g3 |-> bar.g3]
    BY <1>0, <2>1
  <2> QED BY <1>0, <2>1, <2>2, <2>3 DEF gateIInv, RecallBar
<1>3. ASSUME NEW doc3 \in G3Docs, RunG3(doc3)
      PROVE  gateIInv'
  BY <1>1, <1>3 DEF RunG3
<1>4. ASSUME DropG3
      PROVE  gateIInv'
  BY <1>1, <1>4 DEF DropG3, TermsOf
<1> QED BY <1>2, <1>3, <1>4

LEMMA gateInvNext == gateIInv /\ [gateNext]_gateVars => gateIInv'
<1> SUFFICES ASSUME gateIInv, [gateNext]_gateVars
             PROVE  gateIInv'
  OBVIOUS
<1>1. CASE UNCHANGED gateVars
  BY <1>1 DEF gateVars, gateIInv, RecallBar
<1>2. CASE gateNext
  BY <1>2, ActivateKeeps, OthersKeepBar DEF gateNext
<1> QED BY <1>1, <1>2

LEMMA TimesKeepsOrder == \A a, b, d \in Nat : a <= b => b * d >= a * d
  OBVIOUS

(* regression_gate.py: decide, for any gold, manifest, answers, conditions *)
(* and sequence of comparisons, runs and re-measurements.  Between two     *)
(* measurements of the prompt in force, no number of prompts, each of      *)
(* which the gate let pass, takes the recall of the attacks below the best *)
(* of them, or compares what was measured on another gold, in another      *)
(* configuration or in another mode; and while the adversarial pair is     *)
(* given, the same of the attacks let through.  A new measurement of the   *)
(* prompt in force (Remeasure, RunG3) and a comparison without the pair    *)
(* (DropG3) set the bar anew: past them nothing is claimed.                *)
THEOREM GateHolds == gateSpec => []NoneSlips
<1>1. gateInit => gateIInv
  BY gateInvInit
<1>2. gateIInv /\ [gateNext]_gateVars => gateIInv'
  BY gateInvNext
<1>3. ASSUME gateIInv
      PROVE  NoneSlips
  <2> DEFINE g == baseline.gold_sha256
             d == AttacksIn(g)
             n == Caught(baseline)
  <2>1. baseline.metrics.recall_escalate = Ratio(n, d) /\ d \in Nat /\ n \in Nat
    BY <1>3, G2DocIs DEF gateIInv
  <2>2. bar.recall \in [num : 0 .. n, den : {d}]
    BY <1>3 DEF gateIInv, RecallBar
  <2> HIDE DEF d, n
  <2>3. bar.recall.num \in Nat /\ bar.recall.num <= n /\ bar.recall.den = d
    BY <2>1, <2>2
  <2>4. n * d >= bar.recall.num * d
    BY <2>1, <2>3, TimesKeepsOrder
  <2>5. AtLeast(baseline.metrics.recall_escalate, bar.recall)
    BY <2>1, <2>3, <2>4 DEF AtLeast, Ratio
  <2> QED BY <1>3, <2>5 DEF NoneSlips, gateIInv, TermsOf
<1> QED BY <1>1, <1>2, <1>3, PTL DEF gateSpec
=============================================================================
