--------------------------- MODULE AutoCloseProofs ---------------------------
(***************************************************************************)
(* What is proved of the inventory tables and of closing by rule, for any  *)
(* files, versions, reloads, alerts and rules.                             *)
(***************************************************************************)
EXTENDS AutoClose, WellFoundedInduction, TLAPS

---------------------------------------------------------------------------
(* The inductive invariant of the tables.                                  *)
Contents == {Nothing} \cup UNION {Versions[f] : f \in Files}
Entries == [scope : {Scope(f) : f \in Files}, content : Contents]

IsRow(r) == r \in [value : {r.value}, scope : {r.scope}, active : BOOLEAN]

IsLoad(r) ==
    \/ r = Idle
    \/ /\ r \in [pc : {"running"}, paths : Seq(Files), own : {r.own},
                 taken : Seq(Entries), lone : BOOLEAN]
       /\ \A k \in DOMAIN r.own : IsRow(r.own[k])

(* The types of the inventory: what is on disk, the rows, the loads and    *)
(* the history of what was loaded.                                         *)
InventoryTypes ==
    /\ disk \in [Files -> Contents \cup {Broken}]
    /\ loaded \in Seq(Entries)
    /\ \A k \in DOMAIN rows : IsRow(rows[k])
    /\ load = [l \in Loads |-> load[l]]
    /\ \A l \in Loads : IsLoad(load[l])

(* No two loads hold the lock of one row.                                  *)
LocksAreHeldByOne ==
    \A l, o \in Loads : l # o /\ Running(l) /\ Running(o) =>
        DOMAIN load[l].own \cap DOMAIN load[o].own = {}

(* What a load wrote covers, and comes from, the files it has taken.       *)
WritesComeFromFiles ==
    \A l \in Loads : Running(l) =>
        /\ \A k \in DOMAIN load[l].own : load[l].own[k].scope \in Scopes(load[l].taken)
        /\ \A i \in DOMAIN load[l].taken :
              DOMAIN load[l].taken[i].content \subseteq DOMAIN load[l].own
        /\ load[l].lone => \A o \in Loads \ {l} : ~Running(o)

(* File i of a history is the last that named a key.                       *)
Names(files, i, k) == i \in DOMAIN files /\ k \in DOMAIN files[i].content
Owns(files, i, k) == Names(files, i, k) /\ \A j \in DOMAIN files : Names(files, j, k) => j <= i

(* Every committed row has the scope of the file that named its key last.  *)
RowsAreOwned ==
    /\ \A i \in DOMAIN loaded : DOMAIN loaded[i].content \subseteq DOMAIN rows
    /\ \A k \in DOMAIN rows :
          \E i \in DOMAIN loaded : Owns(loaded, i, k) /\ rows[k].scope = loaded[i].scope

(* So has every row a load wrote, seen over what is committed.             *)
OwnedBy(l, k) ==
    LET taken == load[l].taken
        own == load[l].own
    IN  \/ \E i \in DOMAIN taken : Owns(taken, i, k) /\ own[k].scope = taken[i].scope
        \/ /\ \A i \in DOMAIN taken : ~Names(taken, i, k)
           /\ k \in DOMAIN rows /\ own[k].scope = rows[k].scope

WritesAreOwned ==
    \A l \in Loads : Running(l) => \A k \in DOMAIN load[l].own : OwnedBy(l, k)

(* A table has the rows of file i of a history and no other of its scope.  *)
Newest(files, i) == \A j \in DOMAIN files : files[j].scope = files[i].scope => j <= i
Follows(files, i, table) ==
    \A k \in DOMAIN table : table[k].scope = files[i].scope =>
        /\ table[k].active <=> k \in DOMAIN files[i].content
        /\ table[k].active => table[k].value = files[i].content[k]

(* What a load that runs alone would commit follows the files it took.     *)
LoneLoadsFollow ==
    \A l \in Loads : Running(l) /\ load[l].lone =>
        \A i \in DOMAIN load[l].taken :
            Newest(load[l].taken, i) => Follows(load[l].taken, i, Visible(l))

TablesInv ==
    /\ InventoryTypes
    /\ LocksAreHeldByOne
    /\ WritesComeFromFiles
    /\ RowsAreOwned
    /\ WritesAreOwned
    /\ LoneLoadsFollow
    /\ TablesFollowFiles

---------------------------------------------------------------------------
(* What the operators of a load compute.                                   *)
LEMMA OverIs ==
    ASSUME NEW new, NEW old
    PROVE  /\ DOMAIN Over(new, old) = DOMAIN new \cup DOMAIN old
           /\ \A k \in DOMAIN new : Over(new, old)[k] = new[k]
           /\ \A k \in DOMAIN old \ DOMAIN new : Over(new, old)[k] = old[k]
BY DEF Over

LEMMA VisibleIs ==
    ASSUME NEW l \in Loads
    PROVE  /\ DOMAIN Visible(l) = DOMAIN load[l].own \cup DOMAIN rows
           /\ \A k \in DOMAIN load[l].own : Visible(l)[k] = load[l].own[k]
           /\ \A k \in DOMAIN rows \ DOMAIN load[l].own : Visible(l)[k] = rows[k]
BY OverIs DEF Visible

LEMMA RunningLoad ==
    ASSUME InventoryTypes, NEW l \in Loads, Running(l)
    PROVE  /\ load[l] \in [pc : {"running"}, paths : Seq(Files), own : {load[l].own},
                           taken : Seq(Entries), lone : BOOLEAN]
           /\ \A k \in DOMAIN load[l].own : IsRow(load[l].own[k])
BY DEF InventoryTypes, IsLoad, Idle, Running

LEMMA VisibleRows ==
    ASSUME InventoryTypes, NEW l \in Loads, Running(l)
    PROVE  \A k \in DOMAIN Visible(l) : IsRow(Visible(l)[k])
BY RunningLoad, VisibleIs DEF InventoryTypes

LEMMA WritesIs ==
    ASSUME InventoryTypes, NEW l \in Loads, Running(l), NEW f, NEW content
    PROVE  /\ DOMAIN Writes(l, f, content) = DOMAIN content \cup Absent(l, f, content)
           /\ \A k \in DOMAIN content : Writes(l, f, content)[k] =
                 [value |-> content[k], scope |-> Scope(f), active |-> TRUE]
           /\ \A k \in Absent(l, f, content) : ~Writes(l, f, content)[k].active
           /\ \A k \in DOMAIN Writes(l, f, content) : /\ IsRow(Writes(l, f, content)[k])
                                                      /\ Writes(l, f, content)[k].scope = Scope(f)
<1> DEFINE new == Upserted(f, content)
           off == Inactive(l, Absent(l, f, content))
<1>1. /\ DOMAIN new = DOMAIN content
      /\ \A k \in DOMAIN content : new[k] =
            [value |-> content[k], scope |-> Scope(f), active |-> TRUE]
  BY DEF Upserted
<1>2. /\ DOMAIN off = Absent(l, f, content)
      /\ \A k \in Absent(l, f, content) : off[k] = [Visible(l)[k] EXCEPT !.active = FALSE]
  BY DEF Inactive
<1>3. \A k \in Absent(l, f, content) : /\ k \in DOMAIN Visible(l) \ DOMAIN content
                                       /\ Visible(l)[k].scope = Scope(f)
  BY DEF Absent
<1>4. \A k \in Absent(l, f, content) : IsRow(off[k]) /\ ~off[k].active /\ off[k].scope = Scope(f)
  <2> SUFFICES ASSUME NEW k \in Absent(l, f, content)
               PROVE  IsRow(off[k]) /\ ~off[k].active /\ off[k].scope = Scope(f)
    OBVIOUS
  <2>1. Visible(l)[k] \in [value : {Visible(l)[k].value}, scope : {Visible(l)[k].scope},
                           active : BOOLEAN]
    BY <1>3, VisibleRows DEF IsRow
  <2> HIDE DEF off
  <2> QED BY <1>2, <1>3, <2>1 DEF IsRow
<1>5. ASSUME NEW k \in DOMAIN content
      PROVE  IsRow(new[k]) /\ new[k].scope = Scope(f)
  <2> DEFINE r == [value |-> content[k], scope |-> Scope(f), active |-> TRUE]
  <2>1. r \in [value : {r.value}, scope : {r.scope}, active : BOOLEAN] /\ r.scope = Scope(f)
    OBVIOUS
  <2> HIDE DEF new, r
  <2>2. new[k] = r
    BY <1>1 DEF r
  <2> QED BY <2>1, <2>2 DEF IsRow
<1>6. Writes(l, f, content) = Over(new, off)
  BY DEF Writes
<1>7. /\ DOMAIN Over(new, off) = DOMAIN new \cup DOMAIN off
      /\ \A k \in DOMAIN new : Over(new, off)[k] = new[k]
      /\ \A k \in DOMAIN off \ DOMAIN new : Over(new, off)[k] = off[k]
  BY OverIs
<1> HIDE DEF new, off
<1> QED BY <1>1, <1>2, <1>3, <1>4, <1>5, <1>6, <1>7

LEMMA WritesScope ==
    ASSUME InventoryTypes, NEW l \in Loads, Running(l), NEW f, NEW content
    PROVE  /\ DOMAIN Writes(l, f, content) = DOMAIN content \cup Absent(l, f, content)
           /\ \A k \in DOMAIN Writes(l, f, content) : Writes(l, f, content)[k].scope = Scope(f)
BY WritesIs

(* What a step of one load leaves of another. *)
Kept(o) ==
    /\ Running(o)' <=> Running(o)
    /\ Running(o) => /\ load'[o].own = load[o].own
                     /\ load'[o].taken = load[o].taken
                     /\ load'[o].lone => load[o].lone

LEMMA LoadBeginIs ==
    ASSUME InventoryTypes, NEW l \in Loads, NEW paths \in PathLists, LoadBegin(l, paths)
    PROVE  /\ load' = [o \in Loads |-> load'[o]]
           /\ load'[l] = [pc |-> "running", paths |-> paths, own |-> Nothing,
                          taken |-> <<>>, lone |-> Others(l) = {}]
           /\ load'[l].own = Nothing /\ load'[l].taken = <<>> /\ Running(l)'
           /\ load'[l].lone <=> Others(l) = {}
           /\ \A o \in Loads \ {l} :
                 /\ Kept(o) /\ IsLoad(load'[o])
                 /\ Running(o) => load'[o].lone = FALSE
           /\ rows' = rows /\ loaded' = loaded /\ mixed' = mixed /\ disk' = disk
<1>1. load' = [o \in Loads |->
                  IF o = l
                    THEN [pc |-> "running", paths |-> paths, own |-> Nothing,
                          taken |-> <<>>, lone |-> Others(l) = {}]
                    ELSE IF Running(o) THEN [load[o] EXCEPT !.lone = FALSE] ELSE Idle]
  BY DEF LoadBegin
<1>2. ASSUME NEW o \in Loads \ {l}
      PROVE  Kept(o) /\ IsLoad(load'[o]) /\ (Running(o) => load'[o].lone = FALSE)
  <2>1. CASE Running(o)
    <3>1. load'[o] = [load[o] EXCEPT !.lone = FALSE]
      BY <1>1, <2>1
    <3>2. load'[o].own = load[o].own /\ load'[o].taken = load[o].taken /\ load'[o].lone = FALSE
            /\ load'[o] \in [pc : {"running"}, paths : Seq(Files), own : {load[o].own},
                             taken : Seq(Entries), lone : BOOLEAN]
      BY <2>1, <3>1, RunningLoad
    <3> QED BY <2>1, <3>2, RunningLoad DEF IsLoad, Kept, Running
  <2>2. CASE ~Running(o)
    BY <1>1, <2>2 DEF Kept, Running, IsLoad, Idle
  <2> QED BY <2>1, <2>2
<1> DEFINE lone == Others(l) = {}
           new == [pc |-> "running", paths |-> paths, own |-> Nothing,
                   taken |-> <<>>, lone |-> lone]
<1>3. new.own = Nothing /\ new.taken = <<>> /\ new.pc = "running" /\ (new.lone <=> lone)
  OBVIOUS
<1>4. load'[l] = new
  BY <1>1
<1> HIDE DEF new
<1> QED BY <1>1, <1>2, <1>3, <1>4 DEF LoadBegin, Running, new

LEMMA LoadFileIs ==
    ASSUME InventoryTypes, NEW l \in Loads, LoadFile(l)
    PROVE  LET f == Head(load[l].paths)
               written == Writes(l, f, Content(f))
           IN /\ Running(l) /\ f \in Files
              /\ load' = [o \in Loads |-> load'[o]]
              /\ \A o \in Loads \ {l} : load'[o] = load[o]
              /\ Running(l)' /\ load'[l].lone = load[l].lone /\ IsLoad(load'[l])
              /\ rows' = rows /\ loaded' = loaded /\ mixed' = mixed /\ disk' = disk
              /\ \/ load'[l].own = load[l].own /\ load'[l].taken = load[l].taken
                 \/ /\ \A o \in Others(l) : DOMAIN written \cap DOMAIN load[o].own = {}
                    /\ load'[l].own = Over(written, load[l].own)
                    /\ load'[l].taken =
                          Append(load[l].taken, [scope |-> Scope(f), content |-> Content(f)])
<1> DEFINE f == Head(load[l].paths)
           written == Writes(l, f, Content(f))
           entry == [scope |-> Scope(f), content |-> Content(f)]
           old == load[l]
<1>1. Running(l) /\ load[l].paths # <<>> /\ load = [o \in Loads |-> load[o]]
  BY DEF LoadFile, InventoryTypes
<1>2. /\ old \in [pc : {"running"}, paths : Seq(Files), own : {old.own},
                  taken : Seq(Entries), lone : BOOLEAN]
      /\ \A k \in DOMAIN old.own : IsRow(old.own[k])
  BY <1>1, RunningLoad
<1>3. f \in Files /\ Tail(load[l].paths) \in Seq(Files)
  BY <1>1, <1>2
<1>4. entry \in Entries
  BY <1>3 DEF InventoryTypes, Entries, Content, Contents
<1>5. \A k \in DOMAIN written : IsRow(written[k])
  BY <1>1, WritesIs
<1>6. CASE Skipped(f)
  <2>1. /\ load' = [load EXCEPT ![l] = [old EXCEPT !.paths = Tail(old.paths)]]
    BY <1>6 DEF LoadFile
  <2>2. load'[l] = [old EXCEPT !.paths = Tail(old.paths)]
    BY <2>1, <1>1
  <2>3. /\ load'[l] \in [pc : {"running"}, paths : Seq(Files), own : {old.own},
                         taken : Seq(Entries), lone : BOOLEAN]
        /\ load'[l].own = old.own /\ load'[l].taken = old.taken /\ load'[l].lone = old.lone
    BY <1>2, <1>3, <2>2
  <2>4. IsLoad(load'[l]) /\ Running(l)'
    BY <1>2, <2>3 DEF IsLoad, Running
  <2>5. load' = [o \in Loads |-> load'[o]] /\ \A o \in Loads \ {l} : load'[o] = load[o]
    BY <2>1, <1>1
  <2> QED BY <1>1, <1>3, <2>3, <2>4, <2>5 DEF LoadFile
<1>7. CASE ~Skipped(f)
  <2> DEFINE own == Over(written, old.own)
             taken == Append(old.taken, entry)
             new == [old EXCEPT !.paths = Tail(old.paths), !.own = own, !.taken = taken]
  <2>1. /\ load' = [load EXCEPT ![l] = new]
        /\ \A o \in Others(l) : DOMAIN written \cap DOMAIN load[o].own = {}
    BY <1>7 DEF LoadFile
  <2>2. taken \in Seq(Entries)
    BY <1>2, <1>4
  <2>3. /\ DOMAIN own = DOMAIN written \cup DOMAIN old.own
        /\ \A k \in DOMAIN written : own[k] = written[k]
        /\ \A k \in DOMAIN old.own \ DOMAIN written : own[k] = old.own[k]
    BY OverIs
  <2> HIDE DEF own, taken, written
  <2>4. \A k \in DOMAIN own : IsRow(own[k])
    BY <1>2, <1>5, <2>3
  <2>5. /\ new \in [pc : {"running"}, paths : Seq(Files), own : {own},
                    taken : Seq(Entries), lone : BOOLEAN]
        /\ new.own = own /\ new.taken = taken /\ new.lone = old.lone
    BY <1>2, <1>3, <2>2
  <2>6. load'[l] = new /\ load' = [o \in Loads |-> load'[o]]
    BY <2>1, <1>1
  <2>7. \A o \in Loads \ {l} : load'[o] = load[o]
    BY <2>1, <1>1
  <2> HIDE DEF new
  <2>8. IsLoad(load'[l]) /\ Running(l)'
    BY <2>4, <2>5, <2>6 DEF IsLoad, Running
  <2> QED BY <1>1, <1>3, <2>1, <2>5, <2>6, <2>7, <2>8 DEF LoadFile, own, taken, written
<1> QED BY <1>6, <1>7

LEMMA LoadCommitIs ==
    ASSUME InventoryTypes, NEW l \in Loads, LoadCommit(l)
    PROVE  /\ Running(l) /\ ~Running(l)'
           /\ load' = [o \in Loads |-> load'[o]]
           /\ load'[l] = Idle
           /\ \A o \in Loads \ {l} : load'[o] = load[o] /\ Kept(o)
           /\ rows' = Visible(l) /\ loaded' = loaded \o load[l].taken /\ disk' = disk
           /\ mixed' = IF load[l].lone THEN mixed \ Scopes(load[l].taken)
                                       ELSE mixed \cup Scopes(load[l].taken)
<1>1. load = [o \in Loads |-> load[o]] /\ load' = [load EXCEPT ![l] = Idle]
  BY DEF LoadCommit, InventoryTypes
<1>2. load'[l] = Idle /\ \A o \in Loads \ {l} : load'[o] = load[o]
  BY <1>1
<1>3. load' = [o \in Loads |-> load'[o]]
  BY <1>1
<1> QED BY <1>2, <1>3 DEF LoadCommit, Kept, Running, Idle

LEMMA LoadFailsIs ==
    ASSUME InventoryTypes, NEW l \in Loads, LoadFails(l)
    PROVE  /\ ~Running(l)'
           /\ load' = [o \in Loads |-> load'[o]]
           /\ load'[l] = Idle
           /\ \A o \in Loads \ {l} : load'[o] = load[o] /\ Kept(o)
           /\ rows' = rows /\ loaded' = loaded /\ mixed' = mixed /\ disk' = disk
<1>1. load = [o \in Loads |-> load[o]] /\ load' = [load EXCEPT ![l] = Idle]
  BY DEF LoadFails, InventoryTypes
<1>2. load'[l] = Idle /\ \A o \in Loads \ {l} : load'[o] = load[o]
  BY <1>1
<1>3. load' = [o \in Loads |-> load'[o]]
  BY <1>1
<1> QED BY <1>2, <1>3 DEF LoadFails, Kept, Running, Idle

LEMMA EditIs ==
    ASSUME InventoryTypes, NEW f \in Files, NEW version \in Versions[f] \cup {Broken},
           Edit(f, version)
    PROVE  /\ disk' \in [Files -> Contents \cup {Broken}]
           /\ rows' = rows /\ load' = load /\ loaded' = loaded /\ mixed' = mixed
<1>1. version \in Contents \cup {Broken}
  BY DEF Contents
<1> QED BY <1>1 DEF Edit, InventoryTypes

LEMMA ConcatIs ==
    ASSUME NEW S, NEW s \in Seq(S), NEW t \in Seq(S)
    PROVE  /\ s \o t \in Seq(S) /\ Len(s) \in Nat
           /\ DOMAIN s = 1..Len(s) /\ DOMAIN t = 1..Len(t) /\ Len(t) \in Nat
           /\ DOMAIN (s \o t) = 1..(Len(s) + Len(t))
           /\ \A i \in DOMAIN s : (s \o t)[i] = s[i]
           /\ \A i \in DOMAIN t : (s \o t)[Len(s) + i] = t[i]
           /\ \A i \in DOMAIN (s \o t) :
                 \/ i \in DOMAIN s
                 \/ /\ i - Len(s) \in DOMAIN t
                    /\ (s \o t)[i] = t[i - Len(s)] /\ i = Len(s) + (i - Len(s))
<1>1. /\ s \o t \in Seq(S) /\ Len(s) \in Nat /\ Len(t) \in Nat
      /\ DOMAIN s = 1..Len(s) /\ DOMAIN t = 1..Len(t)
      /\ Len(s \o t) = Len(s) + Len(t)
  OBVIOUS
<1>2. DOMAIN (s \o t) = 1..(Len(s) + Len(t))
  BY <1>1
<1>3. \A i \in 1..Len(s) : (s \o t)[i] = s[i]
  OBVIOUS
<1>4. ASSUME NEW i \in 1..(Len(s) + Len(t)), i > Len(s)
      PROVE  /\ i - Len(s) \in DOMAIN t
             /\ (s \o t)[i] = t[i - Len(s)] /\ i = Len(s) + (i - Len(s))
  BY <1>1, <1>4
<1>5. ASSUME NEW i \in DOMAIN t
      PROVE  (s \o t)[Len(s) + i] = t[i]
  <2>1. Len(s) + i \in 1..(Len(s) + Len(t)) /\ Len(s) + i > Len(s) /\ (Len(s) + i) - Len(s) = i
    BY <1>1
  <2> QED BY <2>1, <1>4
<1> QED BY <1>1, <1>2, <1>3, <1>4, <1>5

LEMMA AppendIs ==
    ASSUME NEW S, NEW s \in Seq(S), NEW e \in S
    PROVE  /\ Append(s, e) \in Seq(S) /\ Len(s) \in Nat
           /\ DOMAIN s = 1..Len(s) /\ DOMAIN Append(s, e) = 1..(Len(s) + 1)
           /\ \A i \in DOMAIN s : Append(s, e)[i] = s[i]
           /\ Append(s, e)[Len(s) + 1] = e
OBVIOUS

---------------------------------------------------------------------------
(* Each part of the invariant is kept by every step of the inventory.      *)
LEMMA TypesKept ==
    ASSUME InventoryTypes, InventoryNext
    PROVE  InventoryTypes'
<1>1. ASSUME NEW f \in Files, NEW version \in Versions[f] \cup {Broken}, Edit(f, version)
      PROVE  InventoryTypes'
  BY <1>1, EditIs DEF InventoryTypes
<1>2. ASSUME NEW l \in Loads, NEW paths \in PathLists, LoadBegin(l, paths)
      PROVE  InventoryTypes'
  <2>1. IsLoad(load'[l])
    <3> DEFINE r == load'[l]
    <3>1. r = [pc |-> "running", paths |-> paths, own |-> Nothing,
               taken |-> <<>>, lone |-> Others(l) = {}]
      BY <1>2, LoadBeginIs
    <3>2. paths \in Seq(Files) /\ <<>> \in Seq(Entries)
      BY InventoryAssumption
    <3>3. r \in [pc : {"running"}, paths : Seq(Files), own : {Nothing},
                taken : Seq(Entries), lone : BOOLEAN] /\ r.own = Nothing
      BY <3>1, <3>2
    <3> HIDE DEF r
    <3>4. \A k \in DOMAIN r.own : IsRow(r.own[k])
      BY <3>3 DEF Nothing
    <3>5. IsLoad(r)
      BY <3>3, <3>4 DEF IsLoad
    <3> QED BY <3>5 DEF r
  <2> QED BY <2>1, <1>2, LoadBeginIs DEF InventoryTypes
<1>3. ASSUME NEW l \in Loads, LoadFile(l)
      PROVE  InventoryTypes'
  BY <1>3, LoadFileIs DEF InventoryTypes
<1>4. ASSUME NEW l \in Loads, LoadCommit(l)
      PROVE  InventoryTypes'
  <2>1. Running(l) /\ rows' = Visible(l) /\ loaded' = loaded \o load[l].taken
    BY <1>4, LoadCommitIs
  <2>2. \A k \in DOMAIN rows' : IsRow(rows'[k])
    BY <2>1, VisibleRows
  <2>3. loaded' \in Seq(Entries)
    BY <2>1, RunningLoad, ConcatIs DEF InventoryTypes
  <2>4. IsLoad(Idle)
    BY DEF IsLoad
  <2> QED BY <2>2, <2>3, <2>4, <1>4, LoadCommitIs DEF InventoryTypes
<1>5. ASSUME NEW l \in Loads, LoadFails(l)
      PROVE  InventoryTypes'
  <2>1. IsLoad(Idle)
    BY DEF IsLoad
  <2> QED BY <2>1, <1>5, LoadFailsIs DEF InventoryTypes
<1> QED BY <1>1, <1>2, <1>3, <1>4, <1>5 DEF InventoryNext

LEMMA LocksKept ==
    ASSUME InventoryTypes, LocksAreHeldByOne, InventoryNext
    PROVE  LocksAreHeldByOne'
<1>1. ASSUME NEW f \in Files, NEW version \in Versions[f] \cup {Broken}, Edit(f, version)
      PROVE  LocksAreHeldByOne'
  BY <1>1, EditIs DEF LocksAreHeldByOne, Running
<1>2. ASSUME NEW l \in Loads, NEW paths \in PathLists, LoadBegin(l, paths)
      PROVE  LocksAreHeldByOne'
  <2>1. load'[l].own = Nothing /\ DOMAIN Nothing = {}
    BY <1>2, LoadBeginIs DEF Nothing
  <2>2. \A o \in Loads \ {l} : Kept(o)
    BY <1>2, LoadBeginIs
  <2> QED BY <2>1, <2>2 DEF LocksAreHeldByOne, Kept, Running
<1>3. ASSUME NEW l \in Loads, LoadFile(l)
      PROVE  LocksAreHeldByOne'
  <2> DEFINE written == Writes(l, Head(load[l].paths), Content(Head(load[l].paths)))
  <2>1. /\ Running(l) /\ \A o \in Loads \ {l} : load'[o] = load[o]
        /\ \/ load'[l].own = load[l].own
           \/ /\ \A o \in Others(l) : DOMAIN written \cap DOMAIN load[o].own = {}
              /\ load'[l].own = Over(written, load[l].own)
    BY <1>3, LoadFileIs
  <2> HIDE DEF written
  <2>2. DOMAIN Over(written, load[l].own) = DOMAIN written \cup DOMAIN load[l].own
    BY OverIs
  <2>3. \A o \in Loads \ {l} : Running(o) => DOMAIN load'[l].own \cap DOMAIN load[o].own = {}
    BY <2>1, <2>2 DEF LocksAreHeldByOne, Others
  <2> QED BY <2>1, <2>3 DEF LocksAreHeldByOne, Running
<1>4. ASSUME NEW l \in Loads, LoadCommit(l) \/ LoadFails(l)
      PROVE  LocksAreHeldByOne'
  <2>1. ~Running(l)' /\ \A o \in Loads \ {l} : load'[o] = load[o]
    BY <1>4, LoadCommitIs, LoadFailsIs
  <2> QED BY <2>1 DEF LocksAreHeldByOne, Running
<1> QED BY <1>1, <1>2, <1>3, <1>4 DEF InventoryNext

(* The file a load takes, when the file is not skipped.                    *)
LEMMA LoadFileTakes ==
    ASSUME InventoryTypes, NEW l \in Loads, LoadFile(l)
    PROVE  /\ Running(l)
           /\ \/ load'[l].own = load[l].own /\ load'[l].taken = load[l].taken
              \/ \E f \in Files : \E content \in Contents :
                    /\ \A o \in Others(l) :
                          DOMAIN Writes(l, f, content) \cap DOMAIN load[o].own = {}
                    /\ load'[l].own = Over(Writes(l, f, content), load[l].own)
                    /\ load'[l].taken = Append(load[l].taken,
                                              [scope |-> Scope(f), content |-> content])
                    /\ [scope |-> Scope(f), content |-> content] \in Entries
<1> DEFINE f == Head(load[l].paths)
           content == Content(f)
           entry == [scope |-> Scope(f), content |-> content]
           Takes == /\ \A o \in Others(l) :
                          DOMAIN Writes(l, f, content) \cap DOMAIN load[o].own = {}
                    /\ load'[l].own = Over(Writes(l, f, content), load[l].own)
                    /\ load'[l].taken = Append(load[l].taken, entry)
<1>1. f \in Files /\ Running(l)
  BY LoadFileIs
<1>2. content \in Contents
  BY <1>1 DEF InventoryTypes, Content, Contents
<1>3. entry \in Entries
  BY <1>1, <1>2 DEF Entries
<1>4. \/ load'[l].own = load[l].own /\ load'[l].taken = load[l].taken
      \/ Takes
  BY LoadFileIs
<1> HIDE DEF content, f
<1> QED BY <1>1, <1>2, <1>3, <1>4

LEMMA ComesKept ==
    ASSUME InventoryTypes, WritesComeFromFiles, InventoryNext
    PROVE  WritesComeFromFiles'
<1>1. ASSUME NEW f \in Files, NEW version \in Versions[f] \cup {Broken}, Edit(f, version)
      PROVE  WritesComeFromFiles'
  BY <1>1, EditIs DEF WritesComeFromFiles, Running, Scopes
<1>2. ASSUME NEW l \in Loads, NEW paths \in PathLists, LoadBegin(l, paths)
      PROVE  WritesComeFromFiles'
  <2>1. DOMAIN load'[l].own = {} /\ DOMAIN load'[l].taken = {}
    <3>1. load'[l].own = Nothing /\ load'[l].taken = <<>>
      BY <1>2, LoadBeginIs
    <3>2. DOMAIN Nothing = {} /\ DOMAIN <<>> = {}
      BY DEF Nothing
    <3> QED BY <3>1, <3>2
  <2>2. load'[l].lone => \A o \in Loads \ {l} : ~Running(o)
    BY <1>2, LoadBeginIs DEF Others
  <2>3. \A o \in Loads \ {l} : Kept(o) /\ (Running(o) => ~load'[o].lone)
    BY <1>2, LoadBeginIs
  <2> QED BY <2>1, <2>2, <2>3 DEF WritesComeFromFiles, Kept, Running, Scopes
<1>3. ASSUME NEW l \in Loads, LoadFile(l)
      PROVE  WritesComeFromFiles'
  <2>1. /\ Running(l) /\ \A o \in Loads \ {l} : load'[o] = load[o]
        /\ load'[l].lone = load[l].lone
    BY <1>3, LoadFileIs
  <2>2. CASE load'[l].own = load[l].own /\ load'[l].taken = load[l].taken
    BY <2>1, <2>2 DEF WritesComeFromFiles, Running, Scopes
  <2>3. ASSUME NEW f \in Files, NEW content \in Contents,
               load'[l].own = Over(Writes(l, f, content), load[l].own),
               load'[l].taken = Append(load[l].taken, [scope |-> Scope(f), content |-> content]),
               [scope |-> Scope(f), content |-> content] \in Entries
        PROVE  WritesComeFromFiles'
    <3> DEFINE written == Writes(l, f, content)
               entry == [scope |-> Scope(f), content |-> content]
               own == load[l].own
               taken == load[l].taken
    <3>1. /\ DOMAIN written = DOMAIN content \cup Absent(l, f, content)
          /\ \A k \in DOMAIN written : written[k].scope = Scope(f)
      BY <2>1, WritesScope
    <3>2. /\ DOMAIN Over(written, own) = DOMAIN written \cup DOMAIN own
          /\ \A k \in DOMAIN written : Over(written, own)[k] = written[k]
          /\ \A k \in DOMAIN own \ DOMAIN written : Over(written, own)[k] = own[k]
      BY OverIs
    <3>3. taken \in Seq(Entries)
      BY <2>1, RunningLoad
    <3>4. /\ Len(taken) \in Nat /\ DOMAIN taken = 1..Len(taken)
          /\ DOMAIN Append(taken, entry) = 1..(Len(taken) + 1)
          /\ \A i \in DOMAIN taken : Append(taken, entry)[i] = taken[i]
          /\ Append(taken, entry)[Len(taken) + 1] = entry
      BY <2>3, <3>3, AppendIs
    <3>5. /\ \A k \in DOMAIN own : own[k].scope \in Scopes(taken)
          /\ \A i \in DOMAIN taken : DOMAIN taken[i].content \subseteq DOMAIN own
          /\ load[l].lone => \A o \in Loads \ {l} : ~Running(o)
      BY <2>1 DEF WritesComeFromFiles
    <3>6. entry.scope = Scope(f) /\ entry.content = content
      OBVIOUS
    <3> HIDE DEF written, own, taken, entry
    <3>7. Scopes(Append(taken, entry)) = Scopes(taken) \cup {Scope(f)}
      BY <3>4, <3>6 DEF Scopes
    <3>8. /\ \A k \in DOMAIN Over(written, own) :
                Over(written, own)[k].scope \in Scopes(Append(taken, entry))
          /\ \A i \in DOMAIN Append(taken, entry) :
                DOMAIN Append(taken, entry)[i].content \subseteq DOMAIN Over(written, own)
      <4>1. \A k \in DOMAIN Over(written, own) :
                Over(written, own)[k].scope \in Scopes(taken) \cup {Scope(f)}
        BY <3>1, <3>2, <3>5
      <4>2. ASSUME NEW i \in 1..(Len(taken) + 1)
            PROVE  DOMAIN Append(taken, entry)[i].content \subseteq DOMAIN Over(written, own)
        <5>1. CASE i = Len(taken) + 1
          BY <5>1, <3>1, <3>2, <3>4, <3>6
        <5>2. CASE i # Len(taken) + 1
          <6>1. i \in DOMAIN taken
            BY <5>2, <3>4
          <6> QED BY <6>1, <3>2, <3>4, <3>5
        <5> QED BY <5>1, <5>2
      <4> QED BY <4>1, <4>2, <3>4, <3>7
    <3>9. load'[l].own = Over(written, own) /\ load'[l].taken = Append(taken, entry)
      BY <2>3 DEF written, own, taken, entry
    <3> QED BY <2>1, <3>5, <3>8, <3>9 DEF WritesComeFromFiles, Running
  <2> QED BY <1>3, <2>2, <2>3, LoadFileTakes
<1>4. ASSUME NEW l \in Loads, LoadCommit(l) \/ LoadFails(l)
      PROVE  WritesComeFromFiles'
  <2>1. ~Running(l)' /\ \A o \in Loads \ {l} : load'[o] = load[o]
    BY <1>4, LoadCommitIs, LoadFailsIs
  <2> QED BY <2>1 DEF WritesComeFromFiles, Running, Scopes
<1> QED BY <1>1, <1>2, <1>3, <1>4 DEF InventoryNext

(* The last file of a history that named a key, when files are added.      *)
LEMMA OwnsAfter ==
    ASSUME NEW s \in Seq(Entries), NEW t \in Seq(Entries), NEW k
    PROVE  /\ \A i \in DOMAIN t : Owns(t, i, k) =>
                 /\ Owns(s \o t, Len(s) + i, k)
                 /\ (s \o t)[Len(s) + i] = t[i]
           /\ (\A i \in DOMAIN t : ~Names(t, i, k)) =>
                 \A i \in DOMAIN s : Owns(s, i, k) => Owns(s \o t, i, k) /\ (s \o t)[i] = s[i]
<1> DEFINE u == s \o t
<1>1. /\ Len(s) \in Nat /\ Len(t) \in Nat
      /\ DOMAIN s = 1..Len(s) /\ DOMAIN t = 1..Len(t) /\ DOMAIN u = 1..(Len(s) + Len(t))
      /\ \A i \in DOMAIN s : u[i] = s[i]
      /\ \A i \in DOMAIN t : u[Len(s) + i] = t[i]
      /\ \A i \in DOMAIN u :
            \/ i \in DOMAIN s
            \/ /\ i - Len(s) \in DOMAIN t
               /\ u[i] = t[i - Len(s)] /\ i = Len(s) + (i - Len(s))
  BY ConcatIs
<1> HIDE DEF u
<1>2. ASSUME NEW i \in DOMAIN t, Owns(t, i, k)
      PROVE  Owns(u, Len(s) + i, k)
  <2>1. Names(u, Len(s) + i, k)
    BY <1>1, <1>2 DEF Owns, Names
  <2>2. ASSUME NEW j \in DOMAIN u, Names(u, j, k)
        PROVE  j <= Len(s) + i
    <3>1. CASE j \in DOMAIN s
      BY <1>1, <3>1
    <3>2. CASE j - Len(s) \in DOMAIN t /\ u[j] = t[j - Len(s)] /\ j = Len(s) + (j - Len(s))
      <4>1. j - Len(s) <= i
        BY <1>2, <2>2, <3>2 DEF Owns, Names
      <4> QED BY <1>1, <3>2, <4>1
    <3> QED BY <1>1, <3>1, <3>2
  <2> QED BY <2>1, <2>2 DEF Owns
<1>3. ASSUME \A i \in DOMAIN t : ~Names(t, i, k), NEW i \in DOMAIN s, Owns(s, i, k)
      PROVE  Owns(u, i, k)
  <2>1. Names(u, i, k)
    BY <1>1, <1>3 DEF Owns, Names
  <2>2. ASSUME NEW j \in DOMAIN u, Names(u, j, k)
        PROVE  j <= i
    <3>1. j \in DOMAIN s
      BY <1>1, <1>3, <2>2 DEF Names
    <3> QED BY <1>1, <1>3, <2>2, <3>1 DEF Owns, Names
  <2> QED BY <2>1, <2>2 DEF Owns
<1> QED BY <1>1, <1>2, <1>3 DEF u

LEMMA RowsKept ==
    ASSUME InventoryTypes, WritesComeFromFiles, RowsAreOwned, WritesAreOwned, InventoryNext
    PROVE  RowsAreOwned'
<1>1. ASSUME rows' = rows, loaded' = loaded
      PROVE  RowsAreOwned'
  BY <1>1 DEF RowsAreOwned, Owns, Names
<1>2. ASSUME NEW l \in Loads, LoadCommit(l)
      PROVE  RowsAreOwned'
  <2> DEFINE taken == load[l].taken
             own == load[l].own
             all == loaded \o taken
  <2>1. Running(l) /\ rows' = Visible(l) /\ loaded' = all
    BY <1>2, LoadCommitIs
  <2>2. loaded \in Seq(Entries) /\ taken \in Seq(Entries)
    BY <2>1, RunningLoad DEF InventoryTypes
  <2>3. /\ DOMAIN Visible(l) = DOMAIN own \cup DOMAIN rows
        /\ \A k \in DOMAIN own : Visible(l)[k] = own[k]
        /\ \A k \in DOMAIN rows \ DOMAIN own : Visible(l)[k] = rows[k]
    BY VisibleIs
  <2>4. \A i \in DOMAIN taken : DOMAIN taken[i].content \subseteq DOMAIN own
    BY <2>1 DEF WritesComeFromFiles
  <2>5. \A i \in DOMAIN all :
           \/ i \in DOMAIN loaded /\ all[i] = loaded[i]
           \/ i - Len(loaded) \in DOMAIN taken /\ all[i] = taken[i - Len(loaded)]
    BY <2>2, ConcatIs
  <2>6. \A k \in DOMAIN own : OwnedBy(l, k)
    BY <2>1 DEF WritesAreOwned
  <2>7. /\ Len(loaded) \in Nat /\ DOMAIN loaded \subseteq DOMAIN all
        /\ \A i \in DOMAIN taken : Len(loaded) + i \in DOMAIN all
    <3>1. /\ DOMAIN loaded = 1..Len(loaded) /\ DOMAIN taken = 1..Len(taken)
          /\ DOMAIN all = 1..(Len(loaded) + Len(taken))
          /\ Len(loaded) \in Nat /\ Len(taken) \in Nat
      BY <2>2, ConcatIs
    <3> HIDE DEF all, taken
    <3> QED BY <3>1
  <2>8. ASSUME NEW k \in DOMAIN Visible(l)
        PROVE  \E i \in DOMAIN all : Owns(all, i, k) /\ Visible(l)[k].scope = all[i].scope
    <3>1. CASE \E i \in DOMAIN taken : /\ k \in DOMAIN own /\ Owns(taken, i, k)
                                      /\ own[k].scope = taken[i].scope
      <4>1. PICK i \in DOMAIN taken : /\ k \in DOMAIN own /\ Owns(taken, i, k)
                                     /\ own[k].scope = taken[i].scope
        BY <3>1
      <4>2. Owns(all, Len(loaded) + i, k) /\ all[Len(loaded) + i] = taken[i]
        BY <4>1, <2>2, OwnsAfter
      <4> HIDE DEF all, taken, own
      <4> QED BY <4>1, <4>2, <2>3, <2>7
    <3>2. CASE /\ \A i \in DOMAIN taken : ~Names(taken, i, k)
               /\ k \in DOMAIN rows /\ Visible(l)[k].scope = rows[k].scope
      <4>1. PICK i \in DOMAIN loaded : Owns(loaded, i, k) /\ rows[k].scope = loaded[i].scope
        BY <3>2 DEF RowsAreOwned
      <4>2. Owns(all, i, k) /\ all[i] = loaded[i]
        BY <3>2, <4>1, <2>2, OwnsAfter
      <4> HIDE DEF all, taken, own
      <4> QED BY <3>2, <4>1, <4>2, <2>7
    <3>3. CASE k \in DOMAIN own
      BY <3>1, <3>2, <3>3, <2>3, <2>6 DEF OwnedBy
    <3>4. CASE k \notin DOMAIN own
      BY <3>2, <3>4, <2>3, <2>4 DEF Names
    <3> QED BY <3>3, <3>4
  <2>9. \A i \in DOMAIN all : DOMAIN all[i].content \subseteq DOMAIN Visible(l)
    BY <2>3, <2>4, <2>5 DEF RowsAreOwned
  <2> HIDE DEF all
  <2> QED BY <2>1, <2>8, <2>9 DEF RowsAreOwned, Owns, Names
<1>3. CASE \E l \in Loads : LoadCommit(l)
  BY <1>2, <1>3
<1>4. CASE ~\E l \in Loads : LoadCommit(l)
  <2>1. rows' = rows /\ loaded' = loaded
    BY <1>4, EditIs DEF InventoryNext, LoadBegin, LoadFile, LoadFails
  <2> QED BY <2>1, <1>1
<1> QED BY <1>3, <1>4

LEMMA OwnedKept ==
    ASSUME InventoryTypes, LocksAreHeldByOne, WritesComeFromFiles, WritesAreOwned, InventoryNext
    PROVE  WritesAreOwned'
<1>1. ASSUME NEW o \in Loads, Kept(o), rows' = rows, Running(o)'
      PROVE  \A k \in DOMAIN load'[o].own : OwnedBy(o, k)'
  BY <1>1 DEF WritesAreOwned, OwnedBy, Kept
<1>2. ASSUME NEW f \in Files, NEW version \in Versions[f] \cup {Broken}, Edit(f, version)
      PROVE  WritesAreOwned'
  <2>1. \A o \in Loads : Kept(o)
    BY <1>2, EditIs DEF Kept, Running
  <2> QED BY <1>1, <1>2, <2>1, EditIs DEF WritesAreOwned
<1>3. ASSUME NEW l \in Loads, NEW paths \in PathLists, LoadBegin(l, paths)
      PROVE  WritesAreOwned'
  <2>1. DOMAIN load'[l].own = {}
    <3>1. load'[l].own = Nothing
      BY <1>3, LoadBeginIs
    <3> QED BY <3>1 DEF Nothing
  <2> QED BY <1>1, <1>3, <2>1, LoadBeginIs DEF WritesAreOwned
<1>4. ASSUME NEW l \in Loads, LoadFile(l)
      PROVE  WritesAreOwned'
  <2>1. /\ Running(l) /\ rows' = rows
        /\ \A o \in Loads \ {l} : load'[o] = load[o]
    BY <1>4, LoadFileIs
  <2>2. \A o \in Loads \ {l} : Kept(o)
    BY <2>1 DEF Kept, Running
  <2>3. CASE load'[l].own = load[l].own /\ load'[l].taken = load[l].taken
    <3>1. \A k \in DOMAIN load'[l].own : OwnedBy(l, k)'
      BY <2>1, <2>3 DEF WritesAreOwned, OwnedBy
    <3> QED BY <1>1, <2>1, <2>2, <3>1 DEF WritesAreOwned
  <2>4. ASSUME NEW f \in Files, NEW content \in Contents,
               load'[l].own = Over(Writes(l, f, content), load[l].own),
               load'[l].taken = Append(load[l].taken, [scope |-> Scope(f), content |-> content]),
               [scope |-> Scope(f), content |-> content] \in Entries
        PROVE  \A k \in DOMAIN load'[l].own : OwnedBy(l, k)'
    <3> DEFINE written == Writes(l, f, content)
               entry == [scope |-> Scope(f), content |-> content]
               own == load[l].own
               taken == load[l].taken
               new == Over(written, own)
               files == Append(taken, entry)
    <3>1. /\ DOMAIN written = DOMAIN content \cup Absent(l, f, content)
          /\ \A k \in DOMAIN written : written[k].scope = Scope(f)
      BY <2>1, WritesScope
    <3>2. /\ DOMAIN new = DOMAIN written \cup DOMAIN own
          /\ \A k \in DOMAIN written : new[k] = written[k]
          /\ \A k \in DOMAIN own \ DOMAIN written : new[k] = own[k]
      BY OverIs
    <3>3. taken \in Seq(Entries)
      BY <2>1, RunningLoad
    <3>4. /\ Len(taken) \in Nat /\ DOMAIN taken = 1..Len(taken)
          /\ DOMAIN files = 1..(Len(taken) + 1)
          /\ \A i \in DOMAIN taken : files[i] = taken[i]
          /\ files[Len(taken) + 1] = entry
      BY <2>4, <3>3, AppendIs
    <3>5. entry.scope = Scope(f) /\ entry.content = content
      OBVIOUS
    <3>6. /\ \A i \in DOMAIN taken : DOMAIN taken[i].content \subseteq DOMAIN own
          /\ \A k \in DOMAIN own : OwnedBy(l, k)
      BY <2>1 DEF WritesComeFromFiles, WritesAreOwned
    <3>7. /\ DOMAIN Visible(l) = DOMAIN own \cup DOMAIN rows
          /\ \A k \in DOMAIN own : Visible(l)[k] = own[k]
          /\ \A k \in DOMAIN rows \ DOMAIN own : Visible(l)[k] = rows[k]
      BY VisibleIs
    <3>8. \A k \in Absent(l, f, content) : /\ k \in DOMAIN Visible(l) \ DOMAIN content
                                           /\ Visible(l)[k].scope = Scope(f)
      BY DEF Absent
    <3>9. /\ load'[l].own = new /\ load'[l].taken = files
      BY <2>4
    <3> HIDE DEF written, entry, new, files
    <3>10. ASSUME NEW k \in DOMAIN new
           PROVE  OwnedBy(l, k)'
      <4>1. CASE k \in DOMAIN content
        <5>1. Names(files, Len(taken) + 1, k)
          BY <4>1, <3>4, <3>5 DEF Names
        <5>2. \A j \in DOMAIN files : j <= Len(taken) + 1
          BY <3>4
        <5>3. new[k].scope = files[Len(taken) + 1].scope
          BY <4>1, <3>1, <3>2, <3>4, <3>5
        <5>4. \E i \in DOMAIN files : Owns(files, i, k) /\ new[k].scope = files[i].scope
          BY <5>1, <5>2, <5>3 DEF Owns, Names
        <5> QED BY <5>4, <3>9 DEF OwnedBy
      <4>2. CASE k \notin DOMAIN content
        <5>1. k \in DOMAIN Visible(l) /\ new[k].scope = Visible(l)[k].scope
          BY <4>2, <3>1, <3>2, <3>7, <3>8
        <5>2. \A j \in DOMAIN files : Names(files, j, k) => j \in DOMAIN taken /\ Names(taken, j, k)
          <6> SUFFICES ASSUME NEW j \in 1..(Len(taken) + 1), Names(files, j, k)
                       PROVE  j \in DOMAIN taken /\ Names(taken, j, k)
            BY <3>4
          <6>1. j # Len(taken) + 1
            BY <4>2, <3>4, <3>5 DEF Names
          <6>2. j \in DOMAIN taken
            BY <6>1, <3>4
          <6> QED BY <6>2, <3>4 DEF Names
        <5>3. CASE \E i \in DOMAIN taken : /\ k \in DOMAIN own /\ Owns(taken, i, k)
                                          /\ own[k].scope = taken[i].scope
          <6>1. PICK i \in DOMAIN taken : /\ k \in DOMAIN own /\ Owns(taken, i, k)
                                         /\ own[k].scope = taken[i].scope
            BY <5>3
          <6>2. i \in DOMAIN files /\ files[i] = taken[i]
            BY <3>4
          <6>3. Owns(files, i, k)
            BY <5>2, <6>1, <6>2 DEF Owns, Names
          <6>4. new[k].scope = files[i].scope
            BY <5>1, <6>1, <6>2, <3>7
          <6> QED BY <6>2, <6>3, <6>4, <3>9 DEF OwnedBy
        <5>4. CASE /\ \A i \in DOMAIN taken : ~Names(taken, i, k)
                   /\ k \in DOMAIN rows /\ Visible(l)[k].scope = rows[k].scope
          <6>1. \A i \in DOMAIN files : ~Names(files, i, k)
            BY <5>2, <5>4
          <6> QED BY <6>1, <5>1, <5>4, <2>1, <3>9 DEF OwnedBy
        <5>5. CASE k \in DOMAIN own
          BY <5>3, <5>4, <5>5, <3>6, <3>7 DEF OwnedBy
        <5>6. CASE k \notin DOMAIN own
          BY <5>1, <5>4, <5>6, <3>6, <3>7 DEF Names
        <5> QED BY <5>5, <5>6
      <4> QED BY <4>1, <4>2
    <3> QED BY <3>9, <3>10
  <2>5. CASE \A k \in DOMAIN load'[l].own : OwnedBy(l, k)'
    BY <1>1, <2>1, <2>2, <2>5 DEF WritesAreOwned
  <2> QED BY <1>4, <2>3, <2>4, <2>5, LoadFileTakes
<1>5. ASSUME NEW l \in Loads, LoadCommit(l)
      PROVE  WritesAreOwned'
  <2>1. /\ Running(l) /\ ~Running(l)' /\ rows' = Visible(l)
        /\ \A o \in Loads \ {l} : load'[o] = load[o] /\ Kept(o)
    BY <1>5, LoadCommitIs
  <2>2. /\ DOMAIN Visible(l) = DOMAIN load[l].own \cup DOMAIN rows
        /\ \A k \in DOMAIN rows \ DOMAIN load[l].own : Visible(l)[k] = rows[k]
    BY VisibleIs
  <2>3. ASSUME NEW o \in Loads \ {l}, Running(o), NEW k \in DOMAIN load[o].own
        PROVE  OwnedBy(o, k)'
    <3>1. OwnedBy(o, k) /\ k \notin DOMAIN load[l].own
      BY <2>1, <2>3 DEF WritesAreOwned, LocksAreHeldByOne
    <3>2. k \in DOMAIN rows => k \in DOMAIN rows' /\ rows'[k] = rows[k]
      BY <2>1, <2>2, <3>1
    <3> QED BY <2>1, <3>1, <3>2 DEF OwnedBy
  <2> QED BY <2>1, <2>3 DEF WritesAreOwned, Kept
<1>6. ASSUME NEW l \in Loads, LoadFails(l)
      PROVE  WritesAreOwned'
  BY <1>1, <1>6, LoadFailsIs DEF WritesAreOwned
<1> QED BY <1>2, <1>3, <1>4, <1>5, <1>6 DEF InventoryNext

LEMMA LoneKept ==
    ASSUME InventoryTypes, WritesComeFromFiles, LoneLoadsFollow, InventoryNext
    PROVE  LoneLoadsFollow'
<1> DEFINE Good(o) == \A i \in DOMAIN load[o].taken :
                         Newest(load[o].taken, i) => Follows(load[o].taken, i, Visible(o))
<1>1. ASSUME NEW o \in Loads, Kept(o), rows' = rows, Running(o)', load'[o].lone
      PROVE  Good(o)'
  <2>1. Running(o) /\ load'[o].own = load[o].own /\ load'[o].taken = load[o].taken
          /\ load[o].lone
    BY <1>1 DEF Kept
  <2>2. Visible(o)' = Visible(o)
    BY <1>1, <2>1 DEF Visible
  <2>3. Good(o)
    BY <2>1 DEF LoneLoadsFollow
  <2> QED BY <2>1, <2>2, <2>3 DEF Newest, Follows
<1>2. ASSUME rows' = rows, \A o \in Loads : Kept(o) \/ ~Running(o)' \/ Good(o)'
      PROVE  LoneLoadsFollow'
  <2> SUFFICES ASSUME NEW o \in Loads, Running(o)', load'[o].lone
               PROVE  Good(o)'
    BY DEF LoneLoadsFollow
  <2> QED BY <1>1, <1>2
<1>3. ASSUME NEW f \in Files, NEW version \in Versions[f] \cup {Broken}, Edit(f, version)
      PROVE  LoneLoadsFollow'
  <2>1. rows' = rows /\ \A o \in Loads : Kept(o)
    BY <1>3, EditIs DEF Kept, Running
  <2> HIDE DEF Good
  <2> QED BY <1>2, <2>1
<1>4. ASSUME NEW l \in Loads, NEW paths \in PathLists, LoadBegin(l, paths)
      PROVE  LoneLoadsFollow'
  <2>1. load'[l].taken = <<>> /\ rows' = rows /\ \A o \in Loads \ {l} : Kept(o)
    BY <1>4, LoadBeginIs
  <2>2. DOMAIN load'[l].taken = {}
    BY <2>1
  <2>3. Good(l)'
    BY <2>2
  <2> HIDE DEF Good
  <2> QED BY <1>2, <2>1, <2>3
<1>5. ASSUME NEW l \in Loads, LoadFails(l)
      PROVE  LoneLoadsFollow'
  <2>1. ~Running(l)' /\ rows' = rows /\ \A o \in Loads \ {l} : Kept(o)
    BY <1>5, LoadFailsIs
  <2> HIDE DEF Good
  <2> QED BY <1>2, <2>1
<1>6. ASSUME NEW l \in Loads, LoadCommit(l)
      PROVE  LoneLoadsFollow'
  <2>1. Running(l) /\ ~Running(l)' /\ \A o \in Loads \ {l} : load'[o] = load[o]
    BY <1>6, LoadCommitIs
  <2>2. ASSUME NEW o \in Loads, Running(o)'
        PROVE  ~load'[o].lone
    BY <2>1, <2>2 DEF WritesComeFromFiles, Running
  <2> QED BY <2>2 DEF LoneLoadsFollow
<1>7. ASSUME NEW l \in Loads, LoadFile(l)
      PROVE  LoneLoadsFollow'
  <2>1. /\ Running(l) /\ rows' = rows /\ load'[l].lone = load[l].lone
        /\ \A o \in Loads \ {l} : load'[o] = load[o]
    BY <1>7, LoadFileIs
  <2>2. \A o \in Loads \ {l} : Kept(o)
    BY <2>1 DEF Kept, Running
  <2>3. CASE load'[l].own = load[l].own /\ load'[l].taken = load[l].taken
    <3>1. Kept(l)
      BY <1>7, <2>1, <2>3, LoadFileIs DEF Kept
    <3> HIDE DEF Good
    <3> QED BY <1>2, <2>1, <2>2, <3>1
  <2>4. CASE ~load[l].lone
    <3> SUFFICES ASSUME NEW o \in Loads, Running(o)', load'[o].lone
                 PROVE  Good(o)'
      BY DEF LoneLoadsFollow
    <3>1. o # l
      BY <2>1, <2>4
    <3> HIDE DEF Good
    <3> QED BY <1>1, <2>1, <2>2, <3>1
  <2>5. ASSUME NEW f \in Files, NEW content \in Contents, load[l].lone,
               load'[l].own = Over(Writes(l, f, content), load[l].own),
               load'[l].taken = Append(load[l].taken, [scope |-> Scope(f), content |-> content]),
               [scope |-> Scope(f), content |-> content] \in Entries
        PROVE  Good(l)'
    <3> DEFINE written == Writes(l, f, content)
               entry == [scope |-> Scope(f), content |-> content]
               own == load[l].own
               taken == load[l].taken
               new == Over(written, own)
               files == Append(taken, entry)
               before == Visible(l)
               after == Over(new, rows)
    <3>1. /\ DOMAIN written = DOMAIN content \cup Absent(l, f, content)
          /\ \A k \in DOMAIN content : written[k] =
                [value |-> content[k], scope |-> Scope(f), active |-> TRUE]
          /\ \A k \in Absent(l, f, content) : ~written[k].active
          /\ \A k \in DOMAIN written : written[k].scope = Scope(f)
      <4>1. /\ DOMAIN written = DOMAIN content \cup Absent(l, f, content)
            /\ \A k \in DOMAIN written : written[k].scope = Scope(f)
        BY <2>1, WritesScope
      <4>2. \A k \in DOMAIN content : written[k] =
                [value |-> content[k], scope |-> Scope(f), active |-> TRUE]
        BY <2>1, WritesIs
      <4>3. \A k \in Absent(l, f, content) : ~written[k].active
        BY <2>1, WritesIs
      <4> QED BY <4>1, <4>2, <4>3
    <3>2. /\ DOMAIN new = DOMAIN written \cup DOMAIN own
          /\ \A k \in DOMAIN written : new[k] = written[k]
          /\ \A k \in DOMAIN own \ DOMAIN written : new[k] = own[k]
      BY OverIs
    <3>3. /\ DOMAIN after = DOMAIN new \cup DOMAIN rows
          /\ \A k \in DOMAIN new : after[k] = new[k]
          /\ \A k \in DOMAIN rows \ DOMAIN new : after[k] = rows[k]
      BY OverIs
    <3>4. taken \in Seq(Entries)
      BY <2>1, RunningLoad
    <3>5. /\ Len(taken) \in Nat /\ DOMAIN taken = 1..Len(taken)
          /\ DOMAIN files = 1..(Len(taken) + 1)
          /\ \A i \in DOMAIN taken : files[i] = taken[i]
          /\ files[Len(taken) + 1] = entry
      BY <2>5, <3>4, AppendIs
    <3>6. entry.scope = Scope(f) /\ entry.content = content
      OBVIOUS
    <3>7. /\ DOMAIN before = DOMAIN own \cup DOMAIN rows
          /\ \A k \in DOMAIN own : before[k] = own[k]
          /\ \A k \in DOMAIN rows \ DOMAIN own : before[k] = rows[k]
      BY VisibleIs
    <3>8. /\ Absent(l, f, content) =
                {k \in DOMAIN before \ DOMAIN content :
                    before[k].active /\ before[k].scope = Scope(f)}
          /\ \A i \in DOMAIN taken : Newest(taken, i) => Follows(taken, i, before)
      BY <2>1, <2>5 DEF Absent, LoneLoadsFollow
    <3>9. Visible(l)' = after /\ load'[l].taken = files
      BY <2>1, <2>5 DEF Visible
    <3>10. \A k \in DOMAIN after :
              \/ k \in DOMAIN content /\ after[k] =
                    [value |-> content[k], scope |-> Scope(f), active |-> TRUE]
              \/ /\ k \notin DOMAIN content /\ k \in Absent(l, f, content)
                 /\ ~after[k].active /\ after[k].scope = Scope(f)
              \/ /\ k \notin DOMAIN content /\ k \notin Absent(l, f, content)
                 /\ k \in DOMAIN before /\ after[k] = before[k]
      <4> SUFFICES ASSUME NEW k \in DOMAIN after
                   PROVE  \/ k \in DOMAIN content /\ after[k] =
                                [value |-> content[k], scope |-> Scope(f), active |-> TRUE]
                          \/ /\ k \notin DOMAIN content /\ k \in Absent(l, f, content)
                             /\ ~after[k].active /\ after[k].scope = Scope(f)
                          \/ /\ k \notin DOMAIN content /\ k \notin Absent(l, f, content)
                             /\ k \in DOMAIN before /\ after[k] = before[k]
        OBVIOUS
      <4> HIDE DEF written, own, new, before, after
      <4>1. CASE k \in DOMAIN content
        <5>1. after[k] = written[k] /\ written[k] =
                [value |-> content[k], scope |-> Scope(f), active |-> TRUE]
          BY <4>1, <3>1, <3>2, <3>3
        <5> QED BY <4>1, <5>1
      <4>2. CASE k \in Absent(l, f, content)
        <5>1. after[k] = written[k]
          BY <4>2, <3>1, <3>2, <3>3
        <5>2. k \notin DOMAIN content /\ k \in DOMAIN written
          BY <4>2, <3>1, <3>8
        <5> QED BY <4>2, <5>1, <5>2, <3>1
      <4>3. CASE k \notin DOMAIN content /\ k \notin Absent(l, f, content)
        <5>1. k \notin DOMAIN written
          BY <4>3, <3>1
        <5>2. CASE k \in DOMAIN own
          BY <4>3, <5>1, <5>2, <3>2, <3>3, <3>7
        <5>3. CASE k \notin DOMAIN own
          BY <4>3, <5>1, <5>3, <3>2, <3>3, <3>7
        <5> QED BY <5>2, <5>3
      <4> QED BY <4>1, <4>2, <4>3
    <3> HIDE DEF written, own, new, before, after, files, entry
    <3>11. ASSUME NEW i \in DOMAIN files, Newest(files, i)
           PROVE  Follows(files, i, after)
      <4>1. CASE i = Len(taken) + 1
        <5>1. files[i].scope = Scope(f) /\ files[i].content = content
          BY <4>1, <3>5, <3>6
        <5>2. ASSUME NEW k \in DOMAIN after, after[k].scope = Scope(f)
              PROVE  /\ after[k].active <=> k \in DOMAIN content
                     /\ after[k].active => after[k].value = content[k]
          <6>1. \A k1 \in DOMAIN before \ DOMAIN content :
                  before[k1].active /\ before[k1].scope = Scope(f) => k1 \in Absent(l, f, content)
            BY <3>8
          <6> QED BY <5>2, <6>1, <3>10
        <5> QED BY <5>1, <5>2 DEF Follows
      <4>2. CASE i # Len(taken) + 1
        <5>1. i \in DOMAIN taken /\ files[i] = taken[i]
          BY <4>2, <3>5
        <5>2. \A j \in DOMAIN taken : j \in DOMAIN files /\ files[j] = taken[j]
          BY <3>5
        <5>3. Newest(taken, i)
          BY <3>11, <5>1, <5>2 DEF Newest
        <5>4. taken[i].scope # Scope(f)
          <6>1. Len(taken) + 1 \in DOMAIN files /\ ~(Len(taken) + 1 <= i)
            BY <5>1, <3>5
          <6> QED BY <3>5, <3>6, <3>11, <5>1, <6>1 DEF Newest
        <5>5. ASSUME NEW k \in DOMAIN after, after[k].scope = taken[i].scope
              PROVE  k \in DOMAIN before /\ after[k] = before[k]
          <6>1. k \in DOMAIN content => after[k].scope = Scope(f)
            BY <3>10
          <6> QED BY <5>4, <5>5, <6>1, <3>10
        <5>6. Follows(taken, i, before)
          BY <5>1, <5>3, <3>8
        <5> QED BY <5>1, <5>5, <5>6 DEF Follows
      <4> QED BY <4>1, <4>2
    <3> QED BY <3>9, <3>11
  <2>6. CASE Good(l)'
    <3> HIDE DEF Good
    <3> QED BY <1>2, <2>1, <2>2, <2>6
  <2>7. load[l].lone \in BOOLEAN
    BY <2>1, RunningLoad
  <2> HIDE DEF Good
  <2> QED BY <1>7, <2>3, <2>4, <2>5, <2>6, <2>7, LoadFileTakes
<1> QED BY <1>3, <1>4, <1>5, <1>6, <1>7 DEF InventoryNext

LEMMA FollowKept ==
    ASSUME TablesInv, InventoryNext, RowsAreOwned'
    PROVE  TablesFollowFiles'
<1>1. ASSUME rows' = rows, loaded' = loaded, mixed' = mixed
      PROVE  TablesFollowFiles'
  BY <1>1 DEF TablesInv, TablesFollowFiles, Latest
<1>2. ASSUME NEW l \in Loads, LoadCommit(l)
      PROVE  TablesFollowFiles'
  <2> DEFINE taken == load[l].taken
             own == load[l].own
             all == loaded \o taken
  <2>1. /\ Running(l) /\ rows' = Visible(l) /\ loaded' = all
        /\ mixed' = IF load[l].lone THEN mixed \ Scopes(taken) ELSE mixed \cup Scopes(taken)
    BY <1>2, LoadCommitIs DEF TablesInv
  <2>2. loaded \in Seq(Entries) /\ taken \in Seq(Entries)
    BY <2>1, RunningLoad DEF TablesInv, InventoryTypes
  <2>3. /\ DOMAIN Visible(l) = DOMAIN own \cup DOMAIN rows
        /\ \A k \in DOMAIN own : Visible(l)[k] = own[k]
        /\ \A k \in DOMAIN rows \ DOMAIN own : Visible(l)[k] = rows[k]
    BY VisibleIs
  <2>4. \A k \in DOMAIN own : own[k].scope \in Scopes(taken)
    BY <2>1 DEF TablesInv, WritesComeFromFiles
  <2>5. /\ Len(loaded) \in Nat /\ Len(taken) \in Nat
        /\ DOMAIN loaded = 1..Len(loaded) /\ DOMAIN taken = 1..Len(taken)
        /\ DOMAIN all = 1..(Len(loaded) + Len(taken))
        /\ \A i \in DOMAIN loaded : all[i] = loaded[i]
        /\ \A i \in DOMAIN taken : all[Len(loaded) + i] = taken[i]
    <3> HIDE DEF taken
    <3> QED BY ONLY <2>2, ConcatIs
  <2>6. \A i \in DOMAIN all :
           \/ i \in DOMAIN loaded
           \/ /\ i - Len(loaded) \in DOMAIN taken
              /\ all[i] = taken[i - Len(loaded)] /\ i = Len(loaded) + (i - Len(loaded))
    <3> HIDE DEF taken
    <3> QED BY ONLY <2>2, ConcatIs
  <2> HIDE DEF all, own
  <2>7. ASSUME NEW i \in DOMAIN all, Newest(all, i), all[i].scope \notin mixed'
        PROVE  Follows(all, i, Visible(l))
    <3>1. CASE all[i].scope \in Scopes(taken)
      <4>1. load[l].lone
        BY <3>1, <2>1, <2>7
      <4>2. PICK j \in DOMAIN taken : taken[j].scope = all[i].scope
        BY <3>1 DEF Scopes
      <4>3. Len(loaded) + j <= i
        BY <4>2, <2>5, <2>7 DEF Newest
      <4>4. i \notin DOMAIN loaded
        BY <4>2, <4>3, <2>5
      <4> DEFINE m == i - Len(loaded)
      <4>5. m \in DOMAIN taken /\ all[i] = taken[m] /\ i = Len(loaded) + m
        BY <4>4, <2>6
      <4>6. Newest(taken, m)
        <5> SUFFICES ASSUME NEW n \in DOMAIN taken, taken[n].scope = taken[m].scope
                     PROVE  n <= m
          BY DEF Newest
        <5>1. Len(loaded) + n \in DOMAIN all /\ all[Len(loaded) + n] = taken[n]
          BY <2>5
        <5>2. Len(loaded) + n <= i
          BY <5>1, <4>5, <2>7 DEF Newest
        <5>3. m \in Nat /\ n \in Nat
          BY <4>5, <2>5
        <5> HIDE DEF m
        <5> QED BY <5>2, <5>3, <4>5, <2>5
      <4>7. Follows(taken, m, Visible(l))
        BY <2>1, <4>1, <4>5, <4>6 DEF TablesInv, LoneLoadsFollow
      <4> HIDE DEF m
      <4> QED BY <4>5, <4>7 DEF Follows
    <3>2. CASE all[i].scope \notin Scopes(taken)
      <4>1. i \in DOMAIN loaded
        BY <3>2, <2>6 DEF Scopes
      <4>2. Latest(i)
        <5>1. DOMAIN loaded \subseteq DOMAIN all
          BY <2>5
        <5> QED BY <4>1, <5>1, <2>5, <2>7 DEF Newest, Latest
      <4>3. loaded[i].scope \notin mixed
        BY <4>1, <3>2, <2>1, <2>5, <2>7
      <4>4. \A k \in DOMAIN rows : rows[k].scope = loaded[i].scope =>
                    /\ rows[k].active <=> k \in DOMAIN loaded[i].content
                    /\ rows[k].active => rows[k].value = loaded[i].content[k]
        BY <4>1, <4>2, <4>3 DEF TablesInv, TablesFollowFiles
      <4>5. all[i] = loaded[i]
        BY <4>1, <2>5
      <4> QED BY <4>4, <4>5, <3>2, <2>3, <2>4 DEF Follows
    <3> QED BY <3>1, <3>2
  <2>8. \A i \in DOMAIN all : DOMAIN all[i].content \subseteq DOMAIN rows'
    BY <2>1 DEF RowsAreOwned
  <2> QED BY <2>1, <2>7, <2>8 DEF TablesFollowFiles, Latest, Newest, Follows
<1>3. CASE \E l \in Loads : LoadCommit(l)
  BY <1>2, <1>3
<1>4. CASE ~\E l \in Loads : LoadCommit(l)
  <2>1. rows' = rows /\ loaded' = loaded /\ mixed' = mixed
    BY <1>4 DEF InventoryNext, Edit, LoadBegin, LoadFile, LoadFails
  <2> QED BY <2>1, <1>1
<1> QED BY <1>3, <1>4

---------------------------------------------------------------------------
(* The invariant of the pipeline job.                                      *)
WellFormedRules == {r \in DOMAIN Rules : WellFormed(r)}
Looking == {"asset", "origin", "identity", "ioc", "decide"}

JobTypes ==
    \/ job = Idle
    \/ job \in [pc : Looking, alert : Alerts, rules : SUBSET WellFormedRules, now : {job.now},
               warned : BOOLEAN, present : BOOLEAN, criticality : {job.criticality},
               privileged : {job.privileged}, reputation : {job.reputation}]
    \/ job \in [pc : {"closed", "queued"}, rules : SUBSET WellFormedRules, row : {job.row},
               warned : BOOLEAN, rule : {job.rule},
               event : {job.event}]

(* What the files spoke against is in what the job has read.               *)
HostBlocks == ~job.present \/ job.criticality = "high"
UserBlocks == job.privileged = "true"
AddressBlocks == job.reputation \in Bad

WarningsAreRead ==
    /\ job.pc \in {"asset", "origin"} => ~job.warned
    /\ job.pc = "identity" => (job.warned => HostBlocks)
    /\ job.pc = "ioc" => (job.warned => HostBlocks \/ UserBlocks)
    /\ job.pc = "decide" => (job.warned => HostBlocks \/ UserBlocks \/ AddressBlocks)

JobInv == JobTypes /\ WarningsAreRead /\ ClosedIsClean /\ SimulationAgrees

IInv == TablesInv /\ JobInv

---------------------------------------------------------------------------
(* A set of natural numbers that is not empty has a least member, so a     *)
(* history has a newest file of every scope it has a file of.              *)
Below == {ss \in Nat \X Nat : ss[1] < ss[2]}

LEMMA LeastNumber ==
    ASSUME NEW S, S \subseteq Nat, S # {}
    PROVE  \E m \in S : \A n \in S : m <= n
<1>1. Below = OpToRel(<, Nat)
  BY DEF Below, OpToRel
<1>2. IsWellFoundedOn(Below, Nat)
  BY <1>1, NatLessThanWellFounded
<1>3. PICK m \in S : \A n \in S : <<n, m>> \notin Below
  BY <1>2, WFMin
<1>4. ASSUME NEW n \in S
      PROVE  m <= n
  <2>1. n \in Nat /\ m \in Nat
    OBVIOUS
  <2>2. ~(n < m)
    BY <2>1, <1>3 DEF Below
  <2> QED BY <2>1, <2>2
<1> QED BY <1>4

LEMMA NewestExists ==
    ASSUME NEW files \in Seq(Entries), NEW i \in DOMAIN files
    PROVE  \E j \in DOMAIN files : files[j].scope = files[i].scope /\ Newest(files, j)
<1> DEFINE same == {j \in DOMAIN files : files[j].scope = files[i].scope}
           back == {Len(files) - j : j \in same}
<1>1. Len(files) \in Nat /\ DOMAIN files = 1..Len(files)
  OBVIOUS
<1>2. i \in same /\ \A j \in same : j \in 1..Len(files)
  BY <1>1
<1> HIDE DEF same
<1>3. back \subseteq Nat /\ back # {}
  <2>1. \A j \in same : Len(files) - j \in Nat
    BY <1>1, <1>2
  <2> QED BY <2>1, <1>2
<1>4. PICK m \in back : \A n \in back : m <= n
  <2> HIDE DEF back
  <2> QED BY <1>3, LeastNumber
<1>5. PICK j \in same : m = Len(files) - j
  BY <1>4
<1>6. \A n \in same : n <= j
  <2> SUFFICES ASSUME NEW n \in same
               PROVE  n <= j
    OBVIOUS
  <2>1. Len(files) - j <= Len(files) - n
    BY <1>4, <1>5
  <2>2. n \in Nat /\ j \in Nat /\ Len(files) \in Nat
    BY <1>1, <1>2, <1>5
  <2> QED BY ONLY <2>1, <2>2
<1> QED BY <1>5, <1>6 DEF same, Newest

(* A history in which a key is named has a last file that named it.        *)
LEMMA LastIs ==
    ASSUME NEW k, NEW i \in DOMAIN loaded, Owns(loaded, i, k), loaded \in Seq(Entries)
    PROVE  k \in Named /\ Last(k) = i
<1>1. Naming(k) = {j \in DOMAIN loaded : Names(loaded, j, k)} /\ i \in Naming(k)
        /\ \A j \in Naming(k) : j <= i
  BY DEF Naming, Names, Owns
<1>2. DOMAIN loaded \subseteq Nat
  OBVIOUS
<1>3. \A m \in Naming(k) : (\A j \in Naming(k) : j <= m) => m = i
  <2> SUFFICES ASSUME NEW m \in Naming(k), \A j \in Naming(k) : j <= m
               PROVE  m = i
    OBVIOUS
  <2>1. m \in Nat /\ i \in Nat /\ m <= i /\ i <= m
    BY <1>1, <1>2
  <2> QED BY ONLY <2>1
<1>4. Last(k) \in Naming(k) /\ \A j \in Naming(k) : j <= Last(k)
  BY <1>1 DEF Last
<1>5. k \in Named
  BY <1>1 DEF Named, Names
<1> QED BY <1>3, <1>4, <1>5

(* Unless loads that overlapped wrote last, the active rows are the keys   *)
(* the files list, with the values the files give them.                    *)
LEMMA RowsSayWhatFilesSay ==
    ASSUME TablesInv, mixed = {}, NEW k
    PROVE  /\ Active(k) <=> Listed(k)
           /\ Active(k) => rows[k].value = Said(k)
<1>1. loaded \in Seq(Entries) /\ DOMAIN loaded \subseteq Nat
  BY DEF TablesInv, InventoryTypes
<1>2. ASSUME k \in DOMAIN rows
      PROVE  /\ Active(k) <=> Listed(k)
             /\ Active(k) => rows[k].value = Said(k)
  <2>1. PICK i \in DOMAIN loaded : Owns(loaded, i, k) /\ rows[k].scope = loaded[i].scope
    BY <1>2 DEF TablesInv, RowsAreOwned
  <2>2. k \in Named /\ Last(k) = i
    BY <1>1, <2>1, LastIs
  <2>3. PICK j \in DOMAIN loaded : loaded[j].scope = loaded[i].scope /\ Newest(loaded, j)
    BY <1>1, NewestExists
  <2>4. Latest(j)
    BY <2>3 DEF Newest, Latest
  <2>5. /\ rows[k].active <=> k \in DOMAIN loaded[j].content
        /\ rows[k].active => rows[k].value = loaded[j].content[k]
    BY <1>2, <2>1, <2>3, <2>4 DEF TablesInv, TablesFollowFiles
  <2>6. i <= j
    BY <2>3 DEF Newest
  <2>7. i \in Nat /\ j \in Nat
    BY <1>1
  <2>8. ASSUME k \in DOMAIN loaded[j].content
        PROVE  i = j
    <3>1. j <= i
      BY <2>1, <2>8 DEF Owns, Names
    <3> QED BY <3>1, <2>6, <2>7
  <2>9. ASSUME Latest(i)
        PROVE  i = j
    <3>1. j <= i
      BY <2>3, <2>9 DEF Latest
    <3> QED BY <3>1, <2>6, <2>7
  <2>10. k \in DOMAIN loaded[i].content
    BY <2>1 DEF Owns, Names
  <2> QED BY <1>2, <2>2, <2>4, <2>5, <2>8, <2>9, <2>10 DEF Active, Listed, Said
<1>3. ASSUME k \notin DOMAIN rows
      PROVE  ~Active(k) /\ ~Listed(k)
  BY <1>3 DEF Active, Listed, Named, TablesInv, RowsAreOwned
<1> QED BY <1>2, <1>3

---------------------------------------------------------------------------
(* The steps of the pipeline job.                                          *)
LookingAt(j) == [pc : Looking, alert : Alerts, rules : SUBSET WellFormedRules, now : {j.now},
                 warned : BOOLEAN, present : BOOLEAN, criticality : {j.criticality},
                 privileged : {j.privileged}, reputation : {j.reputation}]

LEMMA LookingJob ==
    ASSUME JobTypes, job.pc \in Looking
    PROVE  job \in LookingAt(job)
BY DEF JobTypes, LookingAt, Looking, Idle

(* A job that is still looking is asked for nothing but its types and what *)
(* it was warned of.                                                       *)
LEMMA StillLooking ==
    ASSUME job' \in LookingAt(job'), WarningsAreRead'
    PROVE  JobInv'
BY DEF JobInv, JobTypes, LookingAt, Looking, ClosedIsClean, SimulationAgrees

LEMMA BeginKept ==
    ASSUME NEW a \in Alerts, NEW enabled \in SUBSET DOMAIN Rules, Begin(a, enabled)
    PROVE  JobInv'
<1> DEFINE new == [pc |-> "asset", alert |-> a, rules |-> LoadRules(enabled), now |-> clock,
                   warned |-> FALSE, present |-> FALSE, criticality |-> "unknown",
                   privileged |-> "null", reputation |-> "skipped"]
<1>1. LoadRules(enabled) \in SUBSET WellFormedRules
  BY DEF LoadRules, WellFormedRules
<1>2. new \in LookingAt(new) /\ new.pc = "asset" /\ ~new.warned
  BY <1>1 DEF LookingAt, Looking
<1>3. job' = new
  BY DEF Begin
<1> HIDE DEF new
<1>4. job' \in LookingAt(job') /\ WarningsAreRead'
  BY <1>2, <1>3 DEF WarningsAreRead
<1> QED BY <1>4, StillLooking

(* The two SELECTs of a host: whatever a reload does between them, each    *)
(* finds what the files say of the name it asks for.                       *)
LEMMA AssetKept ==
    ASSUME TablesInv, JobInv, LookupAsset
    PROVE  JobInv'
<1> DEFINE agent == Agent(job.alert)
           more == ~Active(agent) /\ OtherName(job.alert)
           pc == IF more THEN "origin" ELSE "identity"
           present == Active(agent)
           criticality == IF Active(agent) THEN rows[agent].value ELSE "unknown"
           warned == Warn(FilesBlockAgent(job.alert))
<1>1. job.pc = "asset" /\ job \in LookingAt(job) /\ ~job.warned
  BY LookingJob DEF LookupAsset, JobInv, Looking, WarningsAreRead
<1>2. job' = [job EXCEPT !.present = present, !.criticality = criticality, !.pc = pc,
                         !.warned = warned]
  BY DEF LookupAsset, Found
<1>3. present \in BOOLEAN /\ warned \in BOOLEAN /\ pc \in {"origin", "identity"}
  BY <1>1 DEF Active, Warn, LookingAt, TablesInv, InventoryTypes, IsRow
<1>4. ASSUME warned
      PROVE  pc = "identity" /\ (~present \/ criticality = "high")
  <2>1. FilesBlockAgent(job.alert) /\ mixed = {}
    BY <1>1, <1>4 DEF Warn
  <2>2. /\ Active(agent) <=> Listed(agent)
        /\ Active(agent) => rows[agent].value = Said(agent)
    BY <2>1, RowsSayWhatFilesSay
  <2> QED BY <2>1, <2>2 DEF FilesBlockAgent
<1> HIDE DEF present, criticality, warned, pc
<1>5. /\ job' \in LookingAt(job') /\ job'.pc = pc /\ job'.present = present
      /\ job'.criticality = criticality /\ job'.warned = warned
  BY <1>1, <1>2, <1>3 DEF LookingAt, Looking
<1>6. WarningsAreRead'
  BY <1>3, <1>4, <1>5 DEF WarningsAreRead, HostBlocks
<1> QED BY <1>5, <1>6, StillLooking

LEMMA OriginKept ==
    ASSUME TablesInv, JobInv, LookupOrigin
    PROVE  JobInv'
<1> DEFINE origin == Origin(job.alert)
           present == Active(origin)
           criticality == IF Active(origin) THEN rows[origin].value ELSE "unknown"
           warned == Warn(FilesBlockName(origin))
<1>1. job.pc = "origin" /\ job \in LookingAt(job) /\ ~job.warned
  BY LookingJob DEF LookupOrigin, JobInv, Looking, WarningsAreRead
<1>2. job' = [job EXCEPT !.present = present, !.criticality = criticality, !.pc = "identity",
                         !.warned = warned]
  BY <1>1 DEF LookupOrigin, Found, LookingAt
<1>3. present \in BOOLEAN /\ warned \in BOOLEAN
  BY <1>1 DEF Active, Warn, LookingAt, TablesInv, InventoryTypes, IsRow
<1>4. ASSUME warned
      PROVE  ~present \/ criticality = "high"
  <2>1. FilesBlockName(origin) /\ mixed = {}
    BY <1>1, <1>4 DEF Warn
  <2>2. /\ Active(origin) <=> Listed(origin)
        /\ Active(origin) => rows[origin].value = Said(origin)
    BY <2>1, RowsSayWhatFilesSay
  <2> QED BY <2>1, <2>2 DEF FilesBlockName
<1> HIDE DEF present, criticality, warned
<1>5. /\ job' \in LookingAt(job') /\ job'.pc = "identity" /\ job'.present = present
      /\ job'.criticality = criticality /\ job'.warned = warned
  BY <1>1, <1>2, <1>3 DEF LookingAt, Looking
<1>6. WarningsAreRead'
  BY <1>4, <1>5 DEF WarningsAreRead, HostBlocks
<1> QED BY <1>5, <1>6, StillLooking

LEMMA IdentityKept ==
    ASSUME TablesInv, JobInv, LookupIdentity
    PROVE  JobInv'
<1> DEFINE user == <<"identity", job.alert.user>>
           privileged == IF job.alert.user # Null /\ Active(user) THEN rows[user].value ELSE "null"
           warned == Warn(FilesBlockUser(job.alert))
<1>1. /\ job.pc = "identity" /\ job \in LookingAt(job)
      /\ job.warned => HostBlocks
  BY LookingJob DEF LookupIdentity, JobInv, Looking, WarningsAreRead
<1>2. job' = [job EXCEPT !.pc = "ioc", !.privileged = privileged, !.warned = warned]
  BY DEF LookupIdentity
<1>3. warned \in BOOLEAN
  BY <1>1 DEF Warn, LookingAt
<1>4. ASSUME warned, ~job.warned
      PROVE  privileged = "true"
  <2>1. FilesBlockUser(job.alert) /\ mixed = {}
    BY <1>4 DEF Warn
  <2>2. \A k : /\ Active(k) <=> Listed(k)
               /\ Active(k) => rows[k].value = Said(k)
    BY <2>1, RowsSayWhatFilesSay
  <2> QED BY <2>1, <2>2 DEF FilesBlockUser
<1> HIDE DEF privileged, warned
<1>5. /\ job' \in LookingAt(job') /\ job'.pc = "ioc" /\ job'.present = job.present
      /\ job'.criticality = job.criticality /\ job'.privileged = privileged
      /\ job'.warned = warned
  BY <1>1, <1>2, <1>3 DEF LookingAt, Looking
<1>6. WarningsAreRead'
  BY <1>1, <1>4, <1>5 DEF WarningsAreRead, HostBlocks, UserBlocks
<1> QED BY <1>5, <1>6, StillLooking

LEMMA IocKept ==
    ASSUME TablesInv, JobInv, LookupIoc
    PROVE  JobInv'
<1> DEFINE reputation == Reputation(job.alert)
           warned == Warn(FilesBlockAddress(job.alert))
<1>1. /\ job.pc = "ioc" /\ job \in LookingAt(job)
      /\ job.warned => HostBlocks \/ UserBlocks
  BY LookingJob DEF LookupIoc, JobInv, Looking, WarningsAreRead
<1>2. job' = [job EXCEPT !.pc = "decide", !.reputation = reputation, !.warned = warned]
  BY DEF LookupIoc
<1>3. warned \in BOOLEAN
  BY <1>1 DEF Warn, LookingAt
<1>4. ASSUME warned, ~job.warned
      PROVE  reputation \in Bad
  <2>1. FilesBlockAddress(job.alert) /\ mixed = {}
    BY <1>4 DEF Warn
  <2>2. PICK k \in Named : /\ Listed(k) /\ k[1] = "ioc" /\ k[2] \in Candidates(job.alert)
                           /\ Said(k).reputation \in Bad /\ job.now < Said(k).until
    BY <2>1 DEF FilesBlockAddress
  <2>3. Active(k) /\ rows[k].value = Said(k)
    BY <2>1, <2>2, RowsSayWhatFilesSay
  <2>4. k \in Matching(job.alert) /\ rows[k].value.reputation \in Bad
    BY <2>2, <2>3 DEF Matching, Active
  <2>5. reputation = Worst({rows[m].value.reputation : m \in Matching(job.alert)})
    BY <2>2, <2>4 DEF Reputation
  <2> HIDE DEF reputation
  <2> QED BY <2>4, <2>5 DEF Worst, Bad
<1> HIDE DEF reputation, warned
<1>5. /\ job' \in LookingAt(job') /\ job'.pc = "decide" /\ job'.present = job.present
      /\ job'.criticality = job.criticality /\ job'.privileged = job.privileged
      /\ job'.reputation = reputation /\ job'.warned = warned
  BY <1>1, <1>2, <1>3 DEF LookingAt, Looking
<1>6. WarningsAreRead'
  BY <1>1, <1>4, <1>5 DEF WarningsAreRead, HostBlocks, UserBlocks, AddressBlocks
<1> QED BY <1>5, <1>6, StillLooking

(* The oldest rule that matches.                                           *)
LEMMA FirstMatchIs ==
    ASSUME NEW rules \in SUBSET DOMAIN Rules, NEW fields, \E r \in rules : Matches(r, fields)
    PROVE  /\ FirstMatch(rules, fields) \in rules
           /\ Matches(FirstMatch(rules, fields), fields)
           /\ \A s \in rules : Matches(s, fields) => FirstMatch(rules, fields) <= s
<1> DEFINE matching == {r \in rules : Matches(r, fields)}
<1>1. matching \subseteq Nat /\ matching # {}
  BY AutoCloseAssumption
<1>2. PICK m \in matching : \A n \in matching : m <= n
  <2> HIDE DEF matching
  <2> QED BY <1>1, LeastNumber
<1>3. \E r \in rules : /\ Matches(r, fields)
                       /\ \A s \in rules : Matches(s, fields) => r <= s
  BY <1>2
<1> QED BY <1>3 DEF FirstMatch

(* What simulate rebuilds from the row of a head is what was compared.     *)
LEMMA RebuiltIs == \A closed : Rebuilt(OpenHead(closed)) = Fields
<1>1. <<Columns>> # <<>> /\ <<Columns>>[1] = Columns
  OBVIOUS
<1> QED BY <1>1 DEF Rebuilt, OpenHead, Row, Columns, Fields

LEMMA EvaluateKept ==
    ASSUME JobInv, Evaluate
    PROVE  JobInv'
<1> DEFINE matched == \E r \in job.rules : Matches(r, Fields)
           closed == ~HardBlocked(Fields) /\ matched
           flagged == job.alert.severity = "critical" /\ matched
           rule == IF closed THEN FirstMatch(job.rules, Fields) ELSE 0
           event == IF flagged THEN FirstMatch(job.rules, Fields) ELSE 0
           row == OpenHead(closed)
           new == [pc |-> IF closed THEN "closed" ELSE "queued", rules |-> job.rules,
                   row |-> row, warned |-> closed /\ job.warned,
                   rule |-> rule, event |-> event]
<1>1. /\ job.pc = "decide" /\ job \in LookingAt(job)
      /\ job.warned => HostBlocks \/ UserBlocks \/ AddressBlocks
  BY LookingJob DEF Evaluate, JobInv, Looking, WarningsAreRead
<1>2. job' = new
  BY DEF Evaluate
<1>3. job.rules \in SUBSET WellFormedRules /\ job.warned \in BOOLEAN
  BY <1>1 DEF LookingAt
<1>4. Rebuilt(row) = Fields
  BY RebuiltIs
<1>5. row.agent = job.alert.agent /\ row.severity = job.alert.severity
  BY DEF OpenHead, Row
<1>6. closed => /\ ~job.warned /\ row.severity # "critical" /\ row.agent \notin NeverAgents
  BY <1>1, <1>3, <1>5 DEF HardBlocked, Fields, HostBlocks, UserBlocks, AddressBlocks
<1>7. closed => /\ rule \in job.rules /\ Matches(rule, Fields)
                /\ \A s \in job.rules : Matches(s, Fields) => rule <= s
  BY <1>3, FirstMatchIs DEF WellFormedRules
<1>8. closed \in BOOLEAN
  OBVIOUS
<1> DEFINE said == {r \in job.rules : SimulateCloses(r, row)}
<1>9. /\ closed <=> said # {}
      /\ closed => rule \in said /\ \A r \in said : rule <= r
  <2>1. \A r \in job.rules : SimulateCloses(r, row) <=> ~HardBlocked(Fields) /\ Matches(r, Fields)
    BY <1>4 DEF SimulateCloses
  <2>2. (closed <=> said # {})
    BY <2>1
  <2> HIDE DEF rule
  <2>3. closed => rule \in said /\ \A r \in said : rule <= r
    BY <1>7, <2>1
  <2> QED BY <2>2, <2>3
<1> HIDE DEF rule, row, event
<1>10. /\ new \in [pc : {"closed", "queued"}, rules : SUBSET WellFormedRules, row : {row},
                   warned : BOOLEAN, rule : {rule}, event : {event}]
       /\ new.pc = (IF closed THEN "closed" ELSE "queued") /\ new.rules = job.rules
       /\ new.row = row /\ (new.warned <=> closed /\ job.warned) /\ new.rule = rule
       /\ new.event = event
  BY <1>3
<1> HIDE DEF new, closed
<1>11. JobTypes'
  BY <1>2, <1>10 DEF JobTypes
<1>12. WarningsAreRead'
  BY <1>2, <1>10 DEF WarningsAreRead
<1>13. ClosedIsClean'
  BY <1>2, <1>3, <1>6, <1>7, <1>10 DEF ClosedIsClean, WellFormedRules
<1>14. SimulationAgrees'
  BY <1>2, <1>9, <1>10 DEF SimulationAgrees, said, SimulateCloses
<1> QED BY <1>11, <1>12, <1>13, <1>14 DEF JobInv

LEMMA NoJobKept ==
    ASSUME job' = Idle
    PROVE  JobInv'
BY DEF JobInv, JobTypes, WarningsAreRead, ClosedIsClean, SimulationAgrees, Idle

LEMMA JobUnchanged ==
    ASSUME JobInv, job' = job
    PROVE  JobInv'
<1>1. JobTypes' /\ WarningsAreRead'
  BY DEF JobInv, JobTypes, WarningsAreRead, HostBlocks, UserBlocks, AddressBlocks
<1>2. ClosedIsClean' /\ SimulationAgrees'
  BY DEF JobInv, ClosedIsClean, SimulationAgrees
<1> QED BY <1>1, <1>2 DEF JobInv

---------------------------------------------------------------------------
LEMMA InitInv ==
    ASSUME Init
    PROVE  IInv
<1>1. /\ disk \in [Files -> UNION {Versions[f] : f \in Files}]
      /\ rows = Nothing /\ load = [l \in Loads |-> Idle]
      /\ loaded = <<>> /\ job = Idle
  BY DEF Init, InventoryInit
<1>2. DOMAIN rows = {} /\ DOMAIN loaded = {} /\ loaded \in Seq(Entries)
  BY <1>1 DEF Nothing
<1>3. \A l \in Loads : load[l] = Idle /\ ~Running(l) /\ IsLoad(load[l])
  BY <1>1 DEF Running, Idle, IsLoad
<1>4. InventoryTypes
  <2>1. disk \in [Files -> Contents \cup {Broken}]
    BY <1>1 DEF Contents
  <2> QED BY <2>1, <1>1, <1>2, <1>3 DEF InventoryTypes
<1>5. TablesInv
  BY <1>2, <1>3, <1>4
     DEF TablesInv, LocksAreHeldByOne, WritesComeFromFiles, RowsAreOwned, WritesAreOwned,
         LoneLoadsFollow, TablesFollowFiles
<1>6. JobInv
  BY <1>1 DEF JobInv, JobTypes, WarningsAreRead, ClosedIsClean, SimulationAgrees, Idle
<1> QED BY <1>5, <1>6 DEF IInv

LEMMA TablesKept ==
    ASSUME TablesInv, InventoryNext
    PROVE  TablesInv'
<1>1. /\ InventoryTypes /\ LocksAreHeldByOne /\ WritesComeFromFiles
      /\ RowsAreOwned /\ WritesAreOwned /\ LoneLoadsFollow
  BY DEF TablesInv
<1>2. InventoryTypes'
  BY <1>1, TypesKept
<1>3. LocksAreHeldByOne'
  BY <1>1, LocksKept
<1>4. WritesComeFromFiles'
  BY <1>1, ComesKept
<1>5. RowsAreOwned'
  BY <1>1, RowsKept
<1>6. WritesAreOwned'
  BY <1>1, OwnedKept
<1>7. LoneLoadsFollow'
  BY <1>1, LoneKept
<1>8. TablesFollowFiles'
  BY <1>5, FollowKept
<1> QED BY <1>2, <1>3, <1>4, <1>5, <1>6, <1>7, <1>8 DEF TablesInv

LEMMA TablesUnchanged ==
    ASSUME TablesInv, UNCHANGED inventory
    PROVE  TablesInv'
<1>1. disk' = disk /\ rows' = rows /\ load' = load /\ loaded' = loaded /\ mixed' = mixed
  BY DEF inventory
<1>2. InventoryTypes' /\ LocksAreHeldByOne' /\ WritesComeFromFiles'
  BY <1>1 DEF TablesInv, InventoryTypes, LocksAreHeldByOne, WritesComeFromFiles, Running
<1>3. RowsAreOwned' /\ WritesAreOwned'
  BY <1>1 DEF TablesInv, RowsAreOwned, WritesAreOwned, OwnedBy, Running
<1>4. LoneLoadsFollow' /\ TablesFollowFiles'
  BY <1>1 DEF TablesInv, LoneLoadsFollow, TablesFollowFiles, Running, Visible, Newest, Follows,
              Latest
<1> QED BY <1>2, <1>3, <1>4 DEF TablesInv

LEMMA NextInv ==
    ASSUME IInv, [Next]_vars
    PROVE  IInv'
<1>0. TablesInv /\ JobInv
  BY DEF IInv
<1>1. ASSUME InventoryNext, UNCHANGED <<clock, job>>
      PROVE  IInv'
  BY <1>0, <1>1, TablesKept, JobUnchanged DEF IInv
<1>2. ASSUME PipelineNext
      PROVE  IInv'
  <2>1. UNCHANGED inventory
    BY <1>2 DEF PipelineNext, Begin, LookupAsset, LookupOrigin, LookupIdentity, LookupIoc,
                Evaluate, JobFails
  <2>2. ASSUME NEW a \in Alerts, NEW enabled \in SUBSET DOMAIN Rules, Begin(a, enabled)
        PROVE  JobInv'
    BY <2>2, BeginKept
  <2>3. JobInv'
    BY <1>0, <1>2, <2>2, AssetKept, OriginKept, IdentityKept, IocKept, EvaluateKept, NoJobKept
       DEF PipelineNext, JobFails
  <2> QED BY <1>0, <2>1, <2>3, TablesUnchanged DEF IInv
<1>3. CASE Tick
  BY <1>0, <1>3, TablesUnchanged, JobUnchanged DEF IInv, Tick
<1>4. CASE UNCHANGED vars
  BY <1>0, <1>4, TablesUnchanged, JobUnchanged DEF IInv, vars
<1> QED BY <1>1, <1>2, <1>3, <1>4 DEF Next

(* The inductive invariant of the reloads and of the pipeline job          *)
(* (enrichment/inventory.py, soar/pipeline.py): types, row locks held by   *)
(* one load, every row in the scope of the file that named it last, a      *)
(* lone load following the files it took, and every warning the files gave *)
(* of a name when its SELECT ran among what the job has read.              *)
THEOREM Invariant == Spec => []IInv
<1>1. Init => IInv
  BY InitInv
<1>2. IInv /\ [Next]_vars => IInv'
  BY NextInv
<1> QED BY <1>1, <1>2, PTL DEF Spec

(* However reloads overlap, fail and follow one another, once overlapping  *)
(* loads of a scope have been followed by one that ran alone, the scope's  *)
(* active rows are those of the version last loaded (inventory.py: load).  *)
THEOREM TablesFollow == Spec => []TablesFollowFiles
<1>1. IInv => TablesFollowFiles
  BY DEF IInv, TablesInv
<1> QED BY <1>1, Invariant, PTL

(* For any files, rules, alerts and interleaving of reloads with the four  *)
(* SELECTs of the lookups, nothing the files said, when a SELECT ran, of   *)
(* the name, the user or the addresses it asked for speaks against an      *)
(* alert closed by rule (pipeline.py: run_pipeline_job; autoclose.py:      *)
(* hard_blocked).  It does not follow that one version of the files let    *)
(* the host be closed: the agent and the origin are asked for apart.       *)
THEOREM ClosedAreClean == Spec => []ClosedIsClean
<1>1. IInv => ClosedIsClean
  BY DEF IInv, JobInv
<1> QED BY <1>1, Invariant, PTL

(* simulate, over the rows the pipeline stores, closes exactly what        *)
(* evaluate closed, and the rule evaluate named is the oldest of those     *)
(* (autoclose.py: evaluate, simulate).                                     *)
THEOREM SimulationIsExact == Spec => []SimulationAgrees
<1>1. IInv => SimulationAgrees
  BY DEF IInv, JobInv
<1> QED BY <1>1, Invariant, PTL
=============================================================================
