------------------------------ MODULE Inventory ------------------------------
(***************************************************************************)
(* The hand-written inventory files and the three tables they are loaded   *)
(* into (enrichment/inventory.py).  An administrator's request runs load() *)
(* in one transaction: validate() reads every file, then each file is read *)
(* again, its rows are upserted and the rows of its scope that it no       *)
(* longer names are made inactive.                                         *)
(*                                                                         *)
(* A row is found by its key: <<"asset", host>>, <<"identity", user>> or   *)
(* <<"ioc", value, source>>.  A YAML file's scope is the rows whose source *)
(* column is its basename; a CSV's scope is every IoC.  The statements of  *)
(* one file are one step here: their row locks keep them together, except  *)
(* that the other transaction may commit between two of them.              *)
(***************************************************************************)
EXTENDS Naturals, Sequences

CONSTANTS
    Files,     \* basenames an administrator can list in INVENTORY_PATHS; one
               \* whose contents change from assets to identities counts as two
    Csv,       \* those that hold IoCs
    Versions,  \* Versions[file], the contents it can have: key -> value
    Broken,    \* a content validate() refuses, caught half written
    PathLists, \* the values INVENTORY_PATHS can have, one after another
    Loads,     \* requests that can run at the same time
    MaxEdits, MaxLoads   \* bounds of the model

ASSUME InventoryAssumption ==
    /\ Csv \subseteq Files
    /\ \A f \in Files : Broken \notin Versions[f]
    /\ PathLists \subseteq Seq(Files)
    /\ MaxEdits \in Nat /\ MaxLoads \in Nat

VARIABLES
    disk,     \* file -> what is in it
    rows,     \* key -> [value, scope, active], the committed rows
    load,     \* request -> idle, or how far its load() is
    edits, loads,
    \* history:
    loaded,   \* [scope, content] of each file of each committed load, in order
    mixed     \* scopes last written by loads that ran at the same time

inventory == <<disk, rows, load, edits, loads, loaded, mixed>>

---------------------------------------------------------------------------
Scope(f) == IF f \in Csv THEN "iocs" ELSE f
Nothing == [k \in {} |-> {}]
Idle == [pc |-> "idle"]

InventoryInit ==
    /\ disk \in [Files -> UNION {Versions[f] : f \in Files}]
    /\ \A f \in Files : disk[f] \in Versions[f]
    /\ rows = Nothing /\ load = [l \in Loads |-> Idle]
    /\ edits = 0 /\ loads = 0 /\ loaded = <<>> /\ mixed = {}

Running(l) == load[l].pc = "running"
Others(l) == {o \in Loads \ {l} : Running(o)}

Over(new, old) ==
    [k \in DOMAIN new \cup DOMAIN old |-> IF k \in DOMAIN new THEN new[k] ELSE old[k]]

(* A transaction sees its own writes over what is committed.               *)
Visible(l) == Over(load[l].own, rows)

Edit(f, version) ==
    /\ edits < MaxEdits /\ version # disk[f]
    /\ disk' = [disk EXCEPT ![f] = version] /\ edits' = edits + 1
    /\ UNCHANGED <<rows, load, loads, loaded, mixed>>

(* validate(): every file is there, is one of the three kinds, and each of  *)
(* its entries has its fields, within the values the tables accept, once.  *)
Valid(paths) == \A i \in DOMAIN paths : disk[paths[i]] # Broken

(* A load that validate() refuses changes nothing. *)
LoadBegin(l, paths) ==
    /\ ~Running(l) /\ loads < MaxLoads
    /\ Valid(paths)
    /\ load' = [o \in Loads |->
                  IF o = l
                    THEN [pc |-> "running", paths |-> paths, own |-> Nothing,
                          taken |-> <<>>, lone |-> Others(l) = {}]
                    ELSE IF Running(o) THEN [load[o] EXCEPT !.lone = FALSE] ELSE Idle]
    /\ loads' = loads + 1
    /\ UNCHANGED <<disk, rows, edits, loaded, mixed>>

Upserted(f, content) ==
    [k \in DOMAIN content |-> [value |-> content[k], scope |-> Scope(f), active |-> TRUE]]

Absent(l, f, content) ==
    {k \in DOMAIN Visible(l) \ DOMAIN content :
        Visible(l)[k].active /\ Visible(l)[k].scope = Scope(f)}

Inactive(l, keys) == [k \in keys |-> [Visible(l)[k] EXCEPT !.active = FALSE]]

(* Mutant: a row the file no longer names stays as it is.                  *)
WritesUpsertsOnly(l, f, content) == Upserted(f, content)

Writes(l, f, content) == Over(Upserted(f, content), Inactive(l, Absent(l, f, content)))

(* The second reading of a file.  What stopped being YAML is skipped; a    *)
(* CSV without its header is taken for one without rows.                   *)
Content(f) == IF disk[f] = Broken THEN Nothing ELSE disk[f]
Skipped(f) == disk[f] = Broken /\ f \notin Csv

LoadFile(l) ==
    /\ Running(l) /\ load[l].paths # <<>>
    /\ LET f == Head(load[l].paths)
           written == Writes(l, f, Content(f))
       IN IF Skipped(f)
            THEN load' = [load EXCEPT ![l].paths = Tail(@)]
            ELSE /\ \A o \in Others(l) : DOMAIN written \cap DOMAIN load[o].own = {}
                 /\ load' = [load EXCEPT ![l].paths = Tail(@), ![l].own = Over(written, @),
                               ![l].taken = Append(@, [scope |-> Scope(f), content |-> Content(f)])]
    /\ UNCHANGED <<disk, rows, edits, loads, loaded, mixed>>

Scopes(entries) == {entries[i].scope : i \in DOMAIN entries}

LoadCommit(l) ==
    /\ Running(l) /\ load[l].paths = <<>>
    /\ rows' = Visible(l)
    /\ LET taken == load[l].taken
       IN /\ loaded' = loaded \o taken
          /\ mixed' = IF load[l].lone THEN mixed \ Scopes(taken) ELSE mixed \cup Scopes(taken)
    /\ load' = [load EXCEPT ![l] = Idle]
    /\ UNCHANGED <<disk, edits, loads>>

(* A file that cannot be read, a row the table refuses, a lost connection, *)
(* a deadlock: the transaction is rolled back.                             *)
LoadFails(l) ==
    /\ Running(l)
    /\ load' = [load EXCEPT ![l] = Idle]
    /\ UNCHANGED <<disk, rows, edits, loads, loaded, mixed>>

InventoryNext ==
    \/ \E f \in Files : \E version \in Versions[f] \cup {Broken} : Edit(f, version)
    \/ \E l \in Loads : \/ \E paths \in PathLists : LoadBegin(l, paths)
                        \/ LoadFile(l) \/ LoadCommit(l) \/ LoadFails(l)

---------------------------------------------------------------------------
Active(k) == k \in DOMAIN rows /\ rows[k].active

(* What a scope was loaded from last. *)
Latest(i) == \A j \in DOMAIN loaded : loaded[j].scope = loaded[i].scope => j <= i

(* Once loads that overlapped have been followed by one that ran alone,    *)
(* the active rows a file wrote last are the rows of the version of it     *)
(* that was last loaded, with the values that version gives them: no       *)
(* earlier version, other file or abandoned transaction shows through      *)
(* (load, _load_assets, _load_identities, _load_iocs).                     *)
TablesFollowFiles ==
    \A i \in DOMAIN loaded :
        LET scope == loaded[i].scope
            content == loaded[i].content
        IN /\ DOMAIN content \subseteq DOMAIN rows
           /\ Latest(i) /\ scope \notin mixed =>
                \A k \in DOMAIN rows : rows[k].scope = scope =>
                    /\ rows[k].active <=> k \in DOMAIN content
                    /\ rows[k].active => rows[k].value = content[k]
=============================================================================
