---------------------------- MODULE IntakeProofs ----------------------------
(***************************************************************************)
(* What the intake keeps for any documents, sessions, page size, overlap   *)
(* and clock: the ledger is complete, the cursor leaves nothing behind it, *)
(* and it moves back only in a pull that another pull overtook.            *)
(***************************************************************************)
EXTENDS Intake, FiniteSetTheorems, WellFoundedInduction, TLAPS

(* What the sessions are timed by: nothing is dated after the clock, and a *)
(* pull ends MaxPull after it began.                                       *)
Clocked ==
  /\ \A d \in Documents : stamp[d] <= now
  /\ cursor <= now
  /\ \A s \in Sessions : after[s] <= now /\ final[s] <= now
  /\ \A p \in Pullers : at[p] # "idle" =>
       begun[p] <= now /\ now <= begun[p] + MaxPull /\ start[p] <= begun[p]

(* A cursor is the timestamp of a document. *)
Dated(c) == c # 0 => \E d \in Documents : stamp[d] = c
Anchored == /\ Dated(cursor)
            /\ \A s \in Sessions : Dated(start[s]) /\ Dated(after[s])

(* A session stores a page in order and ends on its last hit; before it    *)
(* commits it has passed the cursor it began from.                         *)
InOrder(s) ==
  /\ \A d \in page[s] : Indexed(d) /\ stamp[d] <= after[s]
  /\ at[s] = "store" => \E d \in page[s] : stamp[d] = after[s]
  /\ at[s] # "store" => /\ page[s] = {}
                        /\ final[s] = after[s] \/ (after[s] = 0 /\ final[s] = start[s])
  /\ at[s] = "commit" \/ (at[s] = "store" /\ ~more[s]) => start[s] <= after[s]
  /\ at[s] \in {"idle", "replay"} => after[s] = 0 /\ final[s] = start[s]
Ordered == \A s \in Sessions : InOrder(s)

(* A document no other shares its timestamp with, and that is not stored,  *)
(* is in the window of the next pull.                                      *)
Missed(d) == d \in Documents /\ Indexed(d) /\ ~Tied(d) /\ d \notin rows
Ahead == \A d \in Documents : Missed(d) => Gte(cursor) <= stamp[d]

(* A pull on its way has it still before it, has it in hand, or began so   *)
(* late that the overlap of the pull after it covers the document.         *)
Passing == \A p \in Pullers : \A d \in Documents : at[p] # "idle" /\ Missed(d) =>
  \/ begun[p] <= stamp[d] + Lateness
  \/ /\ Gte(start[p]) <= stamp[d]
     /\ d \in new[p] \/ d \in page[p] \/ after[p] < stamp[d]

IInv == TypeOK /\ Clocked /\ Anchored /\ Ordered /\ Ahead /\ Passing

-----------------------------------------------------------------------------
(* Subsets of the naturals have a least element, and a bounded one has a   *)
(* greatest.                                                               *)
Below == {ss \in Nat \X Nat : ss[1] < ss[2]}

LEMMA LeastNumber ==
  ASSUME NEW S, S \subseteq Nat, S # {}
  PROVE  \E m \in S : \A n \in S : m <= n
<1>1. Below = OpToRel(<, Nat)  BY DEF Below, OpToRel
<1>2. IsWellFoundedOn(Below, Nat)  BY <1>1, NatLessThanWellFounded
<1>3. PICK m \in S : \A n \in S : <<n, m>> \notin Below  BY <1>2, WFMin
<1>4. ASSUME NEW n \in S PROVE m <= n
  <2>1. n \in Nat /\ m \in Nat  OBVIOUS
  <2>2. <<n, m>> \notin Below  BY <1>3
  <2>3. ~ (n < m)  BY <2>1, <2>2 DEF Below
  <2> QED BY <2>1, <2>3
<1> QED BY <1>4

LEMMA MinOf ==
  ASSUME NEW S, S \subseteq Nat, S # {}
  PROVE  Min(S) \in S /\ \A x \in S : Min(S) <= x
<1>1. \E m \in S : \A n \in S : m <= n  BY LeastNumber
<1> QED BY <1>1 DEF Min

LEMMA MaxOf ==
  ASSUME NEW m \in Nat, NEW S, S \subseteq 0 .. m, S # {}
  PROVE  Max(S) \in S /\ \A x \in S : x <= Max(S)
<1>0. \A y \in S : y \in Nat  OBVIOUS
<1> DEFINE bounds == {u \in Nat : \A x \in S : x <= u}
<1>1. m \in bounds  OBVIOUS
<1>2. PICK u \in bounds : \A v \in bounds : u <= v
  <2>1. bounds \subseteq Nat /\ bounds # {}  BY <1>1
  <2> HIDE DEF bounds
  <2> QED BY <2>1, LeastNumber
<1>3. u \in S
  <2>1. PICK x : x \in S  OBVIOUS
  <2>2. x \in Nat /\ x <= u /\ u \in Nat  BY <2>1
  <2> SUFFICES ASSUME u \notin S PROVE FALSE
    OBVIOUS
  <2>3. u - 1 \in Nat  BY <2>1, <2>2
  <2>4. \A y \in S : y <= u - 1
    <3> SUFFICES ASSUME NEW y \in S PROVE y <= u - 1
      OBVIOUS
    <3>1. y \in Nat /\ y <= u /\ y # u /\ u \in Nat  OBVIOUS
    <3> QED BY <3>1
  <2>5. u - 1 \in bounds  BY <2>3, <2>4
  <2>6. u <= u - 1  BY <1>2, <2>5
  <2> QED BY <2>2, <2>6
<1>4. \E x \in S : \A y \in S : x >= y
  <2>1. \A y \in S : u >= y
    <3> SUFFICES ASSUME NEW y \in S PROVE u >= y
      OBVIOUS
    <3>1. y <= u /\ y \in Nat /\ u \in Nat  OBVIOUS
    <3> QED BY <3>1
  <2> QED BY <1>3, <2>1
<1>5. Max(S) \in S /\ \A y \in S : Max(S) >= y  BY <1>4 DEF Max
<1>6. ASSUME NEW y \in S PROVE y <= Max(S)
  <2>1. Max(S) >= y /\ Max(S) \in S /\ y \in S  BY <1>5
  <2>2. Max(S) \in Nat /\ y \in Nat  BY <1>0, <2>1
  <2> QED BY <2>1, <2>2
<1> QED BY <1>5, <1>6

LEMMA GteFacts ==
  ASSUME NEW c \in Nat
  PROVE  /\ Gte(c) \in Nat /\ Gte(c) <= c
         /\ \A t \in Nat : c <= t + Overlap => Gte(c) <= t
BY OverlapAssumption DEF Gte

-----------------------------------------------------------------------------
(* What the steps write. *)
Untouched(s) == \A t \in Sessions : t # s =>
  /\ at'[t] = at[t] /\ start'[t] = start[t] /\ begun'[t] = begun[t] /\ after'[t] = after[t]
  /\ page'[t] = page[t] /\ more'[t] = more[t] /\ final'[t] = final[t] /\ new'[t] = new[t]

LEMMA BeginWrites ==
  ASSUME TypeOK, NEW s \in Sessions, Begin(s)
  PROVE  /\ Untouched(s) /\ at[s] = "idle"
         /\ at'[s] = IF s \in Replays THEN "replay" ELSE "fetch"
         /\ start'[s] = IF s \in Pullers THEN cursor ELSE 0
         /\ final'[s] = start'[s]
         /\ begun'[s] = IF s \in Pullers THEN now ELSE 0
         /\ after'[s] = after[s] /\ page'[s] = page[s] /\ more'[s] = more[s] /\ new'[s] = new[s]
         /\ UNCHANGED <<now, stamp, tables>>
BY DEF Begin, TypeOK, Untouched

LEMMA LeavesWrites ==
  ASSUME TypeOK, NEW s \in Sessions, Leaves(s)
  PROVE  /\ Untouched(s)
         /\ at'[s] = "idle" /\ start'[s] = 0 /\ begun'[s] = 0 /\ after'[s] = 0
         /\ page'[s] = {} /\ more'[s] = FALSE /\ final'[s] = 0 /\ new'[s] = {}
BY DEF Leaves, TypeOK, Untouched

LEMMA StoresWrites ==
  ASSUME TypeOK, NEW s \in Sessions, NEW d, Stores(s, d)
  PROVE  /\ Untouched(s) /\ at[s] = "store" /\ d \in page[s] \ Faulty
         /\ new'[s] = new[s] \cup ({d} \ rows) /\ final'[s] = stamp[d] /\ page'[s] = page[s] \ {d}
         /\ at'[s] = IF page[s] # {d} THEN "store" ELSE IF more[s] THEN "fetch" ELSE "commit"
         /\ start'[s] = start[s] /\ begun'[s] = begun[s] /\ after'[s] = after[s]
         /\ more'[s] = more[s]
         /\ UNCHANGED <<now, stamp, tables>>
BY DEF Stores, TypeOK, Untouched

LEMMA LineWrites ==
  ASSUME TypeOK, NEW s \in Sessions, NEW d, ReplayLine(s, d)
  PROVE  /\ new'[s] = new[s] \cup ({d} \ rows) /\ \A t \in Sessions : t # s => new'[t] = new[t]
         /\ UNCHANGED <<now, stamp, tables, at, start, begun, after, page, more, final>>
BY DEF ReplayLine, TypeOK

(* A fetched page: empty only when nothing is visible, else a first part   *)
(* of what is, and all of it unless it is full.                            *)
LEMMA FetchWrites ==
  ASSUME TypeOK, NEW s \in Sessions, Fetch(s)
  PROVE  /\ Untouched(s) /\ at[s] = "fetch"
         /\ start'[s] = start[s] /\ begun'[s] = begun[s] /\ final'[s] = final[s]
         /\ new'[s] = new[s]
         /\ UNCHANGED <<now, stamp, tables>>
         /\ page'[s] \subseteq Visible(s)
         /\ page'[s] = {} => Visible(s) = {}
         /\ page'[s] = Visible(s) \/ more'[s] = TRUE
         /\ \A x \in page'[s], y \in Visible(s) \ page'[s] : stamp[x] <= stamp[y]
         /\ more'[s] \in BOOLEAN
         /\ at'[s] = IF page'[s] = {} THEN "commit" ELSE "store"
         /\ IF page'[s] = {} THEN after'[s] = after[s]
            ELSE /\ \E d \in page'[s] : stamp[d] = after'[s]
                 /\ \A d \in page'[s] : stamp[d] <= after'[s]
<1>1. PICK p \in Pages(Visible(s)) :
        /\ page' = [page EXCEPT ![s] = p]
        /\ more' = [more EXCEPT ![s] = Cardinality(p) = PageSize]
        /\ after' = [after EXCEPT ![s] = IF p = {} THEN @ ELSE Max(Stamps(p))]
        /\ at' = [at EXCEPT ![s] = IF p = {} THEN "commit" ELSE "store"]
  BY DEF Fetch
<1>2. /\ UNCHANGED <<now, stamp, tables, start, begun, final, new>> /\ at[s] = "fetch"
  BY DEF Fetch
<1>3. /\ page'[s] = p /\ more'[s] = (Cardinality(p) = PageSize)
      /\ after'[s] = IF p = {} THEN after[s] ELSE Max(Stamps(p))
      /\ at'[s] = IF p = {} THEN "commit" ELSE "store"
      /\ Untouched(s)
  BY <1>1, <1>2 DEF TypeOK, Untouched
<1>4. /\ p \subseteq Visible(s)
      /\ Cardinality(p) = PageSize \/ p = Visible(s)
      /\ \A x \in p, y \in Visible(s) \ p : stamp[x] <= stamp[y]
  BY DEF Pages
<1>5. p = {} => Visible(s) = {}
  BY <1>4, FS_EmptySet, DocumentAssumption
<1>6. p # {} => /\ \E d \in p : stamp[d] = Max(Stamps(p))
                /\ \A d \in p : stamp[d] <= Max(Stamps(p))
  <2> SUFFICES ASSUME p # {} PROVE /\ \E d \in p : stamp[d] = Max(Stamps(p))
                                   /\ \A d \in p : stamp[d] <= Max(Stamps(p))
    OBVIOUS
  <2>1. Stamps(p) \subseteq 0 .. MaxTime /\ MaxTime \in Nat
    BY <1>4, OverlapAssumption DEF Stamps, Visible, TypeOK
  <2>2. Stamps(p) # {}  BY DEF Stamps
  <2>3. Max(Stamps(p)) \in Stamps(p) /\ \A x \in Stamps(p) : x <= Max(Stamps(p))
    BY <2>1, <2>2, MaxOf
  <2> QED BY <2>3 DEF Stamps
<1>7. more'[s] \in BOOLEAN  BY <1>3
<1>8. /\ start'[s] = start[s] /\ begun'[s] = begun[s] /\ final'[s] = final[s]
      /\ new'[s] = new[s]
  BY <1>2
<1>9. p = Visible(s) \/ more'[s] = TRUE  BY <1>3, <1>4
<1> HIDE DEF Visible
<1> QED BY <1>2, <1>3, <1>4, <1>5, <1>6, <1>7, <1>8, <1>9

(* The next hit of a page. *)
LEMMA FirstIsLeast ==
  ASSUME TypeOK, NEW s \in Sessions, NEW d \in First(s)
  PROVE  d \in page[s] /\ \A e \in page[s] : stamp[d] <= stamp[e]
<1>1. d \in page[s] /\ stamp[d] = Min(Stamps(page[s]))  BY DEF First
<1>2. Stamps(page[s]) \subseteq Nat  BY DEF Stamps, TypeOK
<1>3. Stamps(page[s]) # {}  BY <1>1 DEF Stamps
<1>4. \A x \in Stamps(page[s]) : Min(Stamps(page[s])) <= x  BY <1>2, <1>3, MinOf
<1> QED BY <1>1, <1>4 DEF Stamps

-----------------------------------------------------------------------------
(* The types. *)
LEMMA AppendTypes ==
  ASSUME TypeOK, NEW docs, docs \subseteq Documents \ Faulty, Append(docs)
  PROVE  /\ rows' \subseteq Documents \ Faulty
         /\ receipt' \in [Documents -> {"none", "heartbeat", "processed", "rejected"}]
         /\ job' \in [Documents -> {"none", "live", "succeeded", "failed"}]
BY DEF Append, TypeOK

SessionsTyped ==
  /\ at \in [Sessions -> {"idle", "fetch", "store", "commit", "replay"}]
  /\ start \in [Sessions -> 0 .. MaxTime]
  /\ begun \in [Sessions -> 0 .. MaxTime]
  /\ after \in [Sessions -> 0 .. MaxTime]
  /\ page \in [Sessions -> SUBSET Documents]
  /\ more \in [Sessions -> BOOLEAN]
  /\ final \in [Sessions -> 0 .. MaxTime]
  /\ new \in [Sessions -> SUBSET (Documents \ Faulty)]

LEMMA LeavesTypes ==
  ASSUME TypeOK, NEW s \in Sessions, Leaves(s)
  PROVE  SessionsTyped'
<1>1. 0 \in 0 .. MaxTime  BY OverlapAssumption
<1> QED BY <1>1 DEF Leaves, TypeOK, SessionsTyped

LEMMA FetchTypes ==
  ASSUME TypeOK, NEW s \in Sessions, Fetch(s)
  PROVE  SessionsTyped'
<1>1. PICK p \in Pages(Visible(s)) :
        /\ page' = [page EXCEPT ![s] = p]
        /\ more' = [more EXCEPT ![s] = Cardinality(p) = PageSize]
        /\ after' = [after EXCEPT ![s] = IF p = {} THEN @ ELSE Max(Stamps(p))]
        /\ at' = [at EXCEPT ![s] = IF p = {} THEN "commit" ELSE "store"]
  BY DEF Fetch
<1>2. UNCHANGED <<start, begun, final, new>>  BY DEF Fetch
<1>3. p \subseteq Documents  BY DEF Pages, Visible
<1>4. p # {} => Max(Stamps(p)) \in 0 .. MaxTime
  <2>1. Stamps(p) \subseteq 0 .. MaxTime /\ MaxTime \in Nat
    BY <1>3, OverlapAssumption DEF Stamps, TypeOK
  <2>2. p # {} => Stamps(p) # {}  BY DEF Stamps
  <2> QED BY <2>1, <2>2, MaxOf
<1>5. more' \in [Sessions -> BOOLEAN]  BY <1>1 DEF TypeOK
<1>6. page' \in [Sessions -> SUBSET Documents]  BY <1>1, <1>3 DEF TypeOK
<1>7. after' \in [Sessions -> 0 .. MaxTime]  BY <1>1, <1>4 DEF TypeOK
<1>8. at' \in [Sessions -> {"idle", "fetch", "store", "commit", "replay"}]
  BY <1>1 DEF TypeOK
<1> QED BY <1>2, <1>5, <1>6, <1>7, <1>8 DEF TypeOK, SessionsTyped

LEMMA StoresTypes ==
  ASSUME TypeOK, NEW s \in Sessions, NEW d, Stores(s, d)
  PROVE  SessionsTyped'
<1>1. d \in Documents \ Faulty /\ stamp[d] \in 0 .. MaxTime  BY DEF Stores, TypeOK
<1>2. new' \in [Sessions -> SUBSET (Documents \ Faulty)]  BY <1>1 DEF Stores, TypeOK
<1>3. page' \in [Sessions -> SUBSET Documents]  BY DEF Stores, TypeOK
<1>4. final' \in [Sessions -> 0 .. MaxTime]  BY <1>1 DEF Stores, TypeOK
<1>5. at' \in [Sessions -> {"idle", "fetch", "store", "commit", "replay"}]
  BY DEF Stores, TypeOK
<1> QED BY <1>2, <1>3, <1>4, <1>5 DEF Stores, TypeOK, SessionsTyped

LEMMA TypesKept == TypeOK /\ [Next]_vars => TypeOK'
<1> SUFFICES ASSUME TypeOK, [Next]_vars PROVE TypeOK'
  OBVIOUS
<1>a. TypeOK = (/\ now \in 1..MaxTime
                /\ stamp \in [Documents -> 0..MaxTime]
                /\ rows \subseteq Documents \ Faulty
                /\ receipt \in [Documents -> {"none", "heartbeat", "processed", "rejected"}]
                /\ job \in [Documents -> {"none", "live", "succeeded", "failed"}]
                /\ cursor \in 0..MaxTime
                /\ loop \in {"armed", "retry", "ended"}
                /\ SessionsTyped)
  BY DEF TypeOK, SessionsTyped
<1>b. ASSUME UNCHANGED session PROVE SessionsTyped'
  BY <1>b DEF session, TypeOK, SessionsTyped
<1>c. /\ 0 \in 0 .. MaxTime /\ now \in 0 .. MaxTime /\ MaxTime \in Nat
  BY OverlapAssumption DEF TypeOK
<1>1. ASSUME NEW d \in Documents, NEW t \in 1 .. now, Index(d, t) PROVE TypeOK'
  <2>1. t \in 0 .. MaxTime  BY <1>1, <1>c DEF TypeOK
  <2>2. stamp' \in [Documents -> 0 .. MaxTime]  BY <1>1, <2>1 DEF Index, TypeOK
  <2> QED BY <1>1, <2>2 DEF Index, TypeOK, tables, session
<1>2. ASSUME Tick PROVE TypeOK'
  <2>1. now' \in 1 .. MaxTime  BY <1>2, <1>c DEF Tick, TypeOK
  <2> QED BY <1>2, <2>1 DEF Tick, TypeOK, tables, session
<1>3. ASSUME NEW s \in Sessions, Begin(s) PROVE TypeOK'
  <2>1. /\ start' \in [Sessions -> 0 .. MaxTime] /\ final' \in [Sessions -> 0 .. MaxTime]
        /\ begun' \in [Sessions -> 0 .. MaxTime]
    BY <1>3, <1>c DEF Begin, TypeOK
  <2>2. at' \in [Sessions -> {"idle", "fetch", "store", "commit", "replay"}]
    BY <1>3 DEF Begin, TypeOK
  <2> QED BY <1>3, <2>1, <2>2 DEF Begin, TypeOK, tables
<1>4. ASSUME NEW s \in Sessions, Fetch(s) PROVE TypeOK'
  <2>1. UNCHANGED <<now, stamp, tables>>  BY <1>4 DEF Fetch
  <2> QED BY <1>4, <2>1, FetchTypes DEF TypeOK, SessionsTyped, tables
<1>5. ASSUME NEW s \in Sessions, Store(s) PROVE TypeOK'
  <2>1. PICK d \in First(s) : Stores(s, d)  BY <1>5 DEF Store
  <2>2. UNCHANGED <<now, stamp, tables>>  BY <2>1 DEF Stores
  <2> QED BY <2>1, <2>2, StoresTypes DEF TypeOK, SessionsTyped, tables
<1>6. ASSUME NEW s \in Sessions, Commit(s) PROVE TypeOK'
  <2>1. new[s] \subseteq Documents \ Faulty  BY DEF TypeOK
  <2>2. /\ Append(new[s]) /\ Leaves(s) /\ UNCHANGED <<now, stamp>>
        /\ cursor' \in {final[s], cursor} /\ loop' \in {"armed", "ended", loop}
    BY <1>6 DEF Commit
  <2>3. SessionsTyped'  BY <2>2, LeavesTypes
  <2>4. final[s] \in 0 .. MaxTime  BY DEF TypeOK
  <2>5. /\ rows' \subseteq Documents \ Faulty
        /\ receipt' \in [Documents -> {"none", "heartbeat", "processed", "rejected"}]
        /\ job' \in [Documents -> {"none", "live", "succeeded", "failed"}]
    BY <2>1, <2>2, AppendTypes
  <2> QED BY <2>2, <2>3, <2>4, <2>5 DEF TypeOK, SessionsTyped
<1>7. ASSUME NEW s \in Sessions, Fails(s) \/ Poisoned(s) PROVE TypeOK'
  <2>1. /\ Leaves(s) /\ UNCHANGED <<now, stamp, rows, receipt, job, cursor>>
        /\ loop' \in {"retry", "ended", loop}
    BY <1>7 DEF Fails, Poisoned
  <2>2. SessionsTyped'  BY <2>1, LeavesTypes
  <2> QED BY <2>1, <2>2 DEF TypeOK, SessionsTyped
<1>8. ASSUME NEW s \in Replays, NEW d \in Archive, ReplayLine(s, d) PROVE TypeOK'
  <2>1. d \in Documents \ Faulty /\ s \in Sessions
    BY DocumentAssumption DEF Documents, Sessions
  <2>2. new' \in [Sessions -> SUBSET (Documents \ Faulty)]
    BY <1>8, <2>1 DEF ReplayLine, TypeOK
  <2> QED BY <1>8, <2>2 DEF ReplayLine, TypeOK, tables
<1>9. ASSUME Rearm PROVE TypeOK'
  BY <1>9 DEF Rearm, TypeOK, session
<1>10. ASSUME NEW d \in Documents, Receive(d) PROVE TypeOK'
  <2>1. Append({d}) /\ UNCHANGED <<now, stamp, cursor, loop, session>> /\ d \notin Faulty
    BY <1>10 DEF Receive
  <2>2. /\ rows' \subseteq Documents \ Faulty
        /\ receipt' \in [Documents -> {"none", "heartbeat", "processed", "rejected"}]
        /\ job' \in [Documents -> {"none", "live", "succeeded", "failed"}]
    BY <2>1, AppendTypes
  <2> QED BY <2>1, <2>2, <1>b DEF TypeOK, SessionsTyped
<1>11. ASSUME NEW d \in Documents, Resolve(d) PROVE TypeOK'
  <2>1. \E outcome \in {"none", "heartbeat", "processed", "rejected"},
           result \in {"live", "succeeded", "failed"} : Pipeline(d, outcome, result)
    BY <1>11 DEF Resolve, Process, Reject, Finish, Exhaust, TypeOK
  <2> QED BY <2>1 DEF Pipeline, TypeOK, session
<1>12. ASSUME UNCHANGED vars PROVE TypeOK'
  BY <1>12 DEF TypeOK, vars, tables, session
<1> QED BY <1>1, <1>2, <1>3, <1>4, <1>5, <1>6, <1>7, <1>8, <1>9, <1>10, <1>11, <1>12
        DEF Next, Work

-----------------------------------------------------------------------------
(* The ledger. *)
LEMMA AppendKeepsLedger ==
  ASSUME TypeOK, LedgerComplete, NEW docs, docs \subseteq Documents \ Faulty, Append(docs)
  PROVE  LedgerComplete'
<1>1. /\ rows' = rows \cup docs
      /\ \A d \in Documents :
           /\ job'[d] = IF d \in docs \cap Alerts THEN "live" ELSE job[d]
           /\ receipt'[d] = IF d \in docs \cap Heartbeats THEN "heartbeat" ELSE receipt[d]
  BY DEF Append
<1>2. docs \subseteq Alerts \cup Heartbeats /\ Alerts \cap Heartbeats = {}
  BY DocumentAssumption DEF Documents
<1> QED BY <1>1, <1>2 DEF LedgerComplete

LEMMA LedgerKept == TypeOK /\ LedgerComplete /\ [Next]_vars => LedgerComplete'
<1> SUFFICES ASSUME TypeOK, LedgerComplete, [Next]_vars PROVE LedgerComplete'
  OBVIOUS
<1>1. ASSUME UNCHANGED <<rows, receipt, job>> PROVE LedgerComplete'
  BY <1>1 DEF LedgerComplete
<1>2. ASSUME NEW s \in Sessions, Commit(s) PROVE LedgerComplete'
  <2>1. new[s] \subseteq Documents \ Faulty /\ Append(new[s])  BY <1>2 DEF Commit, TypeOK
  <2> QED BY <2>1, AppendKeepsLedger
<1>3. ASSUME NEW d \in Documents, Receive(d) PROVE LedgerComplete'
  <2>1. {d} \subseteq Documents \ Faulty /\ Append({d})  BY <1>3 DEF Receive
  <2> QED BY <2>1, AppendKeepsLedger
<1>4. ASSUME NEW d \in Documents, Resolve(d) PROVE LedgerComplete'
  <2>1. job[d] = "live"  BY <1>4 DEF Resolve, Process, Reject, Finish, Exhaust, Pipeline
  <2>2. d \in rows /\ d \in Alerts /\ d \notin Heartbeats
    BY <2>1, DocumentAssumption DEF LedgerComplete
  <2>3. rows' = rows  BY <1>4 DEF Resolve, Process, Reject, Finish, Exhaust, Pipeline
  <2>4. \A e \in Documents : e # d => receipt'[e] = receipt[e] /\ job'[e] = job[e]
    BY <1>4 DEF Resolve, Process, Reject, Finish, Exhaust, Pipeline, TypeOK
  <2>5. receipt'[d] = "none" => job'[d] \in {"live", "failed"}
    BY <1>4 DEF Resolve, Process, Reject, Finish, Exhaust, Pipeline, TypeOK
  <2> QED BY <2>2, <2>3, <2>4, <2>5 DEF LedgerComplete
<1>5. ASSUME NEW s \in Sessions, Begin(s) \/ Fetch(s) \/ Store(s) \/ Poisoned(s) \/ Fails(s)
      PROVE  LedgerComplete'
  BY <1>1, <1>5 DEF Begin, Fetch, Store, Stores, Poisoned, Fails, tables
<1>6. ASSUME NEW s \in Replays, NEW d \in Archive, ReplayLine(s, d) PROVE LedgerComplete'
  BY <1>1, <1>6 DEF ReplayLine, tables
<1>7. ASSUME NEW d, NEW t, Index(d, t) PROVE LedgerComplete'
  BY <1>1, <1>7 DEF Index, tables
<1>8. ASSUME Tick \/ Rearm \/ UNCHANGED vars PROVE LedgerComplete'
  BY <1>1, <1>8 DEF Tick, Rearm, vars, tables
<1> QED BY <1>2, <1>3, <1>4, <1>5, <1>6, <1>7, <1>8 DEF Next, Work

-----------------------------------------------------------------------------
(* The clock. *)
LEMMA ClockedKept == IInv /\ [Next]_vars => Clocked'
<1> SUFFICES ASSUME IInv, [Next]_vars PROVE Clocked'
  OBVIOUS
<1>a. /\ TypeOK /\ Clocked /\ Ordered  BY DEF IInv
<1>b. /\ now \in Nat /\ cursor \in Nat /\ MaxPull \in Nat
      /\ \A d \in Documents : stamp[d] \in Nat
      /\ \A s \in Sessions : /\ start[s] \in Nat /\ begun[s] \in Nat
                             /\ after[s] \in Nat /\ final[s] \in Nat
      /\ Pullers \subseteq Sessions
  BY <1>a, OverlapAssumption DEF TypeOK, Sessions
(* A step of one session: what it must show of that session. *)
<1>c. ASSUME NEW s \in Sessions, Untouched(s), UNCHANGED <<now, stamp>>,
             cursor' <= now, after'[s] <= now, final'[s] <= now,
             s \in Pullers /\ at'[s] # "idle" =>
               begun'[s] <= now /\ now <= begun'[s] + MaxPull /\ start'[s] <= begun'[s]
      PROVE  Clocked'
  BY <1>a, <1>b, <1>c DEF Clocked, Untouched
<1>1. ASSUME NEW d \in Documents, NEW t \in 1 .. now, Index(d, t) PROVE Clocked'
  <2>1. /\ \A e \in Documents : stamp'[e] = IF e = d THEN t ELSE stamp[e]
        /\ UNCHANGED <<now, cursor, at, start, begun, after, final>>
    BY <1>a, <1>1 DEF Index, TypeOK, tables, session
  <2> QED BY <1>a, <1>b, <2>1 DEF Clocked
<1>2. ASSUME Tick PROVE Clocked'
  <2>1. /\ now' = now + 1
        /\ UNCHANGED <<stamp, cursor, at, start, begun, after, final>>
        /\ \A p \in Pullers : at[p] = "idle" \/ now - begun[p] < MaxPull
    BY <1>2 DEF Tick, tables, session
  <2>2. \A d \in Documents : stamp[d] <= now + 1  BY <1>a, <1>b DEF Clocked
  <2>3. cursor <= now + 1  BY <1>a, <1>b DEF Clocked
  <2>4. \A s \in Sessions : after[s] <= now + 1 /\ final[s] <= now + 1
    BY <1>a, <1>b DEF Clocked
  <2>5. ASSUME NEW p \in Pullers, at[p] # "idle"
        PROVE  begun[p] <= now + 1 /\ now + 1 <= begun[p] + MaxPull /\ start[p] <= begun[p]
    <3>1. begun[p] <= now /\ start[p] <= begun[p] /\ now - begun[p] < MaxPull
      BY <1>a, <2>1, <2>5 DEF Clocked
    <3>2. now \in Nat /\ begun[p] \in Nat /\ MaxPull \in Nat  BY <1>b
    <3> QED BY <3>1, <3>2
  <2> QED BY <2>1, <2>2, <2>3, <2>4, <2>5 DEF Clocked
<1>3. ASSUME NEW s \in Sessions, Begin(s) PROVE Clocked'
  <2>1. /\ Untouched(s) /\ start'[s] = (IF s \in Pullers THEN cursor ELSE 0)
        /\ final'[s] = start'[s] /\ begun'[s] = (IF s \in Pullers THEN now ELSE 0)
        /\ after'[s] = after[s] /\ UNCHANGED <<now, stamp, cursor>>
    BY <1>a, <1>3, BeginWrites DEF tables
  <2>2. cursor <= now /\ after[s] <= now  BY <1>a DEF Clocked
  <2> QED BY <1>b, <1>c, <2>1, <2>2
<1>4. ASSUME NEW s \in Sessions, Fetch(s) PROVE Clocked'
  <2>1. /\ Untouched(s) /\ UNCHANGED <<now, stamp, cursor>> /\ at[s] = "fetch"
        /\ start'[s] = start[s] /\ begun'[s] = begun[s] /\ final'[s] = final[s]
        /\ after'[s] = after[s] \/ \E d \in Documents : after'[s] = stamp[d]
    BY <1>a, <1>4, FetchWrites DEF tables, Visible
  <2>2. after'[s] <= now  BY <1>a, <2>1 DEF Clocked
  <2> QED BY <1>a, <1>b, <1>c, <2>1, <2>2 DEF Clocked
<1>5. ASSUME NEW s \in Sessions, Store(s) PROVE Clocked'
  <2>1. PICK d \in First(s) : Stores(s, d)  BY <1>5 DEF Store
  <2>2. /\ Untouched(s) /\ UNCHANGED <<now, stamp, cursor>> /\ at[s] = "store"
        /\ start'[s] = start[s] /\ begun'[s] = begun[s] /\ final'[s] = stamp[d]
        /\ after'[s] = after[s] /\ d \in page[s]
    BY <1>a, <2>1, StoresWrites DEF tables
  <2>3. d \in Documents  BY <1>a, <2>2 DEF TypeOK
  <2> QED BY <1>a, <1>b, <1>c, <2>2, <2>3 DEF Clocked
<1>6. ASSUME NEW s \in Sessions, Commit(s) \/ Fails(s) \/ Poisoned(s) PROVE Clocked'
  <2>1. Leaves(s) /\ UNCHANGED <<now, stamp>> /\ cursor' \in {cursor, final[s]}
    BY <1>6 DEF Commit, Fails, Poisoned
  <2>2. Untouched(s) /\ at'[s] = "idle" /\ after'[s] = 0 /\ final'[s] = 0
    BY <1>a, <2>1, LeavesWrites
  <2>3. cursor' <= now /\ 0 <= now  BY <1>a, <1>b, <2>1 DEF Clocked
  <2> QED BY <1>c, <2>1, <2>2, <2>3
<1>7. ASSUME UNCHANGED <<now, stamp, cursor, at, start, begun, after, final>> PROVE Clocked'
  BY <1>a, <1>7 DEF Clocked
<1>8. ASSUME NEW s \in Replays, NEW d \in Archive, ReplayLine(s, d) PROVE Clocked'
  BY <1>7, <1>8 DEF ReplayLine, tables
<1>9. ASSUME NEW d \in Documents, Receive(d) \/ Resolve(d) PROVE Clocked'
  BY <1>7, <1>9 DEF Receive, Resolve, Process, Reject, Finish, Exhaust, Pipeline, session
<1>10. ASSUME Rearm \/ UNCHANGED vars PROVE Clocked'
  BY <1>7, <1>10 DEF Rearm, vars, tables, session
<1> QED BY <1>1, <1>2, <1>3, <1>4, <1>5, <1>6, <1>8, <1>9, <1>10 DEF Next, Work

-----------------------------------------------------------------------------
(* Timestamps never change, and no document loses its own. *)
LEMMA StampsStay ==
  ASSUME TypeOK, [Next]_vars
  PROVE  /\ \A d \in Documents : Indexed(d) => stamp'[d] = stamp[d]
         /\ stamp' = stamp \/ \E d \in Documents, t \in 1 .. now : Index(d, t)
<1>1. ASSUME NEW d \in Documents, NEW t \in 1 .. now, Index(d, t)
      PROVE  \A e \in Documents : Indexed(e) => stamp'[e] = stamp[e]
  BY <1>1 DEF Index, TypeOK, Indexed
<1>2. ASSUME NEW s \in Sessions, Begin(s) \/ Work(s) \/ Fails(s) PROVE stamp' = stamp
  BY <1>2 DEF Begin, Work, Fetch, Store, Stores, Commit, Poisoned, Fails
<1>3. ASSUME NEW s \in Replays, NEW d \in Archive, ReplayLine(s, d) PROVE stamp' = stamp
  BY <1>3 DEF ReplayLine
<1>4. ASSUME NEW d \in Documents, Receive(d) \/ Resolve(d) PROVE stamp' = stamp
  BY <1>4 DEF Receive, Resolve, Process, Reject, Finish, Exhaust, Pipeline
<1>5. ASSUME Tick \/ Rearm \/ UNCHANGED vars PROVE stamp' = stamp
  BY <1>5 DEF Tick, Rearm, vars
<1> QED BY <1>1, <1>2, <1>3, <1>4, <1>5 DEF Next

LEMMA DatedStays ==
  ASSUME TypeOK, [Next]_vars, NEW c, Dated(c)
  PROVE  c # 0 => \E d \in Documents : stamp'[d] = c
BY StampsStay DEF Dated, Indexed

LEMMA AnchoredKept == IInv /\ [Next]_vars => Anchored'
<1> SUFFICES ASSUME IInv, [Next]_vars PROVE Anchored'
  OBVIOUS
<1>a. TypeOK /\ Anchored /\ Ordered  BY DEF IInv
<1>b. ASSUME NEW c, c = 0 \/ Dated(c) PROVE c # 0 => \E d \in Documents : stamp'[d] = c
  BY <1>a, <1>b, DatedStays
<1>c. ASSUME cursor' = 0 \/ Dated(cursor'),
             \A s \in Sessions : /\ start'[s] = 0 \/ Dated(start'[s])
                                 /\ after'[s] = 0 \/ Dated(after'[s])
      PROVE  Anchored'
  <2>1. Dated(cursor)'  BY <1>b, <1>c DEF Dated
  <2>2. ASSUME NEW s \in Sessions PROVE Dated(start[s])' /\ Dated(after[s])'
    BY <1>b, <1>c DEF Dated
  <2> QED BY <2>1, <2>2 DEF Anchored
<1>d. Dated(cursor) /\ \A s \in Sessions : Dated(start[s]) /\ Dated(after[s])
  BY <1>a DEF Anchored
<1>1. ASSUME NEW s \in Sessions, Begin(s) PROVE Anchored'
  <2>1. /\ cursor' = cursor /\ start'[s] \in {cursor, 0} /\ after'[s] = after[s]
        /\ \A t \in Sessions : t # s => start'[t] = start[t] /\ after'[t] = after[t]
    BY <1>a, <1>1, BeginWrites DEF tables, Untouched
  <2> QED BY <1>c, <1>d, <2>1
<1>2. ASSUME UNCHANGED <<cursor, start, after>> PROVE Anchored'
  BY <1>c, <1>d, <1>2
<1>3. ASSUME NEW s \in Sessions, Fetch(s) PROVE Anchored'
  <2>1. UNCHANGED <<cursor, start>>  BY <1>3 DEF Fetch, tables
  <2>3. /\ after'[s] = after[s] \/ \E d \in Visible(s) : stamp[d] = after'[s]
        /\ Untouched(s)
    BY <1>a, <1>3, FetchWrites
  <2>4. /\ after'[s] = after[s] \/ \E d \in Documents : stamp[d] = after'[s]
        /\ \A t \in Sessions : t # s => after'[t] = after[t]
    BY <2>3 DEF Visible, Untouched
  <2>2. Dated(after'[s])  BY <1>d, <2>4 DEF Dated
  <2> QED BY <1>c, <1>d, <2>1, <2>2, <2>4
<1>4. ASSUME NEW s \in Sessions, Store(s) PROVE Anchored'
  BY <1>2, <1>4 DEF Store, Stores, tables
<1>5. ASSUME NEW s \in Sessions, Leaves(s), cursor' = cursor \/ (cursor' = final[s] /\ at[s] # "store")
      PROVE  Anchored'
  <2>1. /\ start'[s] = 0 /\ after'[s] = 0
        /\ \A t \in Sessions : t # s => start'[t] = start[t] /\ after'[t] = after[t]
    BY <1>a, <1>5, LeavesWrites DEF Untouched
  <2>2. cursor' = cursor \/ cursor' = start[s] \/ cursor' = after[s]
    BY <1>a, <1>5 DEF Ordered, InOrder
  <2> QED BY <1>c, <1>d, <2>1, <2>2
<1>6. ASSUME NEW s \in Sessions, Commit(s) PROVE Anchored'
  BY <1>5, <1>6 DEF Commit
<1>7. ASSUME NEW s \in Sessions, Fails(s) \/ Poisoned(s) PROVE Anchored'
  BY <1>5, <1>7 DEF Fails, Poisoned
<1>8. ASSUME NEW s \in Replays, NEW d \in Archive, ReplayLine(s, d) PROVE Anchored'
  BY <1>2, <1>8 DEF ReplayLine, tables
<1>9. ASSUME NEW d \in Documents, Receive(d) \/ Resolve(d) PROVE Anchored'
  BY <1>2, <1>9 DEF Receive, Resolve, Process, Reject, Finish, Exhaust, Pipeline, session
<1>10. ASSUME Tick \/ Rearm \/ UNCHANGED vars PROVE Anchored'
  BY <1>2, <1>10 DEF Tick, Rearm, vars, tables, session
<1>11. ASSUME NEW d \in Documents, NEW t, Index(d, t) PROVE Anchored'
  BY <1>2, <1>11 DEF Index, tables, session
<1> QED BY <1>1, <1>3, <1>4, <1>6, <1>7, <1>8, <1>9, <1>10, <1>11 DEF Next, Work

-----------------------------------------------------------------------------
(* Paging. *)
LEMMA OrderedKept == IInv /\ [Next]_vars => Ordered'
<1> SUFFICES ASSUME IInv, [Next]_vars PROVE Ordered'
  OBVIOUS
<1>a. TypeOK /\ Anchored /\ Ordered  BY DEF IInv
<1>b. Ordered <=> \A s \in Sessions : InOrder(s)  BY DEF Ordered
<1>c. /\ \A d \in Documents : stamp[d] \in Nat
      /\ \A s \in Sessions : /\ start[s] \in Nat /\ after[s] \in Nat /\ final[s] \in Nat
                             /\ page[s] \subseteq Documents
  BY <1>a DEF TypeOK
(* A step of one session. *)
<1>d. ASSUME NEW s \in Sessions, Untouched(s), stamp' = stamp, InOrder(s)' PROVE Ordered'
  <2>1. ASSUME NEW t \in Sessions, t # s PROVE InOrder(t)'
    <3>1. InOrder(t)  BY <1>a, <1>b
    <3>2. /\ at'[t] = at[t] /\ start'[t] = start[t] /\ after'[t] = after[t]
          /\ page'[t] = page[t] /\ more'[t] = more[t] /\ final'[t] = final[t]
      BY <1>d, <2>1 DEF Untouched
    <3> QED BY <1>d, <3>1, <3>2 DEF InOrder, Indexed
  <2>2. \A t \in Sessions : InOrder(t)'  BY <1>d, <2>1
  <2> QED BY <2>2 DEF Ordered
<1>1. ASSUME NEW s \in Sessions, Begin(s) PROVE Ordered'
  <2>1. /\ Untouched(s) /\ stamp' = stamp /\ at'[s] \in {"fetch", "replay"} /\ at[s] = "idle"
        /\ final'[s] = start'[s] /\ after'[s] = after[s] /\ page'[s] = page[s]
    BY <1>a, <1>1, BeginWrites
  <2>2. InOrder(s)  BY <1>a, <1>b
  <2>3. InOrder(s)'  BY <2>1, <2>2 DEF InOrder
  <2> QED BY <1>d, <2>1, <2>3
<1>2. ASSUME NEW s \in Sessions, Fetch(s) PROVE Ordered'
  <2> DEFINE p == page'[s]
  <2>1. /\ Untouched(s) /\ at[s] = "fetch" /\ stamp' = stamp
        /\ start'[s] = start[s] /\ final'[s] = final[s]
        /\ p \subseteq Visible(s) /\ (p = {} => Visible(s) = {})
        /\ p = Visible(s) \/ more'[s] = TRUE
        /\ at'[s] = IF p = {} THEN "commit" ELSE "store"
        /\ IF p = {} THEN after'[s] = after[s]
           ELSE /\ \E d \in p : stamp[d] = after'[s]
                /\ \A d \in p : stamp[d] <= after'[s]
    BY <1>a, <1>2, FetchWrites
  <2> HIDE DEF p
  <2>2. InOrder(s)  BY <1>a, <1>b
  <2>3. \A d \in Visible(s) : d \in Documents /\ Indexed(d) /\ after[s] < stamp[d]
    BY <1>c DEF Visible
  (* What the cursor dates is visible until the paging has passed it. *)
  <2>4. start[s] <= after[s] \/ \E d \in Visible(s) : stamp[d] = start[s]
    <3>1. CASE start[s] = 0  BY <1>c, <3>1
    <3>2. CASE start[s] # 0
      <4>1. PICK d \in Documents : stamp[d] = start[s]  BY <1>a, <3>2 DEF Anchored, Dated
      <4>2. Gte(start[s]) <= stamp[d]  BY <1>c, <4>1, GteFacts
      <4>3. Indexed(d)  BY <3>2, <4>1 DEF Indexed
      <4>4. start[s] <= after[s] \/ after[s] < stamp[d]  BY <1>c, <4>1
      <4>5. Gte(start[s]) \in Nat /\ stamp[d] \in Nat /\ after[s] \in Nat
        BY <1>c, GteFacts
      <4> QED BY <4>1, <4>2, <4>3, <4>4, <4>5 DEF Visible
    <3> QED BY <3>1, <3>2
  <2>5. CASE p = {}
    <3>1. start[s] <= after[s]  BY <2>1, <2>4, <2>5
    <3>2. at'[s] = "commit" /\ after'[s] = after[s] /\ page'[s] = {}  BY <2>1, <2>5 DEF p
    <3>3. InOrder(s)'  BY <2>1, <2>2, <3>1, <3>2 DEF InOrder
    <3> QED BY <1>d, <2>1, <3>3
  <2>6. CASE p # {}
    <3>1. /\ at'[s] = "store" /\ \E d \in p : stamp[d] = after'[s]
          /\ \A d \in p : stamp[d] <= after'[s] /\ d \in Documents /\ Indexed(d)
      BY <2>1, <2>3, <2>6
    <3>2. ~more'[s] => start[s] <= after'[s]
      <4> SUFFICES ASSUME ~more'[s] PROVE start[s] <= after'[s]
        OBVIOUS
      <4>1. p = Visible(s)  BY <2>1
      <4>2. PICK d \in p : stamp[d] = after'[s]  BY <3>1
      <4>3. CASE start[s] <= after[s]
        <5>1. after[s] < stamp[d] /\ stamp[d] \in Nat  BY <1>c, <2>1, <2>3, <4>2
        <5> QED BY <1>c, <4>2, <4>3, <5>1
      <4>4. CASE \E e \in Visible(s) : stamp[e] = start[s]
        BY <3>1, <4>1, <4>4
      <4> QED BY <2>4, <4>3, <4>4
    <3>3. page'[s] = p  BY DEF p
    <3>4. InOrder(s)'  BY <2>1, <3>1, <3>2, <3>3 DEF InOrder, Indexed
    <3> QED BY <1>d, <2>1, <3>4
  <2> QED BY <2>5, <2>6
<1>3. ASSUME NEW s \in Sessions, Store(s) PROVE Ordered'
  <2>1. PICK d \in First(s) : Stores(s, d)  BY <1>3 DEF Store
  <2>2. /\ Untouched(s) /\ stamp' = stamp /\ at[s] = "store" /\ d \in page[s]
        /\ final'[s] = stamp[d] /\ page'[s] = page[s] \ {d}
        /\ at'[s] = (IF page[s] # {d} THEN "store" ELSE IF more[s] THEN "fetch" ELSE "commit")
        /\ start'[s] = start[s] /\ after'[s] = after[s] /\ more'[s] = more[s]
    BY <1>a, <2>1, StoresWrites
  <2>3. \A e \in page[s] : stamp[d] <= stamp[e]  BY <1>a, <2>1, FirstIsLeast
  <2>4. InOrder(s)  BY <1>a, <1>b
  <2>5. PICK last \in page[s] : stamp[last] = after[s]  BY <2>2, <2>4 DEF InOrder
  <2>6. CASE page[s] = {d}
    <3>1. final'[s] = after'[s] /\ page'[s] = {}  BY <2>2, <2>5, <2>6
    <3>2. at'[s] \in {"fetch", "commit"} /\ (at'[s] = "commit" => ~more[s])  BY <2>2, <2>6
    <3>3. InOrder(s)'  BY <2>2, <2>4, <3>1, <3>2 DEF InOrder
    <3> QED BY <1>d, <2>2, <3>3
  <2>7. CASE page[s] # {d}
    <3>1. \E e \in page[s] \ {d} : stamp[e] = after[s]
      <4>1. CASE last # d  BY <2>5, <4>1
      <4>2. CASE last = d
        <5>1. PICK e \in page[s] \ {d} : TRUE  BY <2>2, <2>7
        <5>2. stamp[d] <= stamp[e] /\ stamp[e] <= after[s] /\ stamp[d] = after[s]
          BY <2>3, <2>4, <2>5, <4>2 DEF InOrder
        <5>3. stamp[d] \in Nat /\ stamp[e] \in Nat /\ after[s] \in Nat  BY <1>c, <2>2
        <5>4. stamp[e] = after[s]  BY <5>2, <5>3
        <5> QED BY <5>4
      <4> QED BY <4>1, <4>2
    <3>2. at'[s] = "store"  BY <2>2, <2>7
    <3>3. InOrder(s)'  BY <2>2, <2>4, <3>1, <3>2 DEF InOrder, Indexed
    <3> QED BY <1>d, <2>2, <3>3
  <2> QED BY <2>6, <2>7
<1>4. ASSUME NEW s \in Sessions, Commit(s) \/ Fails(s) \/ Poisoned(s) PROVE Ordered'
  <2>1. Leaves(s) /\ stamp' = stamp  BY <1>4 DEF Commit, Fails, Poisoned
  <2>2. /\ Untouched(s) /\ at'[s] = "idle" /\ after'[s] = 0 /\ page'[s] = {} /\ final'[s] = 0
        /\ start'[s] = 0
    BY <1>a, <2>1, LeavesWrites
  <2>3. InOrder(s)'  BY <2>2 DEF InOrder
  <2> QED BY <1>d, <2>1, <2>2, <2>3
<1>5. ASSUME UNCHANGED <<at, start, after, page, more, final>>,
             \A d \in Documents : Indexed(d) => stamp'[d] = stamp[d]
      PROVE  Ordered'
  <2>1. ASSUME NEW s \in Sessions PROVE InOrder(s)'
    <3>1. InOrder(s)  BY <1>a, <1>b
    <3> QED BY <1>c, <1>5, <3>1 DEF InOrder, Indexed
  <2> QED BY <2>1 DEF Ordered
<1>6. ASSUME NEW s \in Replays, NEW d \in Archive, ReplayLine(s, d) PROVE Ordered'
  BY <1>5, <1>6 DEF ReplayLine
<1>7. ASSUME NEW d \in Documents, Receive(d) \/ Resolve(d) PROVE Ordered'
  BY <1>5, <1>7 DEF Receive, Resolve, Process, Reject, Finish, Exhaust, Pipeline, session
<1>8. ASSUME Tick \/ Rearm \/ UNCHANGED vars PROVE Ordered'
  BY <1>5, <1>8 DEF Tick, Rearm, vars, session
<1>9. ASSUME NEW d \in Documents, NEW t, Index(d, t) PROVE Ordered'
  <2>1. UNCHANGED <<at, start, after, page, more, final>>  BY <1>9 DEF Index, session
  <2> QED BY <1>a, <1>5, <2>1, StampsStay
<1> QED BY <1>1, <1>2, <1>3, <1>4, <1>6, <1>7, <1>8, <1>9 DEF Next, Work

-----------------------------------------------------------------------------
(* What is missed after a step was missed before it, or has just come.     *)
LEMMA MissedBefore ==
  ASSUME TypeOK, [Next]_vars, NEW d, Missed(d)', rows \subseteq rows'
  PROVE  /\ d \in Documents
         /\ \/ Missed(d) /\ stamp'[d] = stamp[d]
            \/ \E t \in 1 .. now : Index(d, t) /\ stamp'[d] = t
<1>1. d \in Documents /\ stamp'[d] # 0 /\ d \notin rows
      /\ \A e \in Documents \ {d} : stamp'[e] # stamp'[d]
  BY DEF Missed, Indexed, Tied
<1>2. CASE Indexed(d)
  <2>1. stamp'[d] = stamp[d] /\ \A e \in Documents : Indexed(e) => stamp'[e] = stamp[e]
    BY <1>1, <1>2, StampsStay
  <2>2. \A e \in Documents \ {d} : stamp[e] # stamp[d]
    BY <1>1, <1>2, <2>1 DEF Indexed
  <2> QED BY <1>1, <1>2, <2>1, <2>2 DEF Missed, Tied
<1>3. CASE ~Indexed(d)
  <2>1. stamp' # stamp  BY <1>1, <1>3 DEF Indexed
  <2>2. PICK e \in Documents, t \in 1 .. now : Index(e, t)  BY <2>1, StampsStay
  <2>3. stamp' = [stamp EXCEPT ![e] = t]  BY <2>2 DEF Index
  <2>4. e = d /\ stamp'[d] = t  BY <1>1, <1>3, <2>3 DEF Indexed, TypeOK
  <2> QED BY <1>1, <2>2, <2>4
<1> QED BY <1>2, <1>3

(* A document that comes now is inside the next window. *)
LEMMA ComesInTime ==
  ASSUME TypeOK, Clocked, NEW d \in Documents, NEW t \in 1 .. now, Index(d, t)
  PROVE  /\ Gte(cursor) <= t
         /\ \A p \in Pullers : at[p] # "idle" => begun[p] <= t + Lateness
<1>1. /\ now <= t + Lateness /\ t \in Nat /\ now \in Nat /\ cursor \in Nat /\ cursor <= now
      /\ Lateness \in Nat /\ Overlap \in Nat /\ MaxPull \in Nat /\ Lateness + MaxPull <= Overlap
  BY OverlapAssumption DEF Index, TypeOK, Clocked
<1>2. cursor <= t + Overlap  BY <1>1
<1>3. Gte(cursor) <= t  BY <1>1, <1>2, GteFacts
<1>4. ASSUME NEW p \in Pullers, at[p] # "idle" PROVE begun[p] <= t + Lateness
  <2>1. begun[p] <= now /\ begun[p] \in Nat  BY <1>4 DEF Clocked, TypeOK, Sessions
  <2> QED BY <1>1, <2>1
<1> QED BY <1>3, <1>4

(* The commit of a pull leaves nothing behind its new cursor. *)
LEMMA CommitLeavesNothing ==
  ASSUME IInv, NEW p \in Pullers, at[p] \in {"commit", "replay"},
         NEW d \in Documents, Missed(d), d \notin new[p]
  PROVE  Gte(final[p]) <= stamp[d]
<1>1. TypeOK /\ Clocked /\ InOrder(p)  BY DEF IInv, Ordered, Sessions
<1>2. /\ now \in Nat /\ stamp[d] \in Nat
      /\ start[p] \in Nat /\ begun[p] \in Nat /\ after[p] \in Nat /\ final[p] \in Nat
      /\ Lateness \in Nat /\ Overlap \in Nat /\ MaxPull \in Nat /\ Lateness + MaxPull <= Overlap
  BY <1>1, OverlapAssumption DEF TypeOK, Sessions
<1>3. final[p] <= now /\ now <= begun[p] + MaxPull
  BY <1>1 DEF Clocked, Sessions
<1>4. page[p] = {} /\ (final[p] = after[p] \/ final[p] = start[p])
  BY <1>1 DEF InOrder
<1>5. \/ begun[p] <= stamp[d] + Lateness
      \/ Gte(start[p]) <= stamp[d] /\ after[p] < stamp[d]
  BY <1>4 DEF IInv, Passing
<1>6. CASE begun[p] <= stamp[d] + Lateness
  <2>1. final[p] <= stamp[d] + Overlap  BY <1>2, <1>3, <1>6
  <2> QED BY <1>2, <2>1, GteFacts
<1>7. CASE Gte(start[p]) <= stamp[d] /\ after[p] < stamp[d]
  <2>1. CASE final[p] = start[p]  BY <1>7, <2>1
  <2>2. CASE final[p] = after[p]
    <3>1. final[p] <= stamp[d] + Overlap  BY <1>2, <1>7, <2>2
    <3> QED BY <1>2, <3>1, GteFacts
  <2> QED BY <1>4, <2>1, <2>2
<1> QED BY <1>5, <1>6, <1>7

LEMMA RowsGrow ==
  ASSUME [Next]_vars PROVE rows \subseteq rows'
<1>1. ASSUME NEW s \in Sessions, Begin(s) \/ Work(s) \/ Fails(s) PROVE rows \subseteq rows'
  BY <1>1 DEF Begin, Work, Fetch, Store, Stores, Commit, Append, Poisoned, Fails, tables
<1>2. ASSUME NEW s \in Replays, NEW d \in Archive, ReplayLine(s, d) PROVE rows' = rows
  BY <1>2 DEF ReplayLine, tables
<1>3. ASSUME NEW d \in Documents, Receive(d) \/ Resolve(d) PROVE rows \subseteq rows'
  BY <1>3 DEF Receive, Append, Resolve, Process, Reject, Finish, Exhaust, Pipeline
<1>4. ASSUME Tick \/ Rearm \/ UNCHANGED vars PROVE rows' = rows
  BY <1>4 DEF Tick, Rearm, vars, tables
<1>5. ASSUME NEW d \in Documents, NEW t, Index(d, t) PROVE rows' = rows
  BY <1>5 DEF Index, tables
<1> QED BY <1>1, <1>2, <1>3, <1>4, <1>5 DEF Next

LEMMA CursorMoves ==
  ASSUME [Next]_vars, cursor' # cursor
  PROVE  \E p \in Pullers : Commit(p) /\ cursor' = final[p]
<1>1. ASSUME NEW s \in Sessions, Begin(s) \/ Fetch(s) \/ Store(s) \/ Poisoned(s) \/ Fails(s)
      PROVE  FALSE
  BY <1>1 DEF Begin, Fetch, Store, Stores, Poisoned, Fails, tables
<1>2. ASSUME NEW s \in Replays, NEW d \in Archive, ReplayLine(s, d) PROVE FALSE
  BY <1>2 DEF ReplayLine, tables
<1>3. ASSUME NEW d \in Documents, Receive(d) \/ Resolve(d) PROVE FALSE
  BY <1>3 DEF Receive, Resolve, Process, Reject, Finish, Exhaust, Pipeline
<1>4. ASSUME Tick \/ Rearm \/ UNCHANGED vars PROVE FALSE
  BY <1>4 DEF Tick, Rearm, vars, tables
<1>5. ASSUME NEW d \in Documents, NEW t, Index(d, t) PROVE FALSE
  BY <1>5 DEF Index, tables
<1>6. ASSUME NEW s \in Sessions, Commit(s) PROVE s \in Pullers /\ cursor' = final[s]
  BY <1>6 DEF Commit
<1> QED BY <1>1, <1>2, <1>3, <1>4, <1>5, <1>6 DEF Next, Work

LEMMA AheadKept == IInv /\ [Next]_vars => Ahead'
<1> SUFFICES ASSUME IInv, [Next]_vars PROVE Ahead'
  OBVIOUS
<1>a. TypeOK /\ Clocked /\ Ahead /\ rows \subseteq rows'  BY RowsGrow DEF IInv
<1> SUFFICES ASSUME NEW d \in Documents, Missed(d)' PROVE Gte(cursor)' <= stamp'[d]
  BY DEF Ahead
<1>1. \/ Missed(d) /\ stamp'[d] = stamp[d]
      \/ \E t \in 1 .. now : Index(d, t) /\ stamp'[d] = t
  BY <1>a, MissedBefore
<1>2. CASE cursor' = cursor
  <2>1. Gte(cursor)' = Gte(cursor)  BY <1>2 DEF Gte
  <2>2. CASE Missed(d) /\ stamp'[d] = stamp[d]  BY <1>a, <2>1, <2>2 DEF Ahead
  <2>3. CASE \E t \in 1 .. now : Index(d, t) /\ stamp'[d] = t
    BY <1>a, <2>1, <2>3, ComesInTime
  <2> QED BY <1>1, <2>2, <2>3
<1>3. CASE cursor' # cursor
  <2>1. PICK p \in Pullers : Commit(p) /\ cursor' = final[p]  BY <1>3, CursorMoves
  <2>2. stamp' = stamp /\ rows' = rows \cup new[p] /\ at[p] \in {"commit", "replay"}
    BY <2>1 DEF Commit, Append
  <2>3. d \notin new[p]  BY <2>2 DEF Missed
  <2>4. Missed(d)  BY <2>2 DEF Missed, Indexed, Tied
  <2>5. Gte(final[p]) <= stamp[d]  BY <2>2, <2>3, <2>4, CommitLeavesNothing
  <2>6. Gte(cursor)' = Gte(final[p])  BY <2>1 DEF Gte
  <2> QED BY <2>2, <2>5, <2>6
<1> QED BY <1>2, <1>3

(* How far a pull is with a document that is missed. *)
Reaches(p, d) ==
  \/ begun[p] <= stamp[d] + Lateness
  \/ /\ Gte(start[p]) <= stamp[d]
     /\ d \in new[p] \/ d \in page[p] \/ after[p] < stamp[d]

LEMMA FetchReaches ==
  ASSUME TypeOK, Ordered, NEW p \in Pullers, Fetch(p), NEW d \in Documents, Missed(d),
         Reaches(p, d)
  PROVE  Reaches(p, d)'
<1>1. /\ at[p] = "fetch" /\ start'[p] = start[p] /\ begun'[p] = begun[p] /\ new'[p] = new[p]
      /\ stamp' = stamp
      /\ page'[p] \subseteq Visible(p) /\ (page'[p] = {} => Visible(p) = {})
      /\ \A x \in page'[p], y \in Visible(p) \ page'[p] : stamp[x] <= stamp[y]
      /\ IF page'[p] = {} THEN after'[p] = after[p]
         ELSE \E e \in page'[p] : stamp[e] = after'[p]
  BY FetchWrites DEF Sessions
<1>2. page[p] = {}  BY <1>1 DEF Ordered, InOrder, Sessions
<1>3. \A e \in Documents : stamp[e] \in Nat  BY DEF TypeOK
<1>4. CASE begun[p] <= stamp[d] + Lateness  BY <1>1, <1>4 DEF Reaches
<1>5. CASE Gte(start[p]) <= stamp[d] /\ d \in new[p]
  <2>1. Gte(start[p])' = Gte(start[p])  BY <1>1 DEF Gte
  <2> QED BY <1>1, <1>5, <2>1 DEF Reaches
<1>6. CASE Gte(start[p]) <= stamp[d] /\ after[p] < stamp[d]
  <2>1. Gte(start[p])' = Gte(start[p])  BY <1>1 DEF Gte
  <2>2. d \in Visible(p)
    <3>1. start[p] \in Nat /\ after[p] \in Nat  BY DEF TypeOK, Sessions
    <3>2. Gte(start[p]) \in Nat  BY <3>1, GteFacts
    <3> QED BY <1>3, <1>6, <3>1, <3>2 DEF Visible, Missed
  <2>3. CASE d \in page'[p]  BY <1>1, <1>6, <2>1, <2>3 DEF Reaches
  <2>4. CASE d \notin page'[p]
    <3>1. PICK e \in page'[p] : stamp[e] = after'[p]  BY <1>1, <2>2
    <3>2. stamp[e] <= stamp[d] /\ e # d /\ e \in Documents
      BY <1>1, <2>2, <2>4, <3>1 DEF Visible
    <3>3. stamp[e] # stamp[d]  BY <3>2 DEF Missed, Tied
    <3>4. after'[p] < stamp[d]  BY <1>3, <3>1, <3>2, <3>3
    <3> QED BY <1>1, <1>6, <2>1, <3>4 DEF Reaches
  <2> QED BY <2>3, <2>4
<1> QED BY <1>2, <1>4, <1>5, <1>6 DEF Reaches

LEMMA PassingKept == IInv /\ [Next]_vars => Passing'
<1> SUFFICES ASSUME IInv, [Next]_vars PROVE Passing'
  OBVIOUS
<1>a. TypeOK /\ Clocked /\ Ordered /\ Ahead /\ Passing /\ rows \subseteq rows'
  BY RowsGrow DEF IInv
<1> SUFFICES ASSUME NEW p \in Pullers, NEW d \in Documents, at'[p] # "idle", Missed(d)'
             PROVE  Reaches(p, d)'
  BY DEF Passing, Reaches
<1>b. \/ Missed(d) /\ stamp'[d] = stamp[d]
      \/ \E t \in 1 .. now : Index(d, t) /\ stamp'[d] = t
  BY <1>a, MissedBefore
<1>c. Missed(d) /\ at[p] # "idle" => Reaches(p, d)
  BY <1>a DEF Passing, Reaches
<1>d. p \in Sessions  BY DEF Sessions
(* A step that leaves this pull where it is. *)
<1>e. ASSUME Missed(d), stamp'[d] = stamp[d], at'[p] = at[p], start'[p] = start[p],
             begun'[p] = begun[p], after'[p] = after[p], page'[p] = page[p],
             new[p] \subseteq new'[p]
      PROVE  Reaches(p, d)'
  <2>1. Reaches(p, d)  BY <1>c, <1>e
  <2>2. Gte(start[p])' = Gte(start[p])  BY <1>e DEF Gte
  <2> QED BY <1>e, <2>1, <2>2 DEF Reaches
<1>f. ASSUME NEW s \in Sessions, Untouched(s), stamp' = stamp, s # p PROVE Reaches(p, d)'
  <2>1. Missed(d) /\ stamp'[d] = stamp[d]  BY <1>b, <1>f DEF Index, Indexed, Missed
  <2>2. /\ at'[p] = at[p] /\ start'[p] = start[p] /\ begun'[p] = begun[p]
        /\ after'[p] = after[p] /\ page'[p] = page[p] /\ new'[p] = new[p]
    BY <1>d, <1>f DEF Untouched
  <2> QED BY <1>e, <2>1, <2>2
<1>g. ASSUME stamp' = stamp PROVE Missed(d) /\ stamp'[d] = stamp[d]
  BY <1>a, <1>g DEF Missed, Indexed, Tied
<1>1. ASSUME NEW e \in Documents, NEW t \in 1 .. now, Index(e, t) PROVE Reaches(p, d)'
  <2>1. UNCHANGED <<at, start, begun, after, page, new, cursor>>
    BY <1>1 DEF Index, session, tables
  <2>2. CASE Missed(d) /\ stamp'[d] = stamp[d]  BY <1>e, <2>1, <2>2
  <2>3. CASE \E u \in 1 .. now : Index(d, u) /\ stamp'[d] = u
    <3>1. begun'[p] <= stamp'[d] + Lateness  BY <1>a, <2>1, <2>3, ComesInTime
    <3> QED BY <3>1 DEF Reaches
  <2> QED BY <1>b, <2>2, <2>3
<1>2. ASSUME NEW s \in Sessions, Begin(s) PROVE Reaches(p, d)'
  <2>1. /\ Untouched(s) /\ stamp' = stamp /\ at[s] = "idle" /\ after'[s] = after[s]
        /\ start'[s] = IF s \in Pullers THEN cursor ELSE 0
    BY <1>a, <1>2, BeginWrites
  <2>2. CASE s # p  BY <1>f, <2>1, <2>2
  <2>3. CASE s = p
    <3>1. Missed(d) /\ stamp'[d] = stamp[d]  BY <1>g, <2>1
    <3>2. start'[p] = cursor /\ after'[p] = 0
      BY <1>a, <2>1, <2>3, <1>d DEF Ordered, InOrder
    <3>3. Gte(start[p])' = Gte(cursor)  BY <3>2 DEF Gte
    <3>4. Gte(cursor) <= stamp[d]  BY <1>a, <3>1 DEF Ahead
    <3>5. 0 < stamp[d]  BY <1>a, <3>1 DEF Missed, Indexed, TypeOK
    <3> QED BY <3>1, <3>2, <3>3, <3>4, <3>5 DEF Reaches
  <2> QED BY <2>2, <2>3
<1>3. ASSUME NEW s \in Sessions, Fetch(s) PROVE Reaches(p, d)'
  <2>1. Untouched(s) /\ stamp' = stamp /\ at[s] = "fetch"  BY <1>a, <1>3, FetchWrites
  <2>2. CASE s # p  BY <1>f, <2>1, <2>2
  <2>3. CASE s = p
    <3>1. Missed(d) /\ Reaches(p, d)  BY <1>c, <1>g, <2>1, <2>3
    <3> QED BY <1>3, <1>a, <2>3, <3>1, FetchReaches
  <2> QED BY <2>2, <2>3
<1>4. ASSUME NEW s \in Sessions, Store(s) PROVE Reaches(p, d)'
  <2>1. PICK e \in First(s) : Stores(s, e)  BY <1>4 DEF Store
  <2>2. /\ Untouched(s) /\ at[s] = "store" /\ new'[s] = new[s] \cup ({e} \ rows)
        /\ page'[s] = page[s] \ {e} /\ start'[s] = start[s] /\ begun'[s] = begun[s]
        /\ after'[s] = after[s] /\ stamp' = stamp
    BY <1>a, <2>1, StoresWrites
  <2>3. CASE s # p  BY <1>f, <2>2, <2>3
  <2>4. CASE s = p
    <3>1. Missed(d) /\ Reaches(p, d)  BY <1>c, <1>g, <2>2, <2>4
    <3>2. Gte(start[p])' = Gte(start[p])  BY <2>2, <2>4 DEF Gte
    <3>3. d \notin rows  BY <3>1 DEF Missed
    <3> QED BY <2>2, <2>4, <3>1, <3>2, <3>3 DEF Reaches
  <2> QED BY <2>3, <2>4
<1>5. ASSUME NEW s \in Sessions, Commit(s) \/ Fails(s) \/ Poisoned(s) PROVE Reaches(p, d)'
  <2>1. Leaves(s) /\ stamp' = stamp  BY <1>5 DEF Commit, Fails, Poisoned
  <2>2. Untouched(s) /\ at'[s] = "idle"  BY <1>a, <2>1, LeavesWrites
  <2>3. s # p  BY <2>2
  <2> QED BY <1>f, <2>1, <2>2, <2>3
<1>6. ASSUME NEW s \in Replays, NEW e \in Archive, ReplayLine(s, e) PROVE Reaches(p, d)'
  <2>1. /\ new'[s] = new[s] \cup ({e} \ rows) /\ \A t \in Sessions : t # s => new'[t] = new[t]
        /\ UNCHANGED <<stamp, at, start, begun, after, page>>
    BY <1>a, <1>6, LineWrites DEF Sessions
  <2>2. new[p] \subseteq new'[p]  BY <1>d, <2>1
  <2> QED BY <1>e, <1>g, <2>1, <2>2
<1>7. ASSUME NEW e \in Documents, Receive(e) \/ Resolve(e) PROVE Reaches(p, d)'
  <2>1. UNCHANGED <<stamp, session>>
    BY <1>7 DEF Receive, Resolve, Process, Reject, Finish, Exhaust, Pipeline
  <2> QED BY <1>e, <1>g, <2>1 DEF session
<1>8. ASSUME Tick \/ Rearm \/ UNCHANGED vars PROVE Reaches(p, d)'
  <2>1. UNCHANGED <<stamp, session>>  BY <1>8 DEF Tick, Rearm, vars
  <2> QED BY <1>e, <1>g, <2>1 DEF session
<1> QED BY <1>1, <1>2, <1>3, <1>4, <1>5, <1>6, <1>7, <1>8 DEF Next, Work

-----------------------------------------------------------------------------
LEMMA Initially == Init => IInv /\ LedgerComplete
<1> SUFFICES ASSUME Init PROVE IInv /\ LedgerComplete
  OBVIOUS
<1>0. MaxTime \in Nat \ {0} /\ 0 \in 0 .. MaxTime /\ MaxPull \in Nat  BY OverlapAssumption
<1>1. TypeOK  BY <1>0 DEF Init, TypeOK
<1>2. Clocked  BY <1>0 DEF Init, Clocked, Sessions
<1>3. Anchored  BY DEF Init, Anchored, Dated
<1>4. Ordered  BY DEF Init, Ordered, InOrder
<1>5. \A d \in Documents : ~Missed(d)  BY DEF Init, Missed, Indexed
<1>6. Ahead /\ Passing  BY <1>5 DEF Ahead, Passing
<1>7. LedgerComplete  BY DEF Init, LedgerComplete
<1> QED BY <1>1, <1>2, <1>3, <1>4, <1>6, <1>7 DEF IInv

LEMMA Inductive == IInv /\ [Next]_vars => IInv'
BY TypesKept, ClockedKept, AnchoredKept, OrderedKept, AheadKept, PassingKept DEF IInv

(* Every variable keeps its type; a timestamp, a cursor and a session's     *)
(* place never pass the clock's bound.                                      *)
THEOREM TypeCorrect == Spec => []TypeOK
BY Initially, TypesKept, PTL DEF Spec, IInv

(* Every stored alert keeps a receipt or a job that will give it one, for   *)
(* any sessions and any overlap of pulls, backfills, replays and webhook.   *)
THEOREM LedgerStaysComplete == Spec => []LedgerComplete
<1>1. Init => TypeOK /\ LedgerComplete  BY Initially DEF IInv
<1>2. TypeOK /\ LedgerComplete /\ [Next]_vars => (TypeOK /\ LedgerComplete)'
  BY TypesKept, LedgerKept
<1> QED BY <1>1, <1>2, PTL DEF Spec

(* If the overlap covers the indexer's lateness and the length of a pull,   *)
(* a document whose timestamp is its own is stored or in the next window,   *)
(* whatever the page size and however many pulls overlap and fail.          *)
THEOREM NothingStaysBehind == Spec => []NothingLeftBehind
<1>1. IInv => NothingLeftBehind
  <2> SUFFICES ASSUME IInv, NEW d \in Documents, LeftBehind(d), ~Tied(d) PROVE FALSE
    BY DEF NothingLeftBehind
  <2>1. Gte(cursor) <= stamp[d]  BY DEF IInv, Ahead, Missed, LeftBehind
  <2>2. stamp[d] < Gte(cursor)  BY DEF LeftBehind
  <2>3. stamp[d] \in Nat /\ cursor \in Nat  BY DEF IInv, TypeOK
  <2>4. Gte(cursor) \in Nat  BY <2>3, GteFacts
  <2> QED BY <2>1, <2>2, <2>3, <2>4
<1> QED BY <1>1, Initially, Inductive, PTL DEF Spec

(* Only a pull that another one overtook takes the cursor back.             *)
THEOREM CursorMovesForward == Spec => CursorMovesOn
<1>1. IInv /\ [Next]_vars =>
         [cursor' < cursor => \E p \in Pullers : Commit(p) /\ start[p] # cursor]_vars
  <2> SUFFICES ASSUME IInv, [Next]_vars, cursor' < cursor
               PROVE  \E p \in Pullers : Commit(p) /\ start[p] # cursor
    OBVIOUS
  <2>1. cursor \in Nat  BY DEF IInv, TypeOK
  <2>2. cursor' # cursor  BY <2>1
  <2>3. PICK p \in Pullers : Commit(p) /\ cursor' = final[p]  BY <2>2, CursorMoves
  <2>4. InOrder(p) /\ at[p] \in {"commit", "replay"}
    BY <2>3 DEF IInv, Ordered, Sessions, Commit
  <2>5. start[p] \in Nat /\ after[p] \in Nat  BY DEF IInv, TypeOK, Sessions
  <2>6. start[p] <= final[p]
    <3>1. CASE at[p] = "commit"
      <4>1. start[p] <= after[p] /\ (final[p] = after[p] \/ final[p] = start[p])
        BY <2>4, <3>1 DEF InOrder
      <4> QED BY <2>5, <4>1
    <3>2. CASE at[p] = "replay"
      <4>1. final[p] = start[p]  BY <2>4, <3>2 DEF InOrder
      <4> QED BY <2>5, <4>1
    <3> QED BY <2>4, <3>1, <3>2
  <2>7. start[p] # cursor
    <3>1. final[p] < cursor  BY <2>3
    <3>2. final[p] \in Nat  BY DEF IInv, TypeOK, Sessions
    <3> QED BY <2>1, <2>5, <2>6, <3>1, <3>2
  <2> QED BY <2>3, <2>7
<1> QED BY <1>1, Initially, Inductive, PTL DEF Spec, CursorMovesOn
=============================================================================
