-------------------------- MODULE AccountsProofs --------------------------
(***************************************************************************)
(* The lockout, the record and the sign-out, for any users, passwords,     *)
(* requests and limits.                                                    *)
(***************************************************************************)
EXTENDS Accounts, TLAPS

(* A row whose counter is at the limit is locked, and for every failure    *)
(* beyond the limit one whole LOCKOUT lies behind it.                      *)
Late(row) == row.failed_logins >= LOGIN_MAX_FAILS =>
    /\ (row.failed_logins - LOGIN_MAX_FAILS) * LOCKOUT <= clock
    /\ (row.failed_logins - LOGIN_MAX_FAILS + 1) * LOCKOUT <= row.locked_until

Answers == {"wrong password", "signed in", "signed out", "created", "done", "deactivated"}

(* What a transaction that holds its row has written over it. *)
Pending(q) ==
    /\ q.row \in Rows /\ Late(q.row) /\ q.answer \in Answers
    /\ q.answer = "created" <=> users[q.user] = Null
    /\ q.answer \in {"created", "signed in"} => q.row.failed_logins = 0
    /\ q.answer = "wrong password" => q.row.failed_logins = users[q.user].failed_logins + 1
    /\ q.answer \in {"signed out", "done", "deactivated"} =>
          q.row.failed_logins = users[q.user].failed_logins
    /\ q.answer = "signed in" => q.iat \in 0 .. clock
    /\ \A t \in q.before : t \in tokens /\ t.user = q.user
                           /\ t.iat <= q.row.sessions_invalid_before
    /\ users[q.user] # Null /\ users[q.user].is_active = FALSE => q.row.is_active = FALSE
    /\ q.answer = "deactivated" => q.row.is_active = FALSE

Phases == {"idle", "select", "check", "logout", "wrong role", "seed", "set-password",
           "deactivate", "commit"}

RequestOK(r, q) ==
    /\ q.pc \in Phases
    /\ q.pc # "idle" => q.user \in Usernames /\ q.now \in 0 .. clock
    /\ q.pc \in {"check", "commit"} => lock[q.user] = r
    /\ q.pc = "check" => q.seen = users[q.user]
    /\ q.pc \in {"check", "logout", "set-password", "deactivate"} => users[q.user] # Null
    /\ q.pc = "logout" => \A t \in q.before : t \in tokens /\ t.user = q.user /\ t.iat <= q.now
    /\ q.pc = "commit" => Pending(q)

TypeInv ==
    /\ users \in [Usernames -> Rows \cup {Null}]
    /\ lock \in [Usernames -> Requests \cup {Null}]
    /\ req = [r \in Requests |-> req[r]]
    /\ clock \in 0 .. MaxClock
    /\ wrong \in [Usernames -> Nat]

RequestInv == \A r \in Requests : RequestOK(r, req[r])

LockInv == \A u \in Usernames :
    lock[u] # Null => req[lock[u]].pc \in {"check", "commit"} /\ req[lock[u]].user = u

CountInv == \A u \in Usernames :
    IF users[u] = Null THEN wrong[u] = 0
    ELSE wrong[u] = users[u].failed_logins /\ Late(users[u])

TokenInv ==
    /\ \A t \in tokens : t.user \in Usernames /\ users[t.user] # Null /\ t.iat \in 0 .. clock
    /\ dead \subseteq tokens
    /\ \A t \in dead : \/ users[t.user].is_active = FALSE
                       \/ t.user \in moved_back
                       \/ t.iat <= users[t.user].sessions_invalid_before

Made(e, u) == e.type = "admin.user_created" /\ e.user = u

Recorded(u) ==
    IF users[u] = Null THEN \A e \in audit : ~ Made(e, u)
    ELSE \E e \in audit : Made(e, u) /\ \A f \in audit : Made(f, u) => f = e

AuditInv ==
    /\ \A u \in refused : \E e \in audit : e.type = "authz.denied" /\ e.user = u
    /\ \A u \in Usernames : Recorded(u)

IInv == TypeInv /\ RequestInv /\ LockInv /\ CountInv /\ TokenInv /\ AuditInv

---------------------------------------------------------------------------
LEMMA Limits == LOGIN_MAX_FAILS \in Nat \ {0} /\ LOCKOUT \in Nat \ {0} /\ JWT_TTL \in Nat \ {0}
                /\ MaxClock \in Nat /\ Null \notin Requests /\ Null \notin Rows
BY LimitAssumption

LEMMA Distributes ==
    ASSUME NEW a \in Int, NEW L \in Nat PROVE (a + 1) * L = a * L + L
OBVIOUS

LEMMA NotBoth == \A a, b \in Int : ~ (a <= b /\ b < a)
OBVIOUS

LEMMA InRange == \A c \in Nat : \A n \in 0 .. c : n \in Int
OBVIOUS

LEMMA Whole ==
    ASSUME NEW a \in Nat, NEW c \in Nat, NEW L \in Nat \ {0}, a * L <= c
    PROVE  a <= c \div L
<1> DEFINE d == c \div L
<1>1. d \in Int /\ c < d * L + L  OBVIOUS
<1>2. ASSUME a >= d + 1 PROVE FALSE
  <2>1. a * L >= (d + 1) * L  BY <1>1, <1>2
  <2>2. (d + 1) * L = d * L + L  BY <1>1, Distributes
  <2> QED BY <1>1, <2>1, <2>2
<1> QED BY <1>1, <1>2

(* A wrong password let in at n pushes the lock one LOCKOUT further. *)
LEMMA LateOn ==
    ASSUME NEW row \in Rows, Late(row), NEW n \in 0 .. clock, clock \in Nat,
           row.locked_until <= n,
           NEW new \in Rows, new.failed_logins = row.failed_logins + 1,
           new.locked_until = IF row.failed_logins + 1 >= LOGIN_MAX_FAILS
                              THEN n + LOCKOUT ELSE row.locked_until
    PROVE  Late(new)
<1> DEFINE f == row.failed_logins
           a == f - LOGIN_MAX_FAILS
<1>0. f \in Nat /\ a \in Int /\ row.locked_until \in Int  BY Limits DEF Rows
<1> SUFFICES ASSUME f + 1 >= LOGIN_MAX_FAILS
             PROVE  (a + 1) * LOCKOUT <= clock /\ (a + 1 + 1) * LOCKOUT <= n + LOCKOUT
  <2>1. new.failed_logins = f + 1
        /\ new.failed_logins - LOGIN_MAX_FAILS = a + 1
        /\ new.failed_logins - LOGIN_MAX_FAILS + 1 = a + 1 + 1
    BY <1>0, Limits
  <2> QED BY <2>1 DEF Late
<1>1. (a + 1) * LOCKOUT <= n
  <2>1. CASE f >= LOGIN_MAX_FAILS
    <3>1. (a + 1) * LOCKOUT <= row.locked_until  BY <2>1 DEF Late
    <3>2. (a + 1) * LOCKOUT \in Int  BY <1>0, Limits
    <3> QED BY <1>0, <3>1, <3>2
  <2>2. CASE ~ (f >= LOGIN_MAX_FAILS)
    <3>1. a + 1 = 0  BY <1>0, <2>2, Limits
    <3> QED BY <3>1, Limits
  <2> QED BY <2>1, <2>2
<1>2. (a + 1) * LOCKOUT \in Int /\ (a + 1 + 1) * LOCKOUT = (a + 1) * LOCKOUT + LOCKOUT
  BY <1>0, Limits, Distributes
<1> QED BY <1>1, <1>2, Limits

(* A row that keeps its counter keeps what its lock says, and time only    *)
(* makes it later.                                                         *)
LEMMA LateKept ==
    ASSUME NEW row, Late(row), NEW new, new.failed_logins = row.failed_logins,
           new.locked_until = row.locked_until
    PROVE  Late(new)
BY DEF Late

LEMMA LateFresh == ASSUME NEW new, new.failed_logins = 0 PROVE Late(new)
BY Limits DEF Late

---------------------------------------------------------------------------
(* A request that moves on by itself, takes its row or lets its rows go    *)
(* disturbs no other.                                                      *)
LEMMA Quietly ==
    ASSUME IInv, NEW r \in Requests, NEW q, req' = [req EXCEPT ![r] = q],
           UNCHANGED <<users, clock, tokens, audit, histories>>,
           lock' \in [Usernames -> Requests \cup {Null}],
           \A u \in Usernames : lock[u] \notin {Null, r} => lock'[u] = lock[u],
           \A u \in Usernames : lock'[u] \in {lock[u], r, Null},
           \A u \in Usernames : lock'[u] = r => q.pc \in {"check", "commit"} /\ q.user = u,
           RequestOK(r, req[r])'
    PROVE  IInv'
<1>u. UNCHANGED <<users, clock, tokens, audit, wrong, refused, dead, moved_back>>
  BY DEF histories
<1>r. req'[r] = q /\ \A s \in Requests \ {r} : req'[s] = req[s]
  BY DEF IInv, TypeInv
<1>1. TypeInv'  BY <1>u DEF IInv, TypeInv
<1>2. RequestInv'
  <2>1. ASSUME NEW s \in Requests \ {r} PROVE RequestOK(s, req[s])'
    <3>1. RequestOK(s, req[s])  BY DEF IInv, RequestInv
    <3>2. req[s].pc \in {"check", "commit"} => lock'[req[s].user] = s
      BY <3>1, Limits DEF RequestOK
    <3>3. req'[s] = req[s]  BY <1>r
    <3>4. Pending(req[s]) => Pending(req[s])'  BY <1>u, <3>3 DEF Pending, Late
    <3> QED BY <1>u, <3>1, <3>2, <3>3, <3>4 DEF RequestOK
  <2> QED BY <2>1 DEF RequestInv
<1>3. LockInv'
  <2> SUFFICES ASSUME NEW u \in Usernames, lock'[u] # Null
               PROVE  req'[lock'[u]].pc \in {"check", "commit"} /\ req'[lock'[u]].user = u
    BY DEF LockInv
  <2>1. CASE lock'[u] = r  BY <1>r, <2>1
  <2>2. CASE lock'[u] # r
    <3>1. lock'[u] = lock[u] /\ lock[u] \in Requests \ {r}
      BY <2>2, Limits DEF IInv, TypeInv
    <3> QED BY <1>r, <3>1 DEF IInv, LockInv
  <2> QED BY <2>1, <2>2
<1>4. CountInv'  BY <1>u DEF IInv, CountInv, Late
<1>5. TokenInv'  BY <1>u DEF IInv, TokenInv
<1>6. AuditInv'  BY <1>u DEF IInv, AuditInv, Recorded
<1> QED BY <1>1, <1>2, <1>3, <1>4, <1>5, <1>6 DEF IInv

(* The three things a quiet step does with locks. *)
LEMMA QuietHolds ==
    ASSUME IInv, NEW r \in Requests, NEW q, Goto(r, q), UNCHANGED lock,
           req[r].pc \notin {"check", "commit"},
           UNCHANGED <<users, clock, tokens, audit, histories>>,
           RequestOK(r, req[r])'
    PROVE  IInv'
<1>1. \A u \in Usernames : lock[u] # r
  BY Limits DEF IInv, LockInv
<1>2. lock' \in [Usernames -> Requests \cup {Null}] /\ req' = [req EXCEPT ![r] = q]
  BY DEF IInv, TypeInv, Goto
<1> QED BY <1>1, <1>2, Quietly

LEMMA QuietTakes ==
    ASSUME IInv, NEW r \in Requests, NEW q, NEW u \in Usernames,
           Goto(r, q), Free(r, u), Take(r, u), q.pc \in {"check", "commit"}, q.user = u,
           req[r].pc \in {"check", "commit"} => req[r].user = u,
           UNCHANGED <<users, clock, tokens, audit, histories>>,
           RequestOK(r, req[r])'
    PROVE  IInv'
<1>1. \A v \in Usernames : v # u => lock[v] # r  BY Limits DEF IInv, LockInv
<1>2. lock' = [lock EXCEPT ![u] = r] /\ req' = [req EXCEPT ![r] = q] /\ lock[u] \in {Null, r}
  BY DEF Take, Goto, Free
<1>3. lock' \in [Usernames -> Requests \cup {Null}]  BY <1>2 DEF IInv, TypeInv
<1>4. \A v \in Usernames : lock'[v] = IF v = u THEN r ELSE lock[v]
  BY <1>2 DEF IInv, TypeInv
<1> QED BY <1>1, <1>2, <1>3, <1>4, Quietly

LEMMA QuietEnds ==
    ASSUME IInv, NEW r \in Requests, Goto(r, Idle), Release(r),
           UNCHANGED <<users, clock, tokens, audit, histories>>
    PROVE  IInv'
<1>1. req' = [req EXCEPT ![r] = Idle]
      /\ lock' = [u \in Usernames |-> IF lock[u] = r THEN Null ELSE lock[u]]
  BY DEF Goto, Release
<1>2. /\ lock' \in [Usernames -> Requests \cup {Null}]
      /\ \A u \in Usernames : lock'[u] # r
      /\ \A u \in Usernames : lock[u] \notin {Null, r} => lock'[u] = lock[u]
      /\ \A u \in Usernames : lock'[u] \in {lock[u], r, Null}
  BY <1>1, Limits DEF IInv, TypeInv
<1>3. req'[r] = Idle  BY <1>1 DEF IInv, TypeInv
<1>4. RequestOK(r, req[r])'  BY <1>3 DEF RequestOK, Idle, Phases
<1> QED BY <1>1, <1>2, <1>4, Quietly

LEMMA ClockNow == IInv => clock \in Nat /\ clock \in 0 .. clock
<1>1. IInv => clock \in Nat  BY Limits DEF IInv, TypeInv
<1>2. clock \in Nat => clock \in 0 .. clock  OBVIOUS
<1> QED BY <1>1, <1>2

LEMMA TokenAge == IInv => \A t \in tokens : t.iat <= clock
<1> SUFFICES ASSUME IInv, NEW t \in tokens PROVE t.iat <= clock  OBVIOUS
<1>1. t.iat \in 0 .. clock  BY DEF IInv, TokenInv
<1>2. clock \in Nat  BY ClockNow
<1> QED BY ONLY <1>1, <1>2

LEMMA Goes == ASSUME IInv, NEW r \in Requests, NEW q, Goto(r, q) PROVE req'[r] = q
BY DEF IInv, TypeInv, Goto

---------------------------------------------------------------------------
LEMMA InitIInv == Init => IInv
<1> SUFFICES ASSUME Init PROVE IInv  OBVIOUS
<1>1. TypeInv  BY Limits DEF Init, TypeInv
<1>2. RequestInv  BY DEF Init, RequestInv, RequestOK, Idle, Phases
<1>3. LockInv /\ CountInv /\ TokenInv  BY DEF Init, LockInv, CountInv, TokenInv
<1>4. AuditInv  BY DEF Init, AuditInv, Recorded
<1> QED BY <1>1, <1>2, <1>3, <1>4 DEF IInv

LEMMA LateLater ==
    ASSUME NEW row \in Rows, Late(row), clock \in Nat, clock' = clock + 1
    PROVE  Late(row)'
<1>1. row.failed_logins \in Nat  BY DEF Rows
<1>2. (row.failed_logins - LOGIN_MAX_FAILS) * LOCKOUT \in Int  BY <1>1, Limits
<1> QED BY <1>2 DEF Late

LEMMA TickKeeps == IInv /\ Tick => IInv'
<1> SUFFICES ASSUME IInv, Tick PROVE IInv'  OBVIOUS
<1>u. /\ clock \in Nat /\ clock' = clock + 1
      /\ UNCHANGED <<users, lock, req, tokens, audit, wrong, refused, dead, moved_back>>
  BY Limits DEF IInv, TypeInv, Tick, histories
<1>1. TypeInv'  BY <1>u, Limits DEF IInv, TypeInv, Tick
<1>2. RequestInv'
  <2>1. ASSUME NEW r \in Requests PROVE RequestOK(r, req[r])'
    <3>1. RequestOK(r, req[r])  BY DEF IInv, RequestInv
    <3>2. ASSUME req[r].pc = "commit" PROVE Pending(req[r])'
      <4>1. Pending(req[r])  BY <3>1, <3>2 DEF RequestOK
      <4>2. Late(req[r].row)'  BY <1>u, <4>1, LateLater DEF Pending
      <4>3. \A n : n \in 0 .. clock => n \in 0 .. clock'  BY <1>u
      <4> QED BY <1>u, <4>1, <4>2, <4>3 DEF Pending, Late
    <3> QED BY <1>u, <3>1, <3>2 DEF RequestOK
  <2> QED BY <2>1 DEF RequestInv
<1>3. LockInv'  BY <1>u DEF IInv, LockInv
<1>4. CountInv'
  <2>1. ASSUME NEW u \in Usernames, users[u] # Null PROVE Late(users[u])'
    <3>1. users[u] \in Rows /\ Late(users[u])  BY <2>1 DEF IInv, TypeInv, CountInv
    <3> QED BY <1>u, <3>1, LateLater DEF Late
  <2> QED BY <1>u, <2>1 DEF IInv, CountInv
<1>5. TokenInv'  BY <1>u DEF IInv, TokenInv
<1>6. AuditInv'  BY <1>u DEF IInv, AuditInv, Recorded
<1> QED BY <1>1, <1>2, <1>3, <1>4, <1>5, <1>6 DEF IInv

(* A request between two statements that holds no row. *)
LEMMA LoginKeeps ==
    ASSUME IInv, NEW r \in Requests, NEW u \in Usernames, NEW p, Login(r, u, p)
    PROVE  IInv'
<1> DEFINE q == [pc |-> "select", user |-> u, password |-> p, now |-> clock]
<1>1. /\ Goto(r, q) /\ req[r].pc = "idle"
      /\ UNCHANGED lock /\ UNCHANGED <<users, clock, tokens, audit, histories>>
  BY DEF Login
<1>2. req'[r] = q  BY <1>1, Goes
<1>3. RequestOK(r, req[r])'  BY <1>1, <1>2 DEF RequestOK, Phases, IInv, TypeInv
<1> QED BY <1>1, <1>3, QuietHolds

LEMMA SelectKeeps == ASSUME IInv, NEW r \in Requests, Select(r) PROVE IInv'
<1> DEFINE u == req[r].user
           q == [pc |-> "check", user |-> u, password |-> req[r].password,
                 now |-> req[r].now, seen |-> users[u]]
<1>1. /\ Goto(r, q) /\ req[r].pc = "select" /\ users[u] # Null /\ Free(r, u) /\ Take(r, u)
      /\ UNCHANGED <<users, clock, tokens, audit, histories>>
  BY DEF Select
<1>2. u \in Usernames /\ req[r].now \in 0 .. clock
  BY <1>1 DEF IInv, RequestInv, RequestOK
<1>3. req'[r] = q  BY <1>1, Goes
<1>4. lock'[u] = r  BY <1>1, <1>2 DEF Take, IInv, TypeInv
<1>5. RequestOK(r, req[r])'
  <2> HIDE DEF u
  <2> QED BY <1>1, <1>2, <1>3, <1>4 DEF RequestOK, Phases
<1>6. q.pc = "check" /\ q.user = u  OBVIOUS
<1> HIDE DEF q, u
<1> QED BY <1>1, <1>2, <1>5, <1>6, QuietTakes

(* A request that ends and leaves the tables alone. *)
LEMMA EndsKeeps ==
    ASSUME IInv, NEW r \in Requests, UnknownUser(r) \/ Turned(r) \/ Fail(r)
    PROVE  IInv'
<1>1. CASE UnknownUser(r)
  <2>1. /\ Goto(r, Idle) /\ req[r].pc = "select"
        /\ UNCHANGED lock /\ UNCHANGED <<users, clock, tokens, audit, histories>>
    BY <1>1 DEF UnknownUser
  <2>2. req'[r] = Idle  BY <2>1, Goes
  <2>3. RequestOK(r, req[r])'  BY <2>2 DEF RequestOK, Idle, Phases
  <2> QED BY <2>1, <2>3, QuietHolds
<1>2. CASE Turned(r) \/ Fail(r)
  BY <1>2, QuietEnds DEF Turned, Fail
<1> QED BY <1>1, <1>2

(* A statement that writes over its row and holds it until the commit.     *)
LEMMA WritesKeeps ==
    ASSUME IInv, NEW r \in Requests, NEW row \in Rows, NEW answer \in Answers,
           req[r].pc # "idle", Free(r, req[r].user), Take(r, req[r].user),
           Writes(r, row, answer),
           UNCHANGED <<users, clock, tokens, audit, histories>>,
           Late(row), answer = "created" <=> users[req[r].user] = Null,
           answer \in {"created", "signed in"} => row.failed_logins = 0,
           answer = "wrong password" =>
              row.failed_logins = users[req[r].user].failed_logins + 1,
           answer \in {"signed out", "done", "deactivated"} =>
              row.failed_logins = users[req[r].user].failed_logins,
           answer = "signed out" => req[r].pc = "logout" /\ row.sessions_invalid_before = req[r].now,
           users[req[r].user] # Null /\ users[req[r].user].is_active = FALSE => row.is_active = FALSE,
           answer = "deactivated" => row.is_active = FALSE
    PROVE  IInv'
<1> DEFINE u == req[r].user
           before == IF answer = "signed out" THEN req[r].before ELSE {}
           iat == IF answer = "signed in" THEN clock ELSE Never
           q == [pc |-> "commit", user |-> u, now |-> req[r].now, row |-> row,
                 answer |-> answer, iat |-> iat, before |-> before]
<1>1. Goto(r, q)  BY DEF Writes
<1>2. RequestOK(r, req[r]) /\ u \in Usernames /\ req[r].now \in 0 .. clock
  BY DEF IInv, RequestInv, RequestOK
<1>3. req'[r] = q  BY <1>1, Goes
<1>4. lock'[u] = r  BY <1>2 DEF Take, IInv, TypeInv
<1>u. users' = users /\ tokens' = tokens /\ clock' = clock  BY DEF histories
<1>c. clock \in Nat  BY ClockNow
<1>5. \A t \in before : t \in tokens /\ t.user = u /\ t.iat <= row.sessions_invalid_before
  BY <1>2 DEF RequestOK
<1>6. answer = "signed in" => iat \in 0 .. clock
  <2>1. clock \in 0 .. clock  BY ONLY <1>c
  <2> QED BY ONLY <2>1
<1>f. /\ q.pc = "commit" /\ q.user = u /\ q.now = req[r].now /\ q.row = row
      /\ q.answer = answer /\ q.iat = iat /\ q.before = before
  OBVIOUS
<1>7. Pending(req[r])'
  <2> HIDE DEF before, iat, q
  <2> QED BY <1>2, <1>3, <1>5, <1>6, <1>f, <1>u, <1>c DEF Pending, Late
<1>8. RequestOK(r, req[r])'
  <2> HIDE DEF before, iat, q, u
  <2> QED BY <1>2, <1>3, <1>4, <1>7, <1>f, <1>u, <1>c DEF RequestOK, Phases
<1> HIDE DEF q
<1> QED BY <1>1, <1>2, <1>8, <1>f, QuietTakes

(* What a request in the middle of a statement knows of its row. *)
LEMMA HasRow ==
    ASSUME IInv, NEW r \in Requests,
           req[r].pc \in {"check", "logout", "set-password", "deactivate"}
    PROVE  /\ req[r].user \in Usernames /\ req[r].now \in 0 .. clock
           /\ users[req[r].user] # Null /\ users[req[r].user] \in Rows
           /\ Late(users[req[r].user]) /\ clock \in Nat
           /\ req[r].pc = "check" => req[r].seen = users[req[r].user]
<1>1. RequestOK(r, req[r])  BY DEF IInv, RequestInv
<1>2. req[r].user \in Usernames /\ users[req[r].user] # Null  BY <1>1 DEF RequestOK
<1> QED BY <1>1, <1>2 DEF RequestOK, IInv, TypeInv, CountInv

LEMMA WrongPasswordKeeps == ASSUME IInv, NEW r \in Requests, WrongPassword(r) PROVE IInv'
<1> DEFINE row == users[req[r].user]
           f == row.failed_logins + 1
           l == IF f >= LOGIN_MAX_FAILS THEN req[r].now + LOCKOUT ELSE row.locked_until
           new == [row EXCEPT !.failed_logins = f, !.locked_until = l]
<1>1. /\ req[r].pc = "check" /\ Free(r, req[r].user) /\ Take(r, req[r].user)
      /\ req[r].seen.locked_until <= req[r].now
      /\ Writes(r, new, "wrong password")
      /\ UNCHANGED <<users, clock, tokens, audit, histories>>
  BY DEF WrongPassword, Admissible
<1>2. /\ row \in Rows /\ row # Null /\ Late(row) /\ req[r].now \in 0 .. clock
      /\ clock \in Nat /\ req[r].seen = row
  BY <1>1, HasRow
<1>3. f \in Nat /\ l \in Int  BY <1>2, Limits DEF Rows
<1>4. new \in Rows /\ new.failed_logins = f /\ new.locked_until = l
      /\ new.is_active = row.is_active
  <2> HIDE DEF row, f, l
  <2> QED BY ONLY <1>2, <1>3 DEF Rows
<1>5. Late(new)
  <2> HIDE DEF new
  <2> QED BY <1>1, <1>2, <1>4, LateOn
<1> HIDE DEF new
<1> QED BY <1>1, <1>2, <1>4, <1>5, WritesKeeps DEF Answers

LEMMA RightPasswordKeeps == ASSUME IInv, NEW r \in Requests, RightPassword(r) PROVE IInv'
<1> DEFINE row == users[req[r].user]
           new == [row EXCEPT !.failed_logins = 0, !.locked_until = Never]
<1>1. /\ req[r].pc = "check" /\ Free(r, req[r].user) /\ Take(r, req[r].user)
      /\ Writes(r, new, "signed in")
      /\ UNCHANGED <<users, clock, tokens, audit, histories>>
  BY DEF RightPassword, Admissible
<1>2. row \in Rows /\ row # Null  BY <1>1, HasRow
<1>3. new \in Rows /\ new.failed_logins = 0 /\ new.is_active = row.is_active
  <2>1. Never \in Int  BY DEF Never
  <2> HIDE DEF row
  <2> QED BY ONLY <1>2, <2>1 DEF Rows
<1>4. Late(new)  BY <1>3, LateFresh
<1> HIDE DEF new
<1> QED BY <1>1, <1>2, <1>3, <1>4, WritesKeeps DEF Answers

LEMMA LogoutKeeps == ASSUME IInv, NEW r \in Requests, Logout(r) PROVE IInv'
<1> DEFINE row == users[req[r].user]
           n == req[r].now
           new == [row EXCEPT !.sessions_invalid_before = n]
<1>1. /\ req[r].pc = "logout" /\ Free(r, req[r].user) /\ Take(r, req[r].user)
      /\ Writes(r, new, "signed out")
      /\ UNCHANGED <<users, clock, tokens, audit, histories>>
  BY DEF Logout
<1>2. row \in Rows /\ row # Null /\ Late(row) /\ n \in Int
  <2>1. row \in Rows /\ row # Null /\ Late(row) /\ n \in 0 .. clock  BY <1>1, HasRow
  <2> QED BY ONLY <2>1
<1>3. /\ new \in Rows /\ new.failed_logins = row.failed_logins
      /\ new.locked_until = row.locked_until
      /\ new.is_active = row.is_active /\ new.sessions_invalid_before = n
  <2> HIDE DEF row, n
  <2> QED BY ONLY <1>2 DEF Rows
<1>4. Late(new)
  <2> HIDE DEF new
  <2> QED BY <1>2, <1>3, LateKept
<1> HIDE DEF new
<1> QED BY <1>1, <1>2, <1>3, <1>4, WritesKeeps DEF Answers

LEMMA CreateUserKeeps == ASSUME IInv, NEW r \in Requests, CreateUser(r) PROVE IInv'
<1>1. PICK p \in Passwords : Writes(r, New(p), "created")  BY DEF CreateUser
<1>2. /\ req[r].pc = "seed" /\ Free(r, req[r].user) /\ Take(r, req[r].user)
      /\ users[req[r].user] = Null
      /\ UNCHANGED <<users, clock, tokens, audit, histories>>
  BY DEF CreateUser
<1>3. New(p) \in Rows /\ New(p).failed_logins = 0  BY DEF New, Rows, Never
<1>4. Late(New(p))  BY <1>3, LateFresh
<1> QED BY <1>1, <1>2, <1>3, <1>4, WritesKeeps DEF Answers

LEMMA SetPasswordKeeps == ASSUME IInv, NEW r \in Requests, SetPassword(r) PROVE IInv'
<1> DEFINE row == users[req[r].user]
<1>0. PICK p \in Passwords : Writes(r, [row EXCEPT !.password = p], "done")
  BY DEF SetPassword
<1> DEFINE new == [row EXCEPT !.password = p]
<1>1. /\ req[r].pc = "set-password" /\ Free(r, req[r].user) /\ Take(r, req[r].user)
      /\ UNCHANGED <<users, clock, tokens, audit, histories>>
  BY DEF SetPassword
<1>2. row \in Rows /\ row # Null /\ Late(row)  BY <1>1, HasRow
<1>3. /\ new \in Rows /\ new.failed_logins = row.failed_logins
      /\ new.locked_until = row.locked_until /\ new.is_active = row.is_active
  <2> HIDE DEF row
  <2> QED BY ONLY <1>2, p \in Passwords DEF Rows
<1>4. Late(new)
  <2> HIDE DEF new
  <2> QED BY <1>2, <1>3, LateKept
<1> HIDE DEF new
<1>5. Writes(r, new, "done")  BY <1>0 DEF new
<1> QED BY <1>1, <1>2, <1>3, <1>4, <1>5, WritesKeeps DEF Answers

LEMMA DeactivateKeeps == ASSUME IInv, NEW r \in Requests, Deactivate(r) PROVE IInv'
<1> DEFINE row == users[req[r].user]
           n == req[r].now
           new == [row EXCEPT !.is_active = FALSE, !.sessions_invalid_before = n]
<1>1. /\ req[r].pc = "deactivate" /\ Free(r, req[r].user) /\ Take(r, req[r].user)
      /\ Writes(r, new, "deactivated")
      /\ UNCHANGED <<users, clock, tokens, audit, histories>>
  BY DEF Deactivate
<1>2. row \in Rows /\ row # Null /\ Late(row) /\ n \in Int
  <2>1. row \in Rows /\ row # Null /\ Late(row) /\ n \in 0 .. clock  BY <1>1, HasRow
  <2> QED BY ONLY <2>1
<1>3. /\ new \in Rows /\ new.failed_logins = row.failed_logins
      /\ new.locked_until = row.locked_until /\ new.is_active = FALSE
  <2> HIDE DEF row, n
  <2> QED BY ONLY <1>2 DEF Rows
<1>4. Late(new)
  <2> HIDE DEF new
  <2> QED BY <1>2, <1>3, LateKept
<1> HIDE DEF new
<1> QED BY <1>1, <1>2, <1>3, <1>4, WritesKeeps DEF Answers

---------------------------------------------------------------------------
LEMMA EnterKeeps ==
    ASSUME IInv, NEW r \in Requests, NEW t \in tokens, NEW route \in {"logout", "wrong role"},
           Enter(r, t, route)
    PROVE  IInv'
<1> DEFINE before == IF route = "logout" THEN {s \in tokens : s.user = t.user} ELSE {}
           q == [pc |-> route, user |-> t.user, token |-> t, now |-> clock, before |-> before]
<1>1. /\ Goto(r, q) /\ req[r].pc = "idle"
      /\ UNCHANGED lock /\ UNCHANGED <<users, clock, tokens, audit, histories>>
  BY DEF Enter
<1>2. req'[r] = q  BY <1>1, Goes
<1>3. t.user \in Usernames /\ users[t.user] # Null  BY DEF IInv, TokenInv
<1>4. clock \in Nat /\ clock \in 0 .. clock  BY ClockNow
<1>5. \A s \in before : s \in tokens /\ s.user = t.user /\ s.iat <= clock
  BY TokenAge
<1>f. q.pc = route /\ q.user = t.user /\ q.now = clock /\ q.before = before
  OBVIOUS
<1>u. users' = users /\ tokens' = tokens /\ clock' = clock  BY <1>1 DEF histories
<1>6. RequestOK(r, req[r])'
  <2> HIDE DEF q, before
  <2> QED BY <1>2, <1>3, <1>4, <1>5, <1>f, <1>u DEF RequestOK, Phases
<1> HIDE DEF q
<1>7. req[r].pc \notin {"check", "commit"}  BY <1>1
<1> QED BY <1>1, <1>6, <1>7, QuietHolds

LEMMA CommandKeeps ==
    ASSUME IInv, NEW r \in Requests, NEW u \in Usernames,
           NEW command \in {"seed", "set-password", "deactivate"}, Command(r, u, command)
    PROVE  IInv'
<1> DEFINE q == [pc |-> command, user |-> u, now |-> clock]
<1>1. /\ Goto(r, q) /\ req[r].pc = "idle" /\ (command = "seed" <=> users[u] = Null)
      /\ UNCHANGED lock /\ UNCHANGED <<users, clock, tokens, audit, histories>>
  BY DEF Command
<1>2. req'[r] = q  BY <1>1, Goes
<1>3. clock \in Nat /\ clock \in 0 .. clock  BY ClockNow
<1>f. q.pc = command /\ q.user = u /\ q.now = clock  OBVIOUS
<1>u. users' = users /\ clock' = clock  BY <1>1 DEF histories
<1>4. RequestOK(r, req[r])'
  <2> HIDE DEF q
  <2> QED BY <1>1, <1>2, <1>3, <1>f, <1>u DEF RequestOK, Phases
<1> HIDE DEF q
<1>5. req[r].pc \notin {"check", "commit"}  BY <1>1
<1> QED BY <1>1, <1>4, <1>5, QuietHolds

(* A 403 is the one step that adds to the record without a row. *)
LEMMA DeniedKeeps == ASSUME IInv, NEW r \in Requests, Denied(r) PROVE IInv'
<1> DEFINE u == req[r].user
           e == [type |-> "authz.denied", user |-> u, at |-> Never]
<1>1. /\ req[r].pc = "wrong role" /\ req' = [req EXCEPT ![r] = Idle]
      /\ audit' = audit \cup {e} /\ refused' = refused \cup {u}
      /\ users' = users /\ lock' = lock /\ clock' = clock /\ tokens' = tokens
      /\ wrong' = wrong /\ dead' = dead /\ moved_back' = moved_back
  BY DEF Denied, Goto
<1>2. req'[r] = Idle /\ \A s \in Requests \ {r} : req'[s] = req[s]
  BY <1>1 DEF IInv, TypeInv
<1>3. TypeInv'  BY <1>1 DEF IInv, TypeInv
<1>4. RequestInv'
  <2>1. RequestOK(r, req[r])'  BY <1>2 DEF RequestOK, Idle, Phases
  <2>2. ASSUME NEW s \in Requests \ {r} PROVE RequestOK(s, req[s])'
    <3>1. RequestOK(s, req[s]) /\ req'[s] = req[s]  BY <1>2 DEF IInv, RequestInv
    <3>2. Pending(req[s]) => Pending(req[s])'  BY <1>1, <3>1 DEF Pending, Late
    <3> QED BY <1>1, <3>1, <3>2 DEF RequestOK
  <2> QED BY <2>1, <2>2 DEF RequestInv
<1>5. LockInv'
  <2>1. \A v \in Usernames : lock[v] # r
    BY <1>1, Limits DEF IInv, LockInv
  <2>2. \A v \in Usernames : lock[v] # Null => lock[v] \in Requests \ {r}
    BY <2>1 DEF IInv, TypeInv
  <2> SUFFICES ASSUME NEW v \in Usernames, lock'[v] # Null
               PROVE  req'[lock'[v]].pc \in {"check", "commit"} /\ req'[lock'[v]].user = v
    BY DEF LockInv
  <2>3. lock[v] # Null /\ lock'[v] = lock[v]  BY <1>1
  <2>4. req'[lock[v]] = req[lock[v]]  BY <1>2, <2>2, <2>3
  <2>5. req[lock[v]].pc \in {"check", "commit"} /\ req[lock[v]].user = v
    BY <2>3 DEF IInv, LockInv
  <2> QED BY <2>3, <2>4, <2>5
<1>6. CountInv'  BY <1>1 DEF IInv, CountInv, Late
<1>7. TokenInv'  BY <1>1 DEF IInv, TokenInv
<1>8. AuditInv'
  <2>1. e.type = "authz.denied" /\ e.user = u  OBVIOUS
  <2> HIDE DEF e, u
  <2>2. \A v : ~ Made(e, v)  BY <2>1 DEF Made
  <2>3. \A v \in refused' : \E f \in audit' : f.type = "authz.denied" /\ f.user = v
    BY <1>1, <2>1 DEF IInv, AuditInv
  <2>4. ASSUME NEW v \in Usernames PROVE Recorded(v)'
    <3>1. Recorded(v) /\ users' = users /\ audit' = audit \cup {e}
      BY <1>1 DEF IInv, AuditInv
    <3>2. \A f \in audit' : Made(f, v) => f \in audit  BY <2>2, <3>1
    <3>3. CASE users[v] = Null  BY ONLY <3>1, <3>2, <3>3 DEF Recorded
    <3>4. CASE users[v] # Null  BY ONLY <3>1, <3>2, <3>4 DEF Recorded
    <3> QED BY <3>3, <3>4
  <2> QED BY <2>3, <2>4 DEF AuditInv
<1> QED BY <1>3, <1>4, <1>5, <1>6, <1>7, <1>8 DEF IInv

---------------------------------------------------------------------------
(* The commit lets go of its row with what was written over it; every other *)
(* request that knows the row by heart would have to hold its lock.         *)
LEMMA CommitRequests == ASSUME IInv, NEW r \in Requests, Commit(r) PROVE TypeInv' /\ RequestInv' /\ LockInv'
<1> DEFINE u == req[r].user
           row == req[r].row
<1>1. /\ req[r].pc = "commit" /\ users' = [users EXCEPT ![u] = row]
      /\ lock' = [v \in Usernames |-> IF lock[v] = r THEN Null ELSE lock[v]]
      /\ req' = [req EXCEPT ![r] = Idle] /\ clock' = clock /\ tokens \subseteq tokens'
  BY DEF Commit, Release, Goto
<1>2. RequestOK(r, req[r]) /\ u \in Usernames /\ lock[u] = r /\ Pending(req[r])
  BY <1>1 DEF IInv, RequestInv, RequestOK
<1>3. row \in Rows /\ row # Null  BY <1>2, Limits DEF Pending
<1> HIDE DEF row, u
<1>4. /\ users' \in [Usernames -> Rows \cup {Null}] /\ users'[u] = row
      /\ \A v \in Usernames : v # u => users'[v] = users[v]
  BY <1>1, <1>2, <1>3 DEF IInv, TypeInv
<1>5. req'[r] = Idle /\ (\A s \in Requests \ {r} : req'[s] = req[s])
      /\ req' = [s \in Requests |-> req'[s]]
  BY <1>1 DEF IInv, TypeInv
<1>6. wrong' \in [Usernames -> Nat]
  <2>1. wrong[u] \in Nat /\ wrong \in [Usernames -> Nat]  BY <1>2 DEF IInv, TypeInv
  <2>2. CASE req[r].answer = "wrong password"
    <3>1. wrong' = [wrong EXCEPT ![u] = @ + 1]  BY <2>2 DEF Commit, u
    <3>2. wrong[u] + 1 \in Nat  BY <2>1
    <3> QED BY ONLY <2>1, <3>1, <3>2
  <2>3. CASE req[r].answer = "signed in"
    <3>1. wrong' = [wrong EXCEPT ![u] = 0]  BY <2>3 DEF Commit, u
    <3> QED BY <2>1, <3>1
  <2>4. CASE req[r].answer \notin {"wrong password", "signed in"}
    <3>1. wrong' = [wrong EXCEPT ![u] = @]  BY <2>4 DEF Commit, u
    <3> QED BY <2>1, <3>1
  <2> QED BY <2>2, <2>3, <2>4
<1>7. lock' \in [Usernames -> Requests \cup {Null}]
      /\ \A v \in Usernames : lock'[v] = IF lock[v] = r THEN Null ELSE lock[v]
  BY <1>1 DEF IInv, TypeInv
<1>8. TypeInv'  BY <1>1, <1>4, <1>5, <1>6, <1>7 DEF IInv, TypeInv
<1>9. RequestInv'
  <2>1. RequestOK(r, req[r])'  BY <1>5 DEF RequestOK, Idle, Phases
  <2>2. ASSUME NEW s \in Requests \ {r} PROVE RequestOK(s, req[s])'
    <3> DEFINE v == req[s].user
    <3>1. RequestOK(s, req[s]) /\ req'[s] = req[s]  BY <1>5 DEF IInv, RequestInv
    <3>2. ASSUME req[s].pc \in {"check", "commit"}
          PROVE  v \in Usernames /\ v # u /\ lock'[v] = s /\ users'[v] = users[v]
      <4>1. v \in Usernames /\ lock[v] = s  BY <3>1, <3>2 DEF RequestOK
      <4> HIDE DEF v
      <4> QED BY <4>1, <1>2, <1>4, <1>7
    <3>3. ASSUME v \in Usernames, users[v] # Null PROVE users'[v] # Null
      <4> HIDE DEF v
      <4> QED BY <1>3, <1>4, <3>3
    <3>4. ASSUME req[s].pc = "commit" PROVE Pending(req[s])'
      <4>1. Pending(req[s]) /\ users'[v] = users[v]  BY <3>1, <3>2, <3>4 DEF RequestOK
      <4> QED BY <1>1, <3>1, <4>1 DEF Pending, Late
    <3> QED BY <1>1, <3>1, <3>2, <3>3, <3>4 DEF RequestOK, Phases
  <2> QED BY <2>1, <2>2 DEF RequestInv
<1>10. LockInv'
  <2> SUFFICES ASSUME NEW v \in Usernames, lock'[v] # Null
               PROVE  req'[lock'[v]].pc \in {"check", "commit"} /\ req'[lock'[v]].user = v
    BY DEF LockInv
  <2>1. lock[v] # r /\ lock'[v] = lock[v] /\ lock[v] # Null  BY <1>7
  <2>2. lock[v] \in Requests \ {r}  BY <2>1 DEF IInv, TypeInv
  <2>3. req'[lock[v]] = req[lock[v]]  BY <1>5, <2>2
  <2>4. req[lock[v]].pc \in {"check", "commit"} /\ req[lock[v]].user = v
    BY <2>1 DEF IInv, LockInv
  <2> QED BY <2>1, <2>3, <2>4
<1> QED BY <1>8, <1>9, <1>10

LEMMA CommitTables == ASSUME IInv, NEW r \in Requests, Commit(r) PROVE CountInv' /\ TokenInv' /\ AuditInv'
<1> DEFINE u == req[r].user
           row == req[r].row
           answer == req[r].answer
<1>1. /\ req[r].pc = "commit" /\ users' = [users EXCEPT ![u] = row]
      /\ clock' = clock /\ refused' = refused
  BY DEF Commit
<1>2. u \in Usernames /\ Pending(req[r])
  BY <1>1 DEF IInv, RequestInv, RequestOK
<1>3. /\ row \in Rows /\ row # Null /\ Late(row) /\ answer \in Answers
      /\ answer = "created" <=> users[u] = Null
      /\ answer \in {"created", "signed in"} => row.failed_logins = 0
      /\ answer = "wrong password" => row.failed_logins = users[u].failed_logins + 1
      /\ answer \in {"signed out", "done", "deactivated"} =>
            row.failed_logins = users[u].failed_logins
  BY <1>2, Limits DEF Pending
<1>4. /\ users'[u] = row
      /\ \A v \in Usernames : v # u => users'[v] = users[v]
  BY <1>1, <1>2 DEF IInv, TypeInv
<1>5. CountInv'
  <2>1. wrong \in [Usernames -> Nat]  BY DEF IInv, TypeInv
  <2>2. ASSUME NEW v \in Usernames, v # u
        PROVE  IF users'[v] = Null THEN wrong'[v] = 0
               ELSE wrong'[v] = users'[v].failed_logins /\ Late(users'[v])
    <3>1. wrong'[v] = wrong[v]  BY <2>1, <2>2 DEF Commit
    <3> QED BY <1>4, <2>2, <3>1 DEF IInv, CountInv
  <2>3. wrong'[u] = row.failed_logins
    <3>1. CASE answer = "wrong password"
      <4>1. wrong' = [wrong EXCEPT ![u] = @ + 1]  BY <3>1 DEF Commit
      <4>2. wrong'[u] = wrong[u] + 1  BY <1>2, <2>1, <4>1
      <4>3. users[u] # Null  BY <1>3, <3>1
      <4> QED BY <1>2, <1>3, <3>1, <4>2, <4>3 DEF IInv, CountInv
    <3>2. CASE answer = "signed in"
      <4>1. wrong' = [wrong EXCEPT ![u] = 0]  BY <3>2 DEF Commit
      <4> QED BY <1>2, <1>3, <2>1, <3>2, <4>1
    <3>3. CASE answer \notin {"wrong password", "signed in"}
      <4>1. wrong' = [wrong EXCEPT ![u] = @]  BY <3>3 DEF Commit
      <4>2. wrong'[u] = wrong[u]  BY <1>2, <2>1, <4>1
      <4>3. CASE answer = "created"
        <5>1. wrong[u] = 0  BY <1>2, <1>3, <4>3 DEF IInv, CountInv
        <5> QED BY <1>3, <4>2, <4>3, <5>1
      <4>4. CASE answer # "created"
        <5>1. wrong[u] = users[u].failed_logins  BY <1>2, <1>3, <4>4 DEF IInv, CountInv
        <5>2. answer \in {"signed out", "done", "deactivated"}
          BY <1>3, <3>3, <4>4 DEF Answers
        <5> QED BY <1>3, <4>2, <5>1, <5>2
      <4> QED BY <4>3, <4>4
    <3> QED BY <3>1, <3>2, <3>3
  <2> HIDE DEF u, row, answer
  <2>4. \A x : Late(x) <=> Late(x)'  BY <1>1 DEF Late
  <2> QED BY <1>1, <1>3, <1>4, <2>2, <2>3 DEF CountInv, Late
<1>6. TokenInv'
  <2> DEFINE new == {t \in {[user |-> u, iat |-> req[r].iat]} : answer = "signed in"}
  <2>1. tokens' = tokens \cup new
    BY DEF Commit
  <2>2. dead' = dead \cup req[r].before \cup {t \in tokens : t.user = u /\ answer = "deactivated"}
    BY DEF Commit
  <2>3. moved_back' = moved_back \cup
           {v \in {u} : users[v] # Null /\ row.sessions_invalid_before
                                             < users[v].sessions_invalid_before}
    BY DEF Commit
  <2>4. \A t \in req[r].before : t \in tokens /\ t.user = u
                                 /\ t.iat <= row.sessions_invalid_before
    BY <1>2 DEF Pending
  <2>5. /\ users[u] # Null /\ users[u].is_active = FALSE => row.is_active = FALSE
        /\ answer = "deactivated" => row.is_active = FALSE
    BY <1>2 DEF Pending
  <2>6. ASSUME NEW t \in new PROVE t.user = u /\ t.iat \in 0 .. clock
    <3>1. t = [user |-> u, iat |-> req[r].iat] /\ answer = "signed in"  OBVIOUS
    <3>2. req[r].iat \in 0 .. clock  BY <1>2, <3>1 DEF Pending
    <3> HIDE DEF new, u
    <3> QED BY ONLY <3>1, <3>2
  <2> HIDE DEF new, u, row, answer
  <2>7. ASSUME NEW t \in tokens'
        PROVE  t.user \in Usernames /\ users'[t.user] # Null /\ t.iat \in 0 .. clock
    <3>1. CASE t \in new  BY <1>2, <1>3, <1>4, <2>6, <3>1
    <3>2. CASE t \in tokens
      BY <1>3, <1>4, <3>2 DEF IInv, TokenInv
    <3> QED BY <2>1, <3>1, <3>2
  <2>8. dead' \subseteq tokens'  BY <2>1, <2>2, <2>4 DEF IInv, TokenInv
  <2>9. ASSUME NEW t \in dead'
        PROVE  \/ users'[t.user].is_active = FALSE
               \/ t.user \in moved_back'
               \/ t.iat <= users'[t.user].sessions_invalid_before
    <3>1. CASE t \in req[r].before  BY <1>4, <2>4, <3>1
    <3>2. CASE t.user = u /\ answer = "deactivated"  BY <1>4, <2>5, <3>2
    <3>3. CASE t \in dead
      <4>1. /\ t \in tokens /\ t.user \in Usernames /\ users[t.user] # Null
            /\ \/ users[t.user].is_active = FALSE
               \/ t.user \in moved_back
               \/ t.iat <= users[t.user].sessions_invalid_before
        BY <3>3 DEF IInv, TokenInv
      <4>2. CASE t.user # u  BY <1>4, <2>3, <4>1, <4>2
      <4>3. CASE t.user = u
        <5>1. CASE row.sessions_invalid_before < users[u].sessions_invalid_before
          BY <2>3, <4>1, <4>3, <5>1
        <5>2. CASE ~ (row.sessions_invalid_before < users[u].sessions_invalid_before)
          <6>1. users[u] \in Rows  BY <4>1, <4>3 DEF IInv, TypeInv
          <6>2. t.iat \in Int /\ row.sessions_invalid_before \in Int
                /\ users[u].sessions_invalid_before \in Int
            <7>1. t.iat \in 0 .. clock  BY <4>1 DEF IInv, TokenInv
            <7>2. row.sessions_invalid_before \in Int
                  /\ users[u].sessions_invalid_before \in Int
              BY <1>3, <6>1 DEF Rows
            <7> QED BY ONLY <7>1, <7>2
          <6>3. t.iat <= users[u].sessions_invalid_before =>
                   t.iat <= row.sessions_invalid_before
            BY <5>2, <6>2
          <6> QED BY <1>4, <2>3, <2>5, <4>1, <4>3, <6>3
        <5> QED BY <5>1, <5>2
      <4> QED BY <4>2, <4>3
    <3> QED BY <2>2, <3>1, <3>2, <3>3
  <2> QED BY <1>1, <2>7, <2>8, <2>9 DEF TokenInv
<1>7. AuditInv'
  <2> DEFINE made == [type |-> "admin.user_created", user |-> u, at |-> req[r].now]
  <2>1. CASE answer = "created"
    <3>1. audit' = audit \cup {made}  BY <2>1 DEF Commit
    <3>2. made.type = "admin.user_created" /\ made.user = u  OBVIOUS
    <3>3. \A f \in audit : ~ Made(f, u)  BY <1>2, <1>3, <2>1 DEF IInv, AuditInv, Recorded
    <3>4. \A v : Made(made, v) <=> v = u  BY <3>2 DEF Made
    <3> HIDE DEF made, u, row, answer
    <3>7. \A v \in refused' : \E f \in audit' : f.type = "authz.denied" /\ f.user = v
      BY <1>1, <3>1 DEF IInv, AuditInv
    <3>8. ASSUME NEW v \in Usernames PROVE Recorded(v)'
      <4>1. CASE v = u  BY <1>3, <1>4, <3>1, <3>3, <3>4, <4>1 DEF Recorded
      <4>2. CASE v # u  BY <1>4, <3>1, <3>4, <4>2 DEF IInv, AuditInv, Recorded
      <4> QED BY <4>1, <4>2
    <3> QED BY <3>7, <3>8 DEF AuditInv
  <2>2. CASE answer # "created"
    <3>1. audit' = audit  BY <2>2 DEF Commit
    <3>2. users[u] # Null  BY <1>3, <2>2
    <3> HIDE DEF u, row, answer
    <3> QED BY <1>1, <1>2, <1>3, <1>4, <3>1, <3>2 DEF IInv, AuditInv, Recorded
  <2> QED BY <2>1, <2>2
<1> QED BY <1>5, <1>6, <1>7

LEMMA CommitKeeps == ASSUME IInv, NEW r \in Requests, Commit(r) PROVE IInv'
BY CommitRequests, CommitTables DEF IInv

LEMMA Stutter == IInv /\ UNCHANGED vars => IInv'
<1> SUFFICES ASSUME IInv, UNCHANGED vars PROVE IInv'  OBVIOUS
<1>u. UNCHANGED <<users, lock, req, clock, tokens, audit, wrong, refused, dead, moved_back>>
  BY DEF vars, histories
<1>1. TypeInv'  BY <1>u DEF IInv, TypeInv
<1>2. RequestInv'
  <2>1. ASSUME NEW r \in Requests PROVE RequestOK(r, req[r])'
    <3>1. RequestOK(r, req[r])  BY DEF IInv, RequestInv
    <3>2. Pending(req[r]) => Pending(req[r])'  BY <1>u DEF Pending, Late
    <3> QED BY <1>u, <3>1, <3>2 DEF RequestOK
  <2> QED BY <2>1 DEF RequestInv
<1>3. LockInv' /\ TokenInv'  BY <1>u DEF IInv, LockInv, TokenInv
<1>4. CountInv'  BY <1>u DEF IInv, CountInv, Late
<1>5. AuditInv'  BY <1>u DEF IInv, AuditInv, Recorded
<1> QED BY <1>1, <1>2, <1>3, <1>4, <1>5 DEF IInv

LEMMA StepIInv == IInv /\ [Next]_vars => IInv'
<1> SUFFICES ASSUME IInv, Next PROVE IInv'  BY Stutter
<1>1. ASSUME NEW r \in Requests, Step(r) PROVE IInv'
  BY <1>1, LoginKeeps, SelectKeeps, EndsKeeps, WrongPasswordKeeps, RightPasswordKeeps,
     EnterKeeps, LogoutKeeps, DeniedKeeps, CommandKeeps, CreateUserKeeps,
     SetPasswordKeeps, DeactivateKeeps, CommitKeeps DEF Step
<1> QED BY <1>1, TickKeeps DEF Next

(* The inductive invariant holds in every behaviour of the accounts. *)
THEOREM AccountsInvariant == Spec => []IInv
BY InitIInv, StepIInv, PTL DEF Spec

(* The parts of a row and of the counters that the module's types speak of. *)
THEOREM AccountsTyped == Spec => []TypeOK
<1>1. IInv => TypeOK
  <2> SUFFICES ASSUME IInv PROVE TypeOK  OBVIOUS
  <2>1. ASSUME NEW u \in Usernames
        PROVE  /\ users[u] \in Rows \cup {Null} /\ lock[u] \in Requests \cup {Null}
               /\ lock[u] # Null => /\ req[lock[u]].pc \in {"check", "commit"}
                                    /\ req[lock[u]].user = u
               /\ users[u] # Null => users[u].failed_logins = wrong[u]
    BY DEF IInv, TypeInv, LockInv, CountInv
  <2>2. clock \in 0 .. MaxClock  BY DEF IInv, TypeInv
  <2>3. \A t \in tokens : users[t.user] # Null /\ t.iat \in 0 .. clock
    BY DEF IInv, TokenInv
  <2>4. dead \subseteq tokens  BY DEF IInv, TokenInv
  <2> QED BY <2>1, <2>2, <2>3, <2>4 DEF TypeOK
<1> QED BY <1>1, AccountsInvariant, PTL

(* login, the lockout: however requests race, LOGIN_MAX_FAILS guesses and   *)
(* one more for each LOCKOUT that has passed.                               *)
THEOREM LockoutHolds == Spec => []GuessesBounded
<1>1. IInv => GuessesBounded
  <2> SUFFICES ASSUME IInv, NEW u \in Usernames
               PROVE  wrong[u] <= LOGIN_MAX_FAILS + clock \div LOCKOUT
    BY DEF GuessesBounded
  <2>1. clock \in Nat /\ wrong[u] \in Nat  BY ClockNow DEF IInv, TypeInv
  <2>2. clock \div LOCKOUT \in Int /\ 0 <= clock \div LOCKOUT
    <3>1. 0 * LOCKOUT <= clock  BY <2>1, Limits
    <3>2. 0 <= clock \div LOCKOUT  BY <2>1, <3>1, Limits, Whole
    <3> QED BY <2>1, <3>2, Limits
  <2>3. CASE wrong[u] < LOGIN_MAX_FAILS  BY <2>1, <2>2, <2>3, Limits
  <2>4. CASE ~ (wrong[u] < LOGIN_MAX_FAILS)
    <3> DEFINE a == wrong[u] - LOGIN_MAX_FAILS
    <3>1. wrong[u] >= LOGIN_MAX_FAILS /\ a \in Nat  BY <2>1, <2>4, Limits
    <3>2. users[u] # Null  BY <3>1, Limits DEF IInv, CountInv
    <3>3. wrong[u] = users[u].failed_logins /\ Late(users[u])
      BY <3>2 DEF IInv, CountInv
    <3>4. a * LOCKOUT <= clock  BY <3>1, <3>3 DEF Late
    <3> HIDE DEF a
    <3>5. a <= clock \div LOCKOUT  BY <2>1, <3>1, <3>4, Limits, Whole
    <3> USE DEF a
    <3> QED BY ONLY <2>1, <2>2, <3>1, <3>5, Limits
  <2> QED BY <2>3, <2>4
<1> QED BY <1>1, AccountsInvariant, PTL

(* require_role and create_user: every 403 and every account is on record,  *)
(* an account once.                                                         *)
THEOREM AnswersAreOnRecord == Spec => []OnRecord
<1>1. IInv => OnRecord
  <2> SUFFICES ASSUME IInv PROVE OnRecord  OBVIOUS
  <2>1. ASSUME NEW u \in Usernames, users[u] # Null
        PROVE  \E e \in audit : /\ e.type = "admin.user_created" /\ e.user = u
                                /\ \A f \in audit : f.type = e.type /\ f.user = u => f = e
    <3>1. PICK e \in audit : Made(e, u) /\ \A f \in audit : Made(f, u) => f = e
      BY <2>1 DEF IInv, AuditInv, Recorded
    <3> QED BY <3>1 DEF Made
  <2>2. \A u \in refused : \E e \in audit : e.type = "authz.denied" /\ e.user = u
    BY DEF IInv, AuditInv
  <2> QED BY <2>1, <2>2 DEF OnRecord
<1> QED BY <1>1, AccountsInvariant, PTL

(* A step of one request leaves what the others hold alone. *)
LEMMA OnlyItsOwn ==
    ASSUME IInv, NEW s \in Requests, Step(s)
    PROVE  \A r \in Requests \ {s} : req'[r] = req[r]
<1>1. ASSUME NEW q, Goto(s, q) PROVE \A r \in Requests \ {s} : req'[r] = req[r]
  BY <1>1 DEF Goto, IInv, TypeInv
<1>2. ASSUME NEW row, NEW answer, Writes(s, row, answer)
      PROVE  \A r \in Requests \ {s} : req'[r] = req[r]
  BY <1>1, <1>2 DEF Writes
<1> QED
  BY <1>1, <1>2 DEF Step, Login, Select, UnknownUser, Turned, WrongPassword, RightPassword,
     Enter, Logout, Denied, Command, CreateUser, SetPassword, Deactivate, Commit, Fail

(* logout and deactivate: no request enters on a token handed out before a  *)
(* sign-out that has been answered, unless the time of one went backwards.  *)
THEOREM SignOutsHold == Spec => SignedOutUnlessMovedBack
<1>1. IInv /\ [Next]_vars => [\A r \in Requests : ~ DeadEnter(r, Usernames \ moved_back)]_vars
  <2> SUFFICES ASSUME IInv, Next, NEW r \in Requests, DeadEnter(r, Usernames \ moved_back)
               PROVE  FALSE
    OBVIOUS
  <2>1. /\ req[r].pc = "idle" /\ req'[r].pc \in {"logout", "wrong role"}
        /\ req'[r].token \in dead /\ req'[r].token.user \notin moved_back
    BY DEF DeadEnter
  <2>2. ~ Tick  BY <2>1 DEF Tick
  <2>3. PICK s \in Requests : Step(s)  BY <2>2 DEF Next
  <2>4. s = r  BY <2>1, <2>3, OnlyItsOwn
  <2>6. PICK t \in tokens, route \in {"logout", "wrong role"} : Enter(r, t, route)
    <3>1. ASSUME NEW u \in Usernames, NEW p \in Passwords, Login(r, u, p) PROVE FALSE
      <4>1. Goto(r, [pc |-> "select", user |-> u, password |-> p, now |-> clock])
        BY <3>1 DEF Login
      <4>2. req'[r] = [pc |-> "select", user |-> u, password |-> p, now |-> clock]
        BY ONLY IInv, r \in Requests, <4>1, Goes
      <4> QED BY ONLY <2>1, <4>2
    <3>2. ASSUME NEW u \in Usernames, NEW command \in {"seed", "set-password", "deactivate"},
                 Command(r, u, command)
          PROVE  FALSE
      <4> DEFINE q == [pc |-> command, user |-> u, now |-> clock]
      <4>1. Goto(r, q)  BY <3>2 DEF Command
      <4>2. q.pc = command  OBVIOUS
      <4> HIDE DEF q
      <4>3. req'[r] = q  BY <4>1, Goes
      <4> QED BY <2>1, <4>2, <4>3
    <3>3. ~ (Select(r) \/ UnknownUser(r) \/ Turned(r) \/ WrongPassword(r) \/ RightPassword(r)
             \/ Logout(r) \/ Denied(r) \/ CreateUser(r) \/ SetPassword(r) \/ Deactivate(r)
             \/ Commit(r) \/ Fail(r))
      BY <2>1 DEF Select, UnknownUser, Turned, WrongPassword, RightPassword, Admissible,
         Logout, Denied, CreateUser, SetPassword, Deactivate, Commit, Fail
    <3> QED BY <2>3, <2>4, <3>1, <3>2, <3>3 DEF Step
  <2>7. req'[r].token = t
    <3> DEFINE before == IF route = "logout" THEN {o \in tokens : o.user = t.user} ELSE {}
               q == [pc |-> route, user |-> t.user, token |-> t, now |-> clock,
                     before |-> before]
    <3>1. Goto(r, q)  BY <2>6 DEF Enter
    <3>2. q.token = t  OBVIOUS
    <3> HIDE DEF q
    <3>3. req'[r] = q  BY <3>1, Goes
    <3> QED BY <3>2, <3>3
  <2>8. users[t.user].is_active /\ users[t.user].sessions_invalid_before < t.iat
    BY <2>6 DEF Enter, Valid
  <2>9. t \in dead /\ t.user \notin moved_back  BY <2>1, <2>7
  <2>10. t.iat <= users[t.user].sessions_invalid_before
    BY <2>8, <2>9 DEF IInv, TokenInv
  <2>11. t.user \in Usernames /\ users[t.user] # Null /\ t.iat \in 0 .. clock
    BY <2>6 DEF IInv, TokenInv
  <2>12. users[t.user].sessions_invalid_before \in Int
    <3>1. users[t.user] \in Rows  BY <2>11 DEF IInv, TypeInv
    <3> QED BY ONLY <3>1 DEF Rows
  <2>13. t.iat \in Int
    <3>1. clock \in Nat  BY ClockNow
    <3> QED BY ONLY <2>11, <3>1, InRange
  <2>14. users[t.user].sessions_invalid_before < t.iat  BY <2>8
  <2> QED BY ONLY <2>10, <2>12, <2>13, <2>14, NotBoth
<1> QED BY <1>1, AccountsInvariant, PTL DEF Spec, SignedOutUnlessMovedBack
=============================================================================
