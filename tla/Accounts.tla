------------------------------ MODULE Accounts ------------------------------
(***************************************************************************)
(* Sign-in, sessions and the users table: infra/auth.py under the routers  *)
(* that call it (web/deps.py, web/routers/auth.py and pages.py) and its    *)
(* command line.  A request is one transaction; now() is the moment its    *)
(* first statement arrived, before any wait for the lock of a users row.   *)
(* Plain reads see committed rows and wait for nothing.                    *)
(*                                                                         *)
(* Hashing and signing are abstract: a password is a value, a token is its *)
(* user and its iat.  The application and the database read one clock, in  *)
(* steps of which two statements may share one.  JWT_SECRET is set.        *)
(***************************************************************************)
EXTENDS Integers

CONSTANTS
    Usernames, Passwords,
    Requests,        \* requests and commands that run at one time
    Null,
    LOGIN_MAX_FAILS, LOCKOUT, JWT_TTL,  \* the last two in steps of the clock
    MaxClock         \* bound of the model

Rows == [is_active: BOOLEAN, password: Passwords, failed_logins: Nat,
         locked_until: Int, sessions_invalid_before: Int]

ASSUME LimitAssumption ==
    /\ LOGIN_MAX_FAILS \in Nat \ {0} /\ LOCKOUT \in Nat \ {0} /\ JWT_TTL \in Nat \ {0}
    /\ MaxClock \in Nat /\ Null \notin Requests /\ Null \notin Rows

VARIABLES
    users,      \* the committed row of a username, Null before it is created
    lock,       \* which request holds the row, if any
    req,        \* what a request holds in memory and in its transaction
    clock,
    tokens,     \* tokens handed out
    audit,      \* audit_events: authz.denied and admin.user_created
    \* history:
    wrong,      \* wrong passwords answered since the last sign-in
    refused,    \* users answered 403
    dead,       \* tokens handed out before a sign-out that has been answered began
    moved_back  \* users whose sessions_invalid_before went to an earlier time

histories == <<wrong, refused, dead, moved_back>>
vars == <<users, lock, req, clock, tokens, audit, histories>>

Never == -1      \* a NULL timestamp: no comparison with it holds
Idle == [pc |-> "idle"]

New(p) == [is_active |-> TRUE, password |-> p, failed_logins |-> 0,
           locked_until |-> Never, sessions_invalid_before |-> Never]

TypeOK ==
    /\ \A u \in Usernames : /\ users[u] \in Rows \cup {Null}
                            /\ lock[u] \in Requests \cup {Null}
                            /\ lock[u] # Null => /\ req[lock[u]].pc \in {"check", "commit"}
                                                 /\ req[lock[u]].user = u
                            /\ users[u] # Null => users[u].failed_logins = wrong[u]
    /\ clock \in 0 .. MaxClock
    /\ \A t \in tokens : users[t.user] # Null /\ t.iat \in 0 .. clock
    /\ dead \subseteq tokens

Init ==
    /\ users = [u \in Usernames |-> Null] /\ lock = [u \in Usernames |-> Null]
    /\ req = [r \in Requests |-> Idle] /\ clock = 0
    /\ tokens = {} /\ audit = {}
    /\ wrong = [u \in Usernames |-> 0] /\ refused = {} /\ dead = {} /\ moved_back = {}

Tick ==
    /\ clock < MaxClock /\ clock' = clock + 1
    /\ UNCHANGED <<users, lock, req, tokens, audit, histories>>

---------------------------------------------------------------------------
(* Row locks.  A request waits while another one holds the row. *)

Free(r, u) == lock[u] \in {Null, r}
Take(r, u) == lock' = [lock EXCEPT ![u] = r]
Release(r) == lock' = [u \in Usernames |-> IF lock[u] = r THEN Null ELSE lock[u]]

Goto(r, record) == req' = [req EXCEPT ![r] = record]

(* The transaction has written row and will answer so at its commit. *)
Writes(r, row, answer) ==
    Goto(r, [pc |-> "commit", user |-> req[r].user, now |-> req[r].now, row |-> row,
             answer |-> answer, iat |-> IF answer = "signed in" THEN clock ELSE Never,
             before |-> IF answer = "signed out" THEN req[r].before ELSE {}])

(* The process or its connection dies, or an exception is not caught. *)
Fail(r) ==
    /\ req[r].pc # "idle"
    /\ Goto(r, Idle) /\ Release(r)
    /\ UNCHANGED <<users, clock, tokens, audit, histories>>

---------------------------------------------------------------------------
(* login *)

Login(r, u, p) ==
    /\ req[r].pc = "idle"
    /\ Goto(r, [pc |-> "select", user |-> u, password |-> p, now |-> clock])
    /\ UNCHANGED <<users, lock, clock, tokens, audit, histories>>

SelectUnlocked(r) ==
    /\ req[r].pc = "select" /\ users[req[r].user] # Null
    /\ Goto(r, [pc |-> "check", user |-> req[r].user, password |-> req[r].password,
                now |-> req[r].now, seen |-> users[req[r].user]])
    /\ UNCHANGED <<users, lock, clock, tokens, audit, histories>>

(* SELECT ... FOR UPDATE *)
Select(r) ==
    /\ req[r].pc = "select" /\ users[req[r].user] # Null
    /\ Free(r, req[r].user) /\ Take(r, req[r].user)
    /\ Goto(r, [pc |-> "check", user |-> req[r].user, password |-> req[r].password,
                now |-> req[r].now, seen |-> users[req[r].user]])
    /\ UNCHANGED <<users, clock, tokens, audit, histories>>

UnknownUser(r) ==
    /\ req[r].pc = "select" /\ users[req[r].user] = Null
    /\ Goto(r, Idle)
    /\ UNCHANGED <<users, lock, clock, tokens, audit, histories>>

(* 423 or 401 before the password is looked at. *)
Turned(r) ==
    /\ req[r].pc = "check"
    /\ req[r].seen.locked_until > req[r].now \/ ~ req[r].seen.is_active
    /\ Goto(r, Idle) /\ Release(r)
    /\ UNCHANGED <<users, clock, tokens, audit, histories>>

Admissible(r) ==
    /\ req[r].pc = "check" /\ Free(r, req[r].user)
    /\ req[r].seen.locked_until <= req[r].now /\ req[r].seen.is_active

WrongPassword(r) ==
    LET u == req[r].user
        failed == users[u].failed_logins + 1
    IN  /\ Admissible(r) /\ req[r].seen.password # req[r].password
        /\ Take(r, u)
        /\ Writes(r, [users[u] EXCEPT !.failed_logins = failed,
                         !.locked_until = IF failed >= LOGIN_MAX_FAILS
                                          THEN req[r].now + LOCKOUT ELSE @],
                  "wrong password")
        /\ UNCHANGED <<users, clock, tokens, audit, histories>>

RightPassword(r) ==
    LET u == req[r].user
    IN  /\ Admissible(r) /\ req[r].seen.password = req[r].password
        /\ Take(r, u)
        /\ Writes(r, [users[u] EXCEPT !.failed_logins = 0, !.locked_until = Never],
                  "signed in")
        /\ UNCHANGED <<users, clock, tokens, audit, histories>>

---------------------------------------------------------------------------
(* A request with a token: current_user, then logout or a guarded route.   *)

ValidLoose(t) ==
    /\ clock < t.iat + JWT_TTL
    /\ users[t.user].is_active
    /\ users[t.user].sessions_invalid_before <= t.iat

Valid(t) ==
    /\ clock < t.iat + JWT_TTL
    /\ users[t.user].is_active
    /\ users[t.user].sessions_invalid_before < t.iat

(* verify's SELECT is the transaction's first statement. *)
Enter(r, t, route) ==
    /\ req[r].pc = "idle" /\ Valid(t)
    /\ Goto(r, [pc |-> route, user |-> t.user, token |-> t, now |-> clock,
                before |-> IF route = "logout" THEN {s \in tokens : s.user = t.user} ELSE {}])
    /\ UNCHANGED <<users, lock, clock, tokens, audit, histories>>

Logout(r) ==
    /\ req[r].pc = "logout" /\ Free(r, req[r].user) /\ Take(r, req[r].user)
    /\ Writes(r, [users[req[r].user] EXCEPT !.sessions_invalid_before = req[r].now],
              "signed out")
    /\ UNCHANGED <<users, clock, tokens, audit, histories>>

DeniedRaises(r) ==
    /\ req[r].pc = "wrong role"
    /\ Goto(r, Idle)
    /\ refused' = refused \cup {req[r].user}
    /\ UNCHANGED <<users, lock, clock, tokens, audit, wrong, dead, moved_back>>

(* require_role commits authz.denied before it raises the 403. *)
Denied(r) ==
    /\ req[r].pc = "wrong role"
    /\ Goto(r, Idle)
    /\ audit' = audit \cup {[type |-> "authz.denied", user |-> req[r].user, at |-> Never]}
    /\ refused' = refused \cup {req[r].user}
    /\ UNCHANGED <<users, lock, clock, tokens, wrong, dead, moved_back>>

---------------------------------------------------------------------------
(* The command line: seed-users, set-password, deactivate. *)

Command(r, u, command) ==
    /\ req[r].pc = "idle"
    /\ command = "seed" <=> users[u] = Null    \* else "exists, skipped" or "no such user"
    /\ Goto(r, [pc |-> command, user |-> u, now |-> clock])
    /\ UNCHANGED <<users, lock, clock, tokens, audit, histories>>

(* The insert waits for an uncommitted row of the same name; if one was     *)
(* committed meanwhile, the unique constraint raises and Fail is what is left. *)
CreateUser(r) ==
    /\ req[r].pc = "seed" /\ Free(r, req[r].user) /\ users[req[r].user] = Null
    /\ Take(r, req[r].user)
    /\ \E p \in Passwords : Writes(r, New(p), "created")
    /\ UNCHANGED <<users, clock, tokens, audit, histories>>

SetPassword(r) ==
    /\ req[r].pc = "set-password" /\ Free(r, req[r].user) /\ Take(r, req[r].user)
    /\ \E p \in Passwords : Writes(r, [users[req[r].user] EXCEPT !.password = p], "done")
    /\ UNCHANGED <<users, clock, tokens, audit, histories>>

Deactivate(r) ==
    /\ req[r].pc = "deactivate" /\ Free(r, req[r].user) /\ Take(r, req[r].user)
    /\ Writes(r, [users[req[r].user] EXCEPT !.is_active = FALSE,
                     !.sessions_invalid_before = req[r].now], "deactivated")
    /\ UNCHANGED <<users, clock, tokens, audit, histories>>

---------------------------------------------------------------------------
(* The commit: before the exception of a failed login, else after the route *)
(* and before its response.                                                *)

Commit(r) ==
    LET u == req[r].user
        answered(answer) == req[r].answer = answer
    IN  /\ req[r].pc = "commit"
        /\ users' = [users EXCEPT ![u] = req[r].row]
        /\ Release(r) /\ Goto(r, Idle)
        /\ tokens' = tokens \cup {t \in {[user |-> u, iat |-> req[r].iat]} : answered("signed in")}
        /\ audit' = audit \cup {e \in {[type |-> "admin.user_created", user |-> u, at |-> req[r].now]} :
                                   answered("created")}
        /\ wrong' = [wrong EXCEPT ![u] = CASE answered("wrong password") -> @ + 1
                                           [] answered("signed in") -> 0
                                           [] OTHER -> @]
        /\ dead' = dead \cup req[r].before
                        \cup {t \in tokens : t.user = u /\ answered("deactivated")}
        /\ moved_back' = moved_back \cup
              {v \in {u} : users[v] # Null /\ req[r].row.sessions_invalid_before
                                                < users[v].sessions_invalid_before}
        /\ UNCHANGED <<clock, refused>>

Step(r) ==
    \/ \E u \in Usernames, p \in Passwords : Login(r, u, p)
    \/ Select(r) \/ UnknownUser(r) \/ Turned(r) \/ WrongPassword(r) \/ RightPassword(r)
    \/ \E t \in tokens, route \in {"logout", "wrong role"} : Enter(r, t, route)
    \/ Logout(r) \/ Denied(r)
    \/ \E u \in Usernames, command \in {"seed", "set-password", "deactivate"} :
          Command(r, u, command)
    \/ CreateUser(r) \/ SetPassword(r) \/ Deactivate(r)
    \/ Commit(r) \/ Fail(r)

Next == Tick \/ \E r \in Requests : Step(r)

Spec == Init /\ [][Next]_vars

---------------------------------------------------------------------------
(* infra/auth.login, the lockout: LOGIN_MAX_FAILS wrong passwords, then one *)
(* more for each LOCKOUT that has passed, however many requests try at once. *)
(* The counter outlives the lock, so it is one more and not a new series.   *)
GuessesBounded ==
    \A u \in Usernames : wrong[u] <= LOGIN_MAX_FAILS + clock \div LOCKOUT

(* web/deps.require_role and auth.create_user: what was answered is on      *)
(* record, a 403 by its authz.denied and an account by one                  *)
(* admin.user_created, also when two commands seed the same name.           *)
OnRecord ==
    /\ \A u \in refused : \E e \in audit : e.type = "authz.denied" /\ e.user = u
    /\ \A u \in Usernames : users[u] # Null =>
          \E e \in audit : /\ e.type = "admin.user_created" /\ e.user = u
                           /\ \A f \in audit : f.type = e.type /\ f.user = u => f = e

(* A request enters on a token handed out before a sign-out of its user,    *)
(* one of `among`, that has been answered.                                  *)
DeadEnter(r, among) == /\ req[r].pc = "idle" /\ req'[r].pc \in {"logout", "wrong role"}
                       /\ req'[r].token \in dead /\ req'[r].token.user \in among

(* docs/plan/tasks/P4/P4-T01.prompt.md:11, "logout kills every token issued *)
(* before it": once a sign-out has been answered, no request enters on a    *)
(* token that was handed out before the sign-out began, if the sign-outs    *)
(* of its user committed in the order they began.                           *)
SignedOutUnlessMovedBack == [][\A r \in Requests : ~ DeadEnter(r, Usernames \ moved_back)]_vars
=============================================================================
