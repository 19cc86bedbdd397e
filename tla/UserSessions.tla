---------------------------- MODULE UserSessions ----------------------------
(***************************************************************************)
(* Accounts, logins and the user_sessions they create, over the schools    *)
(* and licenses of module Licensing, which decide who is let in.           *)
(*                                                                         *)
(* A login reads the account and the licenses without a lock.  Storing     *)
(* last_login then holds the row of the account until the login commits,   *)
(* and with it the sessions it has found; a refresh holds the row of its   *)
(* session.  A token is known by the generation of its session's jtis.     *)
(* One address is modelled, so that login_attempts are kept by account.    *)
(* password is history: the password that opened the session.              *)
(***************************************************************************)
EXTENDS Licensing

CONSTANTS
  Accounts, Role, SchoolOf,  \* auth_accounts: role and school_id of each
  Sessions,                  \* ids of sessions
  Clients,                   \* logins that are served at the same time
  Threshold,                 \* failed logins that lock the pair out
  Ready,                     \* accounts that need not change their password
  MaxGen, MaxPassword        \* bounds: refreshes, changes of a password

Roles == {"SUPERADMIN", "ADMIN", "TEACHER", "STUDENT"}

ASSUME SessionsAssumption ==
  /\ Role \in [Accounts -> Roles]
  /\ SchoolOf \in [Accounts -> Schools \cup {Null}] /\ Null \notin Schools
  /\ Threshold \in Nat \ {0, 1} /\ MaxGen \in Nat /\ MaxPassword \in Nat

VARIABLES
  account,   \* [active, must, password]: must stands for must_change_password
  session,   \* user_sessions, or Null
  attempts,  \* login_attempts: the rows of each account's username
  login,     \* logins in flight: what each has read
  change,    \* changes of a password in flight: the sessions each has found
  busy       \* students with a row in exam_checkins

sessionVars == <<account, session, attempts, login, change, busy>>

AccountRows == [active : BOOLEAN, must : BOOLEAN, password : Nat]
SessionRows == [account : Accounts, gen : Nat, password : Nat,
                revoked : BOOLEAN, expired : BOOLEAN, idle : BOOLEAN]
AttemptRows == [count : Nat, blocked : {"no", "until", "past"}]
Logins == [account : Accounts, right : BOOLEAN, row : Nat, locked : BOOLEAN,
           loaded : AttemptRows \cup {Null}, seen : SUBSET Sessions, password : Nat]

\* Null is none of these rows either.
ASSUME SessionRowsAssumption ==
  Null \notin SessionRows \cup AttemptRows \cup Logins

SessionsTypeOK ==
  /\ account \in [Accounts -> AccountRows]
  /\ session \in [Sessions -> SessionRows \cup {Null}]
  /\ attempts \in [Accounts -> Seq(AttemptRows)]
  /\ login \in [Clients -> Logins \cup {Null}]
  /\ change \in [Accounts -> (SUBSET Sessions) \cup {Null}]
  /\ busy \in SUBSET Accounts

SessionsInit ==
  /\ account = [a \in Accounts |-> [active |-> TRUE, password |-> 0,
                                    must |-> a \notin Ready]]
  /\ session = [i \in Sessions |-> Null]
  /\ attempts = [a \in Accounts |-> <<>>]
  /\ login = [c \in Clients |-> Null]
  /\ change = [a \in Accounts |-> Null]
  /\ busy = {}

-----------------------------------------------------------------------------
Live(i) == session[i] # Null /\ ~session[i].revoked /\ ~session[i].expired

\* An account comes into being with its school.
Created(a) == SchoolOf[a] # Null => school[SchoolOf[a]] # Null

\* get_active_sessions_by_user
ActiveSessions(a) == {i \in Sessions : Live(i) /\ session[i].account = a}

Revoke(ids) == [i \in Sessions |-> IF i \in ids THEN [session[i] EXCEPT !.revoked = TRUE]
                                                ELSE session[i]]

-----------------------------------------------------------------------------
(* Login.                                                                  *)

\* _authenticate, after the password: what refuses the account.
Refused(a) ==
  \/ ~account[a].active
  \/ /\ Role[a] \in {"ADMIN", "TEACHER"} /\ SchoolOf[a] # Null
     /\ SubscriptionStatus(SchoolOf[a]) = "SUSPENDED"

\* A student with a session is let in elsewhere only when no exam holds him.
BoundByExam(a) == Role[a] = "STUDENT" /\ ActiveSessions(a) # {} /\ a \in busy

\* A login that finds a lock-out that is over writes that at once, and holds
\* the row until it ends.
RowFree(c, a, row) ==
  \A o \in Clients \ {c} :
    login[o] # Null => ~(/\ login[o].account = a /\ login[o].row = row /\ row # 0
                         /\ login[o].loaded.blocked = "past")

\* What is refused here leaves no trace, and is not modelled as a step.
LoginBegin(c, a, right, row) ==
  /\ login[c] = Null /\ Created(a)
  /\ row \in 1..Len(attempts[a]) \/ (row = 0 /\ attempts[a] = <<>>)
  /\ row # 0 => attempts[a][row].blocked # "until"
  /\ row # 0 /\ attempts[a][row].blocked = "past" => RowFree(c, a, row)
  /\ right => ~Refused(a)
  /\ login' = [login EXCEPT ![c] =
       [account |-> a, right |-> right, row |-> row, locked |-> FALSE,
        loaded |-> IF row = 0 THEN Null ELSE attempts[a][row],
        seen |-> {}, password |-> account[a].password]]
  /\ UNCHANGED <<account, session, attempts, change, busy>>

\* No login holds the row of the account.
AccountFree(a) ==
  \A c \in Clients : login[c] # Null /\ login[c].account = a => ~login[c].locked

\* Mutant of LoginLocks: last_login is not stored before the sessions are read.
LoginReads(c) ==
  LET a == login[c].account
  IN /\ login[c] # Null /\ login[c].right /\ ~login[c].locked
     /\ login' = [login EXCEPT ![c] =
          IF BoundByExam(a) THEN Null
          ELSE [@ EXCEPT !.locked = TRUE, !.seen = ActiveSessions(a)]]
     /\ UNCHANGED <<account, session, attempts, change, busy>>

\* update_last_login, then the sessions of the account are looked for.
LoginLocks(c) ==
  LET a == login[c].account
  IN /\ login[c] # Null /\ login[c].right /\ ~login[c].locked
     /\ AccountFree(a)
     /\ login' = [login EXCEPT ![c] =
          IF BoundByExam(a) THEN Null
          ELSE [@ EXCEPT !.locked = TRUE, !.seen = ActiveSessions(a)]]
     /\ UNCHANGED <<account, session, attempts, change, busy>>

\* The request dies, or the database picks it as the victim of a deadlock.
LoginDies(c) ==
  /\ login[c] # Null
  /\ login' = [login EXCEPT ![c] = Null]
  /\ UNCHANGED <<account, session, attempts, change, busy>>

\* Mutant of Flushed: the whole row is written.
FlushedWhole(row, loaded, new) == new

\* A flush writes the columns that differ from what was loaded.
Flushed(row, loaded, new) ==
  [count   |-> IF new.count = loaded.count THEN row.count ELSE new.count,
   blocked |-> IF new.blocked = loaded.blocked THEN row.blocked ELSE new.blocked]

SaveAttempt(c, new) ==
  LET a == login[c].account
      r == login[c].row
  IN /\ RowFree(c, a, r)
     /\ attempts' = [attempts EXCEPT ![a][r] = Flushed(@, login[c].loaded, new)]

LoginFails(c) ==
  LET l == login[c]
      n == (IF l.loaded.blocked = "past" THEN 0 ELSE l.loaded.count) + 1
  IN /\ l # Null /\ ~l.right
     /\ IF l.row = 0
          THEN attempts' = [attempts EXCEPT ![l.account] =
                              Append(@, [count |-> 1, blocked |-> "no"])]
          ELSE SaveAttempt(c, [count |-> n,
                 blocked |-> IF n >= Threshold THEN "until"
                             ELSE IF l.loaded.blocked = "past" THEN "no"
                             ELSE l.loaded.blocked])
     /\ login' = [login EXCEPT ![c] = Null]
     /\ UNCHANGED <<account, session, change, busy>>

\* RELOGIN_AUTO_OVERWRITE: the sessions of a student that the login has found.
Replaced(c) == IF Role[login[c].account] = "STUDENT" THEN login[c].seen ELSE {}

LoginCommits(c, i) ==
  LET l == login[c]
  IN /\ l # Null /\ l.right /\ l.locked
     /\ session[i] = Null /\ i = CHOOSE o \in Sessions : session[o] = Null
     /\ IF l.row = 0 THEN UNCHANGED attempts
                     ELSE SaveAttempt(c, [count |-> 0, blocked |-> "no"])
     /\ session' = [Revoke(Replaced(c)) EXCEPT ![i] =
          [account |-> l.account, gen |-> 0, password |-> l.password,
           revoked |-> FALSE, expired |-> FALSE, idle |-> FALSE]]
     /\ login' = [login EXCEPT ![c] = Null]
     /\ UNCHANGED <<account, change, busy>>

-----------------------------------------------------------------------------
(* Refresh, under the lock of the session.  A token of an older generation *)
(* is a replay and ends the session; so does a disabled account.           *)

Refresh(i, g) ==
  /\ Live(i) /\ g \in 0..session[i].gen
  /\ IF account[session[i].account].active /\ g = session[i].gen
       THEN /\ g < MaxGen
            /\ session' = [session EXCEPT ![i].gen = g + 1, ![i].idle = FALSE]
       ELSE session' = Revoke({i})
  /\ UNCHANGED <<account, attempts, login, change, busy>>

-----------------------------------------------------------------------------
(* get_current_user: who may make a request, and of which kind.            *)

\* The superadministrator is kept out by no school.
HasSchool(a) ==
  SchoolOf[a] # Null /\ Role[a] # "SUPERADMIN" /\ school[SchoolOf[a]] # Null

\* Mutant of SchoolAdmits: a suspended school is only kept from writing.
ReadOnlyWhenSuspended(a, kind) ==
  ~HasSchool(a) \/ kind # "write" \/ school[SchoolOf[a]].status = "ACTIVE"

\* A suspended school is shut; one that waits for its first license can read,
\* and use the paths of licenses and of authentication.
SchoolAdmits(a, kind) ==
  HasSchool(a) =>
    /\ school[SchoolOf[a]].status # "SUSPENDED"
    /\ school[SchoolOf[a]].status = "PENDING_ACTIVATION" => kind # "write"

\* The access token of generation g is the current one of a session in use.
\* must_change_password leaves logout, /me and the change itself.
Admitted(i, g, kind) ==
  /\ Live(i) /\ g = session[i].gen /\ ~session[i].idle
  /\ account[session[i].account].active
  /\ account[session[i].account].must => kind = "exempt"
  /\ SchoolAdmits(session[i].account, kind)

\* A request finds its session idle for too long, and revokes it.
IdleTimeout(i) ==
  /\ Live(i) /\ session[i].idle
  /\ session' = Revoke({i})
  /\ UNCHANGED <<account, attempts, login, change, busy>>

-----------------------------------------------------------------------------
(* Requests on sessions and accounts.                                      *)

Logout(i) ==
  /\ Admitted(i, session[i].gen, "exempt")
  /\ session' = Revoke({i})
  /\ UNCHANGED <<account, attempts, login, change, busy>>

\* One's own session, or any session for an administrator.
RevokeSession(i, o) ==
  /\ Admitted(i, session[i].gen, "auth") /\ session[o] # Null
  /\ \/ session[o].account = session[i].account
     \/ Role[session[i].account] \in {"SUPERADMIN", "ADMIN"}
  /\ session' = Revoke({o})
  /\ UNCHANGED <<account, attempts, login, change, busy>>

LogoutAll(i) ==
  /\ Admitted(i, session[i].gen, "auth")
  /\ session' = Revoke(ActiveSessions(session[i].account))
  /\ UNCHANGED <<account, attempts, login, change, busy>>

\* The sessions are found before the account is written (no autoflush).
ChangeBegin(i) ==
  LET a == session[i].account
  IN /\ Admitted(i, session[i].gen, "exempt")
     /\ change[a] = Null /\ account[a].password < MaxPassword
     /\ change' = [change EXCEPT ![a] = ActiveSessions(a)]
     /\ UNCHANGED <<account, session, attempts, login, busy>>

ChangeCommit(a) ==
  /\ change[a] # Null /\ AccountFree(a) /\ account[a].password < MaxPassword
  /\ account' = [account EXCEPT ![a].password = @ + 1, ![a].must = FALSE]
  /\ session' = Revoke(change[a])
  /\ change' = [change EXCEPT ![a] = Null]
  /\ UNCHANGED <<attempts, login, busy>>

\* Reset to the default password; the sessions stay.
ResetPassword(a) ==
  /\ AccountFree(a) /\ account[a].password < MaxPassword
  /\ account' = [account EXCEPT ![a].password = @ + 1, ![a].must = TRUE]
  /\ UNCHANGED <<session, attempts, login, change, busy>>

ToggleActive(a) ==
  /\ AccountFree(a)
  /\ account' = [account EXCEPT ![a].active = ~@]
  /\ UNCHANGED <<session, attempts, login, change, busy>>

-----------------------------------------------------------------------------
(* The exam engine: a check-in binds the student after the exam too, since *)
(* any row of exam_checkins counts; a device reset revokes his sessions,   *)
(* and his administrator's reset clears his check-ins with them.           *)

ExamBinds(a) ==
  /\ Role[a] = "STUDENT" /\ a \notin busy
  /\ \E i \in ActiveSessions(a) : Admitted(i, session[i].gen, "write")
  /\ busy' = busy \cup {a}
  /\ UNCHANGED <<account, session, attempts, login, change>>

DeviceReset(a) ==
  /\ Role[a] = "STUDENT"
  /\ session' = Revoke(ActiveSessions(a))
  /\ UNCHANGED <<account, attempts, login, change, busy>>

ClearSessions(a) ==
  /\ Role[a] = "STUDENT"
  /\ session' = Revoke(ActiveSessions(a))
  /\ busy' = busy \ {a}
  /\ UNCHANGED <<account, attempts, login, change>>

-----------------------------------------------------------------------------
(* Time.                                                                   *)

GoIdle(i) ==
  /\ Live(i) /\ ~session[i].idle
  /\ session' = [session EXCEPT ![i].idle = TRUE]
  /\ UNCHANGED <<account, attempts, login, change, busy>>

Expire(i) ==
  /\ Live(i)
  /\ session' = [session EXCEPT ![i].expired = TRUE]
  /\ UNCHANGED <<account, attempts, login, change, busy>>

LockoutEnds(a, r) ==
  /\ r \in 1..Len(attempts[a]) /\ attempts[a][r].blocked = "until"
  /\ attempts' = [attempts EXCEPT ![a][r].blocked = "past"]
  /\ UNCHANGED <<account, session, login, change, busy>>
=============================================================================
