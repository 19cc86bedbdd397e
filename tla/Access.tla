------------------------------- MODULE Access -------------------------------
(***************************************************************************)
(* The endpoints under /auth, /licenses and /schools: the requests of      *)
(* Licensing and UserSessions, each with the session that makes it.  The   *)
(* schools' status decides whose requests are admitted, and the requests   *)
(* of superadministrators and administrators decide the schools' status.   *)
(***************************************************************************)
EXTENDS UserSessions

accessVars == <<licensingVars, sessionVars>>

TypeOK == LicensingTypeOK /\ SessionsTypeOK

Init == LicensingInit /\ SessionsInit

-----------------------------------------------------------------------------
\* require_role: the request of an admitted session of one of these roles.
By(roles, kind) ==
  \E i \in Sessions : /\ Live(i) /\ Role[session[i].account] \in roles
                      /\ Admitted(i, session[i].gen, kind)

\* The administrator of school s.
ByAdminOf(s, kind) ==
  \E i \in Sessions : /\ Live(i) /\ Role[session[i].account] = "ADMIN"
                      /\ SchoolOf[session[i].account] = s
                      /\ Admitted(i, session[i].gen, kind)

PostKeys(k, t, s, days) ==
  By({"SUPERADMIN"}, "license") /\ GenerateKey(k, t, s, days) /\ UNCHANGED sessionVars

CancelKeyEndpoint(c, k) ==
  By({"SUPERADMIN"}, "license") /\ CancelBegin(c, k) /\ UNCHANGED sessionVars

ActivateEndpoint(c, k, s) ==
  ByAdminOf(s, "license") /\ ActivateBegin(c, k, s) /\ UNCHANGED sessionVars

PostRenewals(r, s, t) ==
  ByAdminOf(s, "license") /\ RequestRenewal(r, s, t) /\ UNCHANGED sessionVars

ProcessEndpoint(c, r) ==
  By({"SUPERADMIN"}, "license") /\ ProcessBegin(c, r) /\ UNCHANGED sessionVars

PostSchools(s, n, k, t) ==
  By({"SUPERADMIN"}, "write") /\ CreateSchool(s, n, k, t) /\ UNCHANGED sessionVars

PutSchool(s, n, active) ==
  By({"SUPERADMIN"}, "write") /\ UpdateSchool(s, n, active) /\ UNCHANGED sessionVars

\* An administrator may change the school's profile, not what is locked.
PatchSchool(s, n, active) ==
  /\ \/ By({"SUPERADMIN"}, "write")
     \/ /\ ByAdminOf(s, "write") /\ school[s] # Null
        /\ n = school[s].npsn /\ active = school[s].active
  /\ UpdateSchool(s, n, active)
  /\ UNCHANGED sessionVars

DeleteEndpoint(s) ==
  By({"SUPERADMIN"}, "write") /\ DeleteSchool(s) /\ UNCHANGED sessionVars

ToggleEndpoint(c, s) ==
  By({"SUPERADMIN"}, "write") /\ ToggleBegin(c, s) /\ UNCHANGED sessionVars

\* POST /schools/{id}/reset-admin-password
ResetAdminPassword(s) ==
  /\ By({"SUPERADMIN"}, "write") /\ Exists(s)
  /\ \E a \in Accounts : Role[a] = "ADMIN" /\ SchoolOf[a] = s /\ ResetPassword(a)
  /\ UNCHANGED licensingVars

\* The password reset and the switch of students and teachers, by the
\* administrator of their school.
ResetMemberPassword(a) ==
  /\ Role[a] \in {"STUDENT", "TEACHER"} /\ ByAdminOf(SchoolOf[a], "write")
  /\ ResetPassword(a)
  /\ UNCHANGED licensingVars

ToggleMember(a) ==
  /\ Role[a] \in {"STUDENT", "TEACHER"} /\ ByAdminOf(SchoolOf[a], "write")
  /\ ToggleActive(a)
  /\ UNCHANGED licensingVars

ClearEndpoint(a) ==
  ByAdminOf(SchoolOf[a], "write") /\ ClearSessions(a) /\ UNCHANGED licensingVars

-----------------------------------------------------------------------------
Commit(c) ==
  /\ \/ CancelCommit(c)
     \/ ActivateCommit(c)
     \/ \E k \in Keys, approved \in BOOLEAN : ProcessCommit(c, k, approved)
     \/ ToggleCommit(c)
  /\ UNCHANGED sessionVars

LicenseRequests ==
  \/ \E k \in Keys, t \in Types, s \in Schools, d \in Validity : PostKeys(k, t, s, d)
  \/ \E c \in Clerks, k \in Keys : CancelKeyEndpoint(c, k)
  \/ \E c \in Clerks, k \in Keys, s \in Schools : ActivateEndpoint(c, k, s)
  \/ \E r \in Renewals, s \in Schools, t \in Types : PostRenewals(r, s, t)
  \/ \E c \in Clerks, r \in Renewals : ProcessEndpoint(c, r)
  \/ \E c \in Clerks, s \in Schools : ToggleEndpoint(c, s)
  \/ \E c \in Clerks : Commit(c)
  \/ Midnight /\ UNCHANGED sessionVars

SchoolRequests ==
  \/ \E s \in Schools, n \in Npsn, k \in Keys, t \in Types : PostSchools(s, n, k, t)
  \/ \E s \in Schools, n \in Npsn, b \in BOOLEAN : PutSchool(s, n, b)
  \/ \E s \in Schools, n \in Npsn, b \in BOOLEAN : PatchSchool(s, n, b)
  \/ \E s \in Schools : DeleteEndpoint(s)

Logons ==
  /\ \/ \E c \in Clients, a \in Accounts, right \in BOOLEAN :
          \E row \in 0..Len(attempts[a]) : LoginBegin(c, a, right, row)
     \/ \E c \in Clients : LoginFails(c) \/ LoginLocks(c) \/ LoginDies(c)
     \/ \E c \in Clients, i \in Sessions : LoginCommits(c, i)
     \/ \E a \in Accounts : \E r \in 1..Len(attempts[a]) : LockoutEnds(a, r)
  /\ UNCHANGED licensingVars

SessionRequests ==
  /\ \/ \E i \in Sessions, g \in 0..MaxGen : Refresh(i, g)
     \/ \E i \in Sessions : IdleTimeout(i) \/ Logout(i) \/ LogoutAll(i) \/ ChangeBegin(i)
     \/ \E a \in Accounts : ChangeCommit(a)
     \/ \E i, o \in Sessions : RevokeSession(i, o)
     \/ \E i \in Sessions : GoIdle(i) \/ Expire(i)
     \/ \E a \in Accounts : ExamBinds(a) \/ DeviceReset(a)
  /\ UNCHANGED licensingVars

MemberRequests ==
  \/ \E s \in Schools : ResetAdminPassword(s)
  \/ \E a \in Accounts : ResetMemberPassword(a) \/ ToggleMember(a) \/ ClearEndpoint(a)

Next == LicenseRequests \/ SchoolRequests \/ Logons \/ SessionRequests \/ MemberRequests

Spec == Init /\ [][Next]_accessVars

-----------------------------------------------------------------------------
(* Properties.                                                             *)

\* However logins interleave, a student has one live session: storing
\* last_login makes the logins of an account take turns, although nothing in
\* auth_service.py says that it is there for this.
OneSession ==
  \A i, j \in Sessions :
    /\ Live(i) /\ Live(j) /\ session[i].account = session[j].account
    /\ Role[session[i].account] = "STUDENT"
    => i = j

\* A suspended school is let go by a superadministrator's toggle, or by an
\* activation that was admitted before the suspension.
SuspensionHolds ==
  [][\A s \in Schools :
       school[s] # Null /\ school[s].status = "SUSPENDED" /\ school'[s].status # "SUSPENDED" =>
         \E c \in Clerks :
           /\ work[c] # Null /\ work'[c] = Null /\ work[c].school = s
           /\ \/ work[c].op = "toggle"
              \/ work[c].op = "activate" /\ work[c].was # "SUSPENDED"]_accessVars

\* A lock-out ends with its time: no login that had read the counter before,
\* right or wrong, takes it back.
LockoutStays ==
  [][\A a \in Accounts : \A r \in DOMAIN attempts[a] :
       attempts[a][r].blocked = "until" => attempts'[a][r].blocked # "no"]_accessVars
=============================================================================
