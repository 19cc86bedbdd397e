------------------------------ MODULE MCAccess ------------------------------
(***************************************************************************)
(* A seeded school with a permanent license and one yet to be created; a   *)
(* superadministrator, an administrator and a student.  Each behaviour     *)
(* plays one scene, which some of the requests make up: who is at work in  *)
(* the office or on the phones.                                            *)
(***************************************************************************)
EXTENDS Access, TLC

CONSTANTS root, admin, student, s1, s2, month, forever

VARIABLE scene

MCRole == [a \in Accounts |-> CASE a = root -> "SUPERADMIN" [] a = admin -> "ADMIN"
                                 [] a = student -> "STUDENT"]
MCSchoolOf == [a \in Accounts |-> s1]
MCDuration == [t \in Types |-> IF t = month THEN 1 ELSE 9]

\* In the office each has one session, which lasts; they log in one by one.
Office(who) ==
  /\ \A c \in Clerks : work[c] = Null
  /\ \/ /\ \A c \in Clients : login[c] = Null
        /\ \E c \in Clients, a \in who : ActiveSessions(a) = {} /\ LoginBegin(c, a, TRUE, 0)
     \/ \E c \in Clients : LoginLocks(c)
     \/ \E c \in Clients, i \in Sessions : LoginCommits(c, i)
  /\ UNCHANGED licensingVars

Symmetry == Permutations(Clients) \cup Permutations(Clerks)

Staffed == ActiveSessions(root) # {} /\ ActiveSessions(admin) # {}

Revocations ==
  (\E i, o \in Sessions : RevokeSession(i, o)) /\ UNCHANGED licensingVars

MCInit == Init /\ scene \in {"licenses", "renewals", "schools", "phones", "lockout", "members"}

\* Who logs in.
Only(who) == \A c \in Clients : login'[c] # Null => login'[c].account \in who

MCNext ==
  /\ \/ /\ scene = "licenses" /\ (Office({root, admin}) \/ (Staffed /\ LicenseRequests))
        /\ renewal' = renewal /\ today' = today
     \/ /\ scene = "renewals" /\ (Office({root, admin}) \/ (Staffed /\ LicenseRequests))
        /\ license' = license /\ school' = school
     \/ scene = "schools" /\ (Office({root, admin}) \/ SchoolRequests)
     \/ /\ scene = "phones" /\ (Logons \/ SessionRequests)
        /\ attempts' = attempts /\ Only({student})
     \/ /\ scene = "lockout" /\ Logons
        /\ Only({student})
     \/ scene = "members" /\ (Office(Accounts) \/ MemberRequests \/ Revocations)
  /\ UNCHANGED scene

MCSpec == MCInit /\ [][MCNext]_<<accessVars, scene>>
=============================================================================
