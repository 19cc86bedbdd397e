----------------------------- MODULE Licensing -----------------------------
(***************************************************************************)
(* Schools, their activation keys, licenses and renewal requests.          *)
(*                                                                         *)
(* No service locks a row: a request reads, decides, and writes what it    *)
(* has decided over whatever the row holds when it commits.  work holds    *)
(* what a request has read; its commit is a step of its own.  Days are     *)
(* counted from the first one; npsn stands for the identifiers of a school *)
(* (npsn, code and domain) that must be unique.                            *)
(***************************************************************************)
EXTENDS Integers, Sequences

CONSTANTS
  Schools, Npsn,      \* rows of the table, values of a unique identifier
  Keys,               \* activation keys that can be generated
  Types, Permanent,   \* license types and those that never end
  Duration,           \* duration_days of each type
  Validity,           \* validity_days a key can be given
  DefaultDays,        \* validity_days of a key for a renewal
  CancelDays,         \* how long a key can be cancelled
  Renewals,           \* renewal requests that can be filed
  Seeded, Licensed,   \* schools of seed.py, and those it gives a license
  Clerks,             \* requests that are served at the same time
  Horizon,            \* bound: the last day of the model
  Null

ASSUME LicensingAssumption ==
  /\ Permanent \subseteq Types /\ Licensed \subseteq Seeded /\ Seeded \subseteq Schools
  /\ (\E n \in [Seeded -> Npsn] : \A s, o \in Seeded : s # o => n[s] # n[o])
  /\ (Licensed # {} => Permanent # {})
  /\ Duration \in [Types -> Nat \ {0}] /\ Validity \subseteq Nat \ {0}
  /\ DefaultDays \in Nat /\ CancelDays \in Nat /\ Horizon \in Nat

VARIABLES
  today,     \* the clock
  school,    \* schools: [npsn, status, active, deleted], or Null
  key,       \* activation_keys: [type, school, born, until, status], or Null
  license,   \* school_licenses of each school, in the order of created_at
  renewal,   \* renewal_requests: [school, type, status], or Null
  work       \* what each request in flight has read

licensingVars == <<today, school, key, license, renewal, work>>

SchoolRows == [npsn : Npsn, status : {"PENDING_ACTIVATION", "ACTIVE", "SUSPENDED"},
               active : BOOLEAN, deleted : BOOLEAN]
KeyRows == [type : Types, school : Schools, born : Nat, until : Nat,
            status : {"GENERATED", "USED", "CANCELLED"}]
Statuses == {"PENDING_ACTIVATION", "ACTIVE", "PENDING", "SUPERSEDED", "SUSPENDED"}
LicenseRows == [key : Keys \cup {Null}, type : Types, start : Nat, end : Nat, status : Statuses]
RenewalRows == [school : Schools, type : Types,
                status : {"REQUESTED", "COMPLETED", "REJECTED"}]
Works == [op : {"activate", "cancel", "toggle", "process"}, school : Schools,
          key : Keys \cup {Null}, renewal : Renewals \cup {Null},
          found : Nat, was : Statuses \cup {Null}]

\* Null is none of the rows.
ASSUME RowAssumption ==
  /\ Null \notin Keys \cup Renewals \cup Statuses
  /\ Null \notin SchoolRows \cup KeyRows \cup RenewalRows \cup Works

LicensingTypeOK ==
  /\ today \in Nat
  /\ school \in [Schools -> SchoolRows \cup {Null}]
  /\ key \in [Keys -> KeyRows \cup {Null}]
  /\ license \in [Schools -> Seq(LicenseRows)]
  /\ renewal \in [Renewals -> RenewalRows \cup {Null}]
  /\ work \in [Clerks -> Works \cup {Null}]

\* seed.py: schools in use, some with a permanent license that no key opened.
SeedNpsn == CHOOSE n \in [Seeded -> Npsn] : \A s, o \in Seeded : s # o => n[s] # n[o]

SeedLicense ==
  LET t == CHOOSE t \in Permanent : TRUE
  IN [key |-> Null, type |-> t, start |-> 0, end |-> Duration[t], status |-> "ACTIVE"]

LicensingInit ==
  /\ today = 0
  /\ school = [s \in Schools |-> IF s \notin Seeded THEN Null ELSE
                 [npsn |-> SeedNpsn[s], status |-> "ACTIVE", active |-> TRUE,
                  deleted |-> FALSE]]
  /\ key = [k \in Keys |-> Null]
  /\ license = [s \in Schools |-> IF s \in Licensed THEN <<SeedLicense>> ELSE <<>>]
  /\ renewal = [r \in Renewals |-> Null]
  /\ work = [c \in Clerks |-> Null]

-----------------------------------------------------------------------------
(* Queries.                                                                *)

Exists(s) == school[s] # Null /\ ~school[s].deleted

ActiveIndices(s) == {i \in 1..Len(license[s]) : license[s][i].status = "ACTIVE"}

\* get_active_license: the one that ends last; 0 when there is none.
ActiveLicense(s) ==
  IF ActiveIndices(s) = {} THEN 0
  ELSE CHOOSE i \in ActiveIndices(s) :
         \A j \in ActiveIndices(s) : license[s][j].end <= license[s][i].end

\* get_latest_license: the newest one; 0 when there is none.
LatestLicense(s) == Len(license[s])

\* The school's subscription is shown, and logins are refused, by the latest.
SubscriptionStatus(s) ==
  IF license[s] = <<>> THEN "NO_LICENSE" ELSE license[s][LatestLicense(s)].status

-----------------------------------------------------------------------------
(* Activation keys.                                                        *)

\* A key is drawn at random until it is new.
Fresh(k) == k = CHOOSE o \in Keys : key[o] = Null

NewKey(k, t, s, days) ==
  [key EXCEPT ![k] = [type |-> t, school |-> s, born |-> today,
                      until |-> today + days, status |-> "GENERATED"]]

GenerateKey(k, t, s, days) ==
  /\ key[k] = Null /\ Fresh(k) /\ school[s] # Null
  /\ key' = NewKey(k, t, s, days)
  /\ UNCHANGED <<today, school, license, renewal, work>>

\* A request reads a license (by its index) and the status it decides on.
Begin(c, op, s, k, r, found, was) ==
  /\ work[c] = Null
  /\ work' = [work EXCEPT ![c] = [op |-> op, school |-> s, key |-> k, renewal |-> r,
                                  found |-> found, was |-> was]]
  /\ UNCHANGED <<today, school, key, license, renewal>>

Done(c) == work' = [work EXCEPT ![c] = Null]

CancelBegin(c, k) ==
  /\ key[k] # Null /\ key[k].status = "GENERATED"
  /\ today - key[k].born <= CancelDays
  /\ Begin(c, "cancel", key[k].school, k, Null, 0, Null)

CancelCommit(c) ==
  /\ work[c] # Null /\ work[c].op = "cancel"
  /\ key' = [key EXCEPT ![work[c].key].status = "CANCELLED"]
  /\ Done(c)
  /\ UNCHANGED <<today, school, license, renewal>>

-----------------------------------------------------------------------------
(* Activation.  A key found expired is marked EXPIRED in a transaction     *)
(* that the refusal then rolls back: the mark is never stored.             *)

ActivateBegin(c, k, s) ==
  /\ key[k] # Null /\ key[k].status = "GENERATED"
  /\ key[k].until >= today
  /\ key[k].school = s /\ school[s] # Null
  /\ Begin(c, "activate", s, k, Null, ActiveLicense(s), school[s].status)

\* What the new license is: at once, or after the active one that was found.
NewLicense(k, s, found) ==
  LET t == key[k].type
      later == found # 0 /\ t \notin Permanent
      from == IF later THEN license[s][found].end ELSE today
  IN [key |-> k, type |-> t, start |-> from, end |-> from + Duration[t],
      status |-> CASE ~later -> "ACTIVE"
                   [] later /\ license[s][found].type \in Permanent -> "SUPERSEDED"
                   [] OTHER -> "PENDING"]

\* A permanent license supersedes the active one that was found.
Supersede(k, s, found) ==
  IF found # 0 /\ key[k].type \in Permanent
    THEN [license[s] EXCEPT ![found].status = "SUPERSEDED"]
    ELSE license[s]

Activate(k, s, found) ==
  LET new == NewLicense(k, s, found)
  IN /\ license' = [license EXCEPT ![s] = Append(Supersede(k, s, found), new)]
     /\ school' = IF new.status # "ACTIVE" THEN school
                  ELSE [school EXCEPT ![s].status = "ACTIVE",
                          ![s].active = @ \/ key[k].type \in Permanent]
     /\ key' = [key EXCEPT ![k].status = "USED"]

\* Mutant of UniqueKey: no unique index on activation_key_id.
NoUniqueKey(k) == TRUE

\* school_licenses.activation_key_id is unique.
UniqueKey(k) == \A s \in Schools : \A i \in DOMAIN license[s] : license[s][i].key # k

ActivateCommit(c) ==
  /\ work[c] # Null /\ work[c].op = "activate"
  /\ IF UniqueKey(work[c].key)
       THEN Activate(work[c].key, work[c].school, work[c].found)
       ELSE UNCHANGED <<license, school, key>>
  /\ Done(c)
  /\ UNCHANGED <<today, renewal>>

-----------------------------------------------------------------------------
(* Renewal requests.                                                       *)

RequestRenewal(r, s, t) ==
  /\ renewal[r] = Null /\ school[s] # Null
  /\ renewal' = [renewal EXCEPT ![r] =
                   [school |-> s, type |-> t, status |-> "REQUESTED"]]
  /\ UNCHANGED <<today, school, key, license, work>>

ProcessBegin(c, r) ==
  /\ renewal[r] # Null /\ renewal[r].status = "REQUESTED"
  /\ Begin(c, "process", renewal[r].school, Null, r, 0, Null)

\* Mutant of ProcessCommit: an approved request never gets beyond APPROVED.
ProcessApproves(c, k, approved) ==
  LET r == work[c].renewal
  IN /\ work[c] # Null /\ work[c].op = "process"
     /\ IF approved
          THEN /\ key[k] = Null /\ Fresh(k)
               /\ key' = NewKey(k, renewal[r].type, renewal[r].school, DefaultDays)
          ELSE UNCHANGED key
     /\ renewal' = [renewal EXCEPT ![r].status = IF approved THEN "APPROVED" ELSE "REJECTED"]
     /\ Done(c)
     /\ UNCHANGED <<today, school, license>>

\* APPROVED generates a key and ends as COMPLETED.
ProcessCommit(c, k, approved) ==
  LET r == work[c].renewal
  IN /\ work[c] # Null /\ work[c].op = "process"
     /\ IF approved
          THEN /\ key[k] = Null /\ Fresh(k)
               /\ key' = NewKey(k, renewal[r].type, renewal[r].school, DefaultDays)
          ELSE UNCHANGED key
     /\ renewal' = [renewal EXCEPT ![r].status =
                      IF approved THEN "COMPLETED" ELSE "REJECTED"]
     /\ Done(c)
     /\ UNCHANGED <<today, school, license>>

-----------------------------------------------------------------------------
(* Schools.                                                                *)

\* The service looks among the schools not deleted; the unique index counts
\* the deleted ones too and rolls the request back.
Taken(n, s) == \E o \in Schools \ {s} : school[o] # Null /\ school[o].npsn = n

\* One transaction: the school, its administrator, and the first license from
\* a key generated and used on the spot.
CreateSchool(s, n, k, t) ==
  /\ school[s] = Null /\ key[k] = Null /\ Fresh(k) /\ ~Taken(n, s)
  /\ school' = [school EXCEPT ![s] =
                  [npsn |-> n, status |-> "ACTIVE", active |-> TRUE, deleted |-> FALSE]]
  /\ key' = [key EXCEPT ![k] = [type |-> t, school |-> s, born |-> today,
                                until |-> today + Duration[t], status |-> "USED"]]
  /\ license' = [license EXCEPT ![s] =
                   Append(@, [key |-> k, type |-> t, start |-> today,
                              end |-> today + Duration[t], status |-> "ACTIVE"])]
  /\ UNCHANGED <<today, renewal, work>>

UpdateSchool(s, n, active) ==
  /\ Exists(s) /\ ~Taken(n, s)
  /\ school' = [school EXCEPT ![s].npsn = n, ![s].active = active]
  /\ UNCHANGED <<today, key, license, renewal, work>>

DeleteSchool(s) ==
  /\ Exists(s)
  /\ school' = [school EXCEPT ![s].active = FALSE, ![s].deleted = TRUE]
  /\ UNCHANGED <<today, key, license, renewal, work>>

ToggleBegin(c, s) ==
  /\ Exists(s) /\ LatestLicense(s) # 0
  /\ Begin(c, "toggle", s, Null, Null, LatestLicense(s),
           license[s][LatestLicense(s)].status)

\* The latest license and the school get the same new status.
ToggleCommit(c) ==
  LET s == work[c].school
      i == work[c].found
      new == IF work[c].was = "ACTIVE" THEN "SUSPENDED" ELSE "ACTIVE"
  IN /\ work[c] # Null /\ work[c].op = "toggle"
     /\ license' = [license EXCEPT ![s][i].status = new]
     /\ school' = [school EXCEPT ![s].status = new]
     /\ Done(c)
     /\ UNCHANGED <<today, key, renewal>>

Midnight ==
  /\ today < Horizon
  /\ today' = today + 1
  /\ UNCHANGED <<school, key, license, renewal, work>>
-----------------------------------------------------------------------------
\* A key opens one license at most, of the school it was made for, and a key
\* that counts as used has opened one, whatever requests read it together.
KeysSpentOnce ==
  \A k \in Keys :
    LET opened == {s \in Schools : \E i \in DOMAIN license[s] : license[s][i].key = k}
    IN /\ \A s \in opened : /\ key[k] # Null /\ key[k].school = s
                            /\ key[k].status \in {"USED", "CANCELLED"}
       /\ \A s \in opened : \A i, j \in DOMAIN license[s] :
            license[s][i].key = k /\ license[s][j].key = k => i = j
       /\ key[k] # Null /\ key[k].status = "USED" => opened # {}
=============================================================================
