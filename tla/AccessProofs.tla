---------------------------- MODULE AccessProofs ----------------------------
(***************************************************************************)
(* What Access guarantees for any number of accounts, sessions, schools,   *)
(* licenses and requests, in whatever order their parts run.               *)
(*                                                                         *)
(* To the invariant of Licensing comes what logins in flight may rely on:  *)
(* the logins of an account take turns from the moment they store          *)
(* last_login; the sessions a login has found are all there are; and a     *)
(* lock-out that a login has found over is over still.                     *)
(***************************************************************************)
EXTENDS Access, TLAPS, WellFoundedInduction, SequenceTheorems

-----------------------------------------------------------------------------
(* What Licensing guarantees whatever requests overtake each other, for    *)
(* any number of schools, keys, licenses, renewals and requests.           *)
(*                                                                         *)
(* A request commits what it has decided on rows it read earlier, so the   *)
(* inductive invariant says what a commit may still rely on: the rows are  *)
(* there, the key is of the same school, the license keeps its place.      *)

\* Every non-empty set of naturals has a least member.
LEMMA Least ==
  ASSUME NEW T \in SUBSET Nat, T # {}
  PROVE  \E x \in T : \A y \in T : x <= y
<1>1. PICK x \in T : \A y \in T : ~(<<y, x>> \in OpToRel(<, Nat))
  BY NatLessThanWellFounded, WFMin
<1>2. \A y \in T : ~(y < x)
  BY <1>1 DEF OpToRel
<1> QED BY <1>2

\* Among some of finitely many naturals one is not below any other of them.
LEMMA HasMaximal ==
  ASSUME NEW n \in Nat, NEW e \in [1..n -> Nat], NEW A \in SUBSET (1..n), A # {}
  PROVE  \E i \in A : \A j \in A : e[j] <= e[i]
<1> DEFINE Top(m) == \E i \in A : i <= m /\ \A j \in A : j <= m => e[j] <= e[i]
           T == {m \in 0..n : (\E i \in A : i <= m) /\ ~Top(m)}
<1>1. SUFFICES ASSUME T # {} PROVE FALSE
  <2>1. \A i \in A : i \in Nat /\ i <= n
    OBVIOUS
  <2>2. \E i \in A : i <= n
    BY <2>1
  <2>3. CASE Top(n)
    BY <2>1, <2>3
  <2>4. CASE ~Top(n)
    <3>1. n \in T
      BY <2>2, <2>4
    <3> QED BY <3>1, <1>1
  <2> QED BY <2>3, <2>4
<1>2. T \in SUBSET Nat
  OBVIOUS
<1>3. PICK m \in T : \A y \in T : m <= y
  BY <1>1, <1>2, Least
<1>4. m \in 0..n /\ (\E i \in A : i <= m) /\ ~Top(m)
  BY <1>3
<1>b. \A i \in A : i \in 1..n /\ e[i] \in Nat
  OBVIOUS
<1>a. m # 0 /\ m - 1 \in 0..n
  BY <1>4
<1>5. m - 1 \notin T
  <2> HIDE DEF T
  <2> QED BY <1>3, <1>2, <1>a
<1>6. CASE ~\E i \in A : i <= m - 1
  <2>1. \A i \in A : i <= m => i = m
    BY <1>6, <1>a
  <2> QED BY <2>1, <1>4
<1>7. CASE Top(m - 1)
  <2>1. PICK i \in A : i <= m - 1 /\ \A j \in A : j <= m - 1 => e[j] <= e[i]
    BY <1>7
  <2>2. m \in Nat /\ m - 1 \in Nat /\ ~Top(m)
    BY <1>4, <1>a
  <2>3. \A j \in A : j <= m => j <= m - 1 \/ j = m
    BY <1>b, <2>2
  <2>4. CASE m \in A /\ e[i] <= e[m]
    <3>1. ASSUME NEW j \in A, j <= m PROVE e[j] <= e[m]
      <4>1. e[j] \in Nat /\ e[i] \in Nat /\ e[m] \in Nat
        BY <1>b, <2>4
      <4>2. CASE j = m
        BY <4>1, <4>2
      <4>3. CASE j <= m - 1
        <5>1. e[j] <= e[i]
          BY <2>1, <4>3
        <5> QED BY ONLY <4>1, <5>1, <2>4
      <4> QED BY <4>2, <4>3, <2>3, <3>1
    <3>2. m <= m
      BY <2>2
    <3> QED BY <3>1, <3>2, <2>4, <2>2
  <2>5. CASE ~(m \in A /\ e[i] <= e[m])
    <3>1. ASSUME NEW j \in A, j <= m PROVE e[j] <= e[i]
      <4>1. CASE j = m
        <5>1. e[m] \in Nat /\ e[i] \in Nat /\ ~(e[i] <= e[m])
          BY <4>1, <2>5, <1>b
        <5> QED BY ONLY <5>1, <4>1
      <4>2. CASE j <= m - 1
        BY <4>2, <2>1
      <4> QED BY <4>1, <4>2, <2>3, <3>1
    <3>2. i <= m
      BY <2>1, <2>2, <1>b
    <3> QED BY <3>1, <3>2, <2>2
  <2> QED BY <2>4, <2>5
<1> QED BY <1>a, <1>5, <1>6, <1>7

-----------------------------------------------------------------------------
(* What a request holds.                                                   *)

Holds(w) ==
  /\ w.op \in {"activate", "cancel"} => w.key # Null /\ key[w.key] # Null
  /\ w.op = "activate" =>
       /\ key[w.key].school = w.school /\ school[w.school] # Null
       /\ w.found \in 0..Len(license[w.school])
  /\ w.op = "toggle" =>
       school[w.school] # Null /\ w.found \in 1..Len(license[w.school])
  /\ w.op = "process" => w.renewal # Null /\ renewal[w.renewal] # Null

WorkInv == \A c \in Clerks : work[c] # Null => Holds(work[c])

LInv == LicensingTypeOK /\ WorkInv /\ KeysSpentOnce

\* The rows stay, keys keep their school, licenses their place.
RowsStay ==
  /\ \A k \in Keys : key[k] # Null => key'[k] # Null /\ key'[k].school = key[k].school
  /\ \A s \in Schools : school[s] # Null => school'[s] # Null
  /\ \A s \in Schools : Len(license[s]) <= Len(license'[s])
  /\ \A r \in Renewals : renewal[r] # Null => renewal'[r] # Null

\* What a commit relies on is not taken back by anybody.
LEMMA HoldsOn ==
  ASSUME LicensingTypeOK, LicensingTypeOK', RowsStay, NEW w \in Works, Holds(w)
  PROVE  Holds(w)'
<1>1. /\ w.key # Null => w.key \in Keys
      /\ w.renewal # Null => w.renewal \in Renewals
      /\ w.school \in Schools /\ w.found \in Nat
  BY DEF Works
<1>2. Len(license[w.school]) \in Nat /\ Len(license'[w.school]) \in Nat
  BY <1>1 DEF LicensingTypeOK
<1>3. Len(license[w.school]) <= Len(license'[w.school])
  BY <1>1 DEF RowsStay
<1>4. CASE w.op \in {"activate", "cancel"}
  BY <1>1, <1>2, <1>3, <1>4 DEF Holds, RowsStay
<1>5. CASE w.op = "toggle"
  BY <1>1, <1>2, <1>3, <1>5 DEF Holds, RowsStay
<1>6. CASE w.op = "process"
  BY <1>1, <1>6 DEF Holds, RowsStay
<1>7. w.op \in {"activate", "cancel", "toggle", "process"}
  BY DEF Works
<1> QED BY <1>4, <1>5, <1>6, <1>7

\* A request that ends, and one that begins with what it has just read.
LEMMA WorkStays ==
  ASSUME LInv, LicensingTypeOK', RowsStay,
         UNCHANGED work \/ \E c \in Clerks : Done(c)
  PROVE  WorkInv'
<1>1. ASSUME NEW c \in Clerks, work'[c] # Null PROVE Holds(work[c])'
  <2>1. work'[c] = work[c] /\ work[c] # Null
    BY <1>1 DEF Done, LInv, LicensingTypeOK
  <2>2. PICK w \in Works : w = work[c] /\ Holds(w)
    BY <2>1 DEF LInv, LicensingTypeOK, WorkInv
  <2>3. Holds(w)'
    BY <2>2, HoldsOn DEF LInv
  <2> QED BY <2>1, <2>2, <2>3 DEF Holds
<1> QED BY <1>1 DEF WorkInv

-----------------------------------------------------------------------------
(* The keys and what they have opened.                                     *)

\* A step that appends no license keeps KeysSpentOnce, as long as no key
\* counts as used that did not before, nor one that has opened a license
\* as new.
SameLicenses ==
  \A s \in Schools :
    /\ DOMAIN license'[s] = DOMAIN license[s]
    /\ \A i \in DOMAIN license[s] : license'[s][i].key = license[s][i].key

KeysStay ==
  \A k \in Keys :
    /\ key[k] # Null => /\ key'[k] # Null /\ key'[k].school = key[k].school
                        /\ key'[k].status = key[k].status \/ key'[k].status = "CANCELLED"
    /\ key[k] = Null /\ key'[k] # Null => key'[k].status = "GENERATED"

\* Requests that open no license.
LEMMA SpentStays ==
  ASSUME KeysSpentOnce, SameLicenses, KeysStay
  PROVE  KeysSpentOnce'
<1> DEFINE opened(k) == {s \in Schools : \E i \in DOMAIN license[s] : license[s][i].key = k}
<1> SUFFICES ASSUME NEW k \in Keys
             PROVE  /\ \A s \in opened(k)' : /\ key'[k] # Null /\ key'[k].school = s
                                             /\ key'[k].status \in {"USED", "CANCELLED"}
                    /\ \A s \in opened(k)' : \A i, j \in DOMAIN license'[s] :
                         license'[s][i].key = k /\ license'[s][j].key = k => i = j
                    /\ key'[k] # Null /\ key'[k].status = "USED" => opened(k)' # {}
  BY Zenon DEF KeysSpentOnce
<1>1. opened(k)' = opened(k)
  BY DEF SameLicenses
<1>2. /\ \A s \in opened(k) : /\ key[k] # Null /\ key[k].school = s
                              /\ key[k].status \in {"USED", "CANCELLED"}
      /\ \A s \in opened(k) : \A i, j \in DOMAIN license[s] :
           license[s][i].key = k /\ license[s][j].key = k => i = j
      /\ key[k] # Null /\ key[k].status = "USED" => opened(k) # {}
  BY Zenon DEF KeysSpentOnce
<1>3. \A s \in opened(k) : /\ key'[k] # Null /\ key'[k].school = s
                           /\ key'[k].status \in {"USED", "CANCELLED"}
  BY <1>2 DEF KeysStay
<1>4. \A s \in opened(k) : \A i, j \in DOMAIN license'[s] :
        license'[s][i].key = k /\ license'[s][j].key = k => i = j
  BY <1>2 DEF SameLicenses
<1>5. key'[k] # Null /\ key'[k].status = "USED" => key[k] # Null /\ key[k].status = "USED"
  BY DEF KeysStay
<1> QED BY <1>1, <1>2, <1>3, <1>4, <1>5

\* A license that a key opens: none has it, and the school is the key's.
Opens(k, s) ==
  /\ \A o \in Schools : \A i \in DOMAIN license[o] : license[o][i].key # k
  /\ key'[k] # Null /\ key'[k].school = s /\ key'[k].status = "USED"
  /\ \A o \in Keys \ {k} : key'[o] = key[o]
  /\ DOMAIN license'[s] = 1..(Len(license[s]) + 1) /\ Len(license[s]) \in Nat
  /\ DOMAIN license[s] = 1..Len(license[s])
  /\ \A i \in 1..Len(license[s]) : license'[s][i].key = license[s][i].key
  /\ license'[s][Len(license[s]) + 1].key = k
  /\ \A o \in Schools \ {s} : license'[o] = license[o]

\* Opening a license with a key that has none, by the unique index.
LEMMA SpentOpens ==
  ASSUME KeysSpentOnce, NEW k \in Keys, NEW s \in Schools, Opens(k, s)
  PROVE  KeysSpentOnce'
<1> DEFINE opened(o) == {z \in Schools : \E i \in DOMAIN license[z] : license[z][i].key = o}
<1> SUFFICES ASSUME NEW o \in Keys
             PROVE  /\ \A z \in opened(o)' : /\ key'[o] # Null /\ key'[o].school = z
                                             /\ key'[o].status \in {"USED", "CANCELLED"}
                    /\ \A z \in opened(o)' : \A i, j \in DOMAIN license'[z] :
                         license'[z][i].key = o /\ license'[z][j].key = o => i = j
                    /\ key'[o] # Null /\ key'[o].status = "USED" => opened(o)' # {}
  BY Zenon DEF KeysSpentOnce
<1>1. /\ \A z \in opened(o) : /\ key[o] # Null /\ key[o].school = z
                              /\ key[o].status \in {"USED", "CANCELLED"}
      /\ \A z \in opened(o) : \A i, j \in DOMAIN license[z] :
           license[z][i].key = o /\ license[z][j].key = o => i = j
      /\ key[o] # Null /\ key[o].status = "USED" => opened(o) # {}
  BY Zenon DEF KeysSpentOnce
<1>2. CASE o = k
  <2>1. \A z \in Schools \ {s} : \A i \in DOMAIN license'[z] : license'[z][i].key # k
    BY DEF Opens
  <2>2. \A i \in DOMAIN license'[s] : license'[s][i].key = k => i = Len(license[s]) + 1
    BY DEF Opens
  <2>3. opened(o)' = {s}
    BY <1>2, <2>1 DEF Opens
  <2> QED BY <1>2, <2>2, <2>3 DEF Opens
<1>3. CASE o # k
  <2>1. \A z \in Schools : \A i \in DOMAIN license'[z] :
          license'[z][i].key = o => i \in DOMAIN license[z] /\ license[z][i].key = o
    <3>1. \A i \in DOMAIN license'[s] :
            license'[s][i].key = o => i \in DOMAIN license[s] /\ license[s][i].key = o
      BY <1>3 DEF Opens
    <3> QED BY <3>1, \A z \in Schools \ {s} : license'[z] = license[z] DEF Opens
  <2>2. \A z \in Schools : \A i \in DOMAIN license[z] :
          i \in DOMAIN license'[z] /\ license'[z][i].key = license[z][i].key
    <3>1. \A i \in DOMAIN license[s] :
            i \in DOMAIN license'[s] /\ license'[s][i].key = license[s][i].key
      BY DEF Opens
    <3> QED BY <3>1, \A z \in Schools \ {s} : license'[z] = license[z] DEF Opens
  <2>3. opened(o)' = opened(o)
    <3>1. \A z \in Schools : (\E i \in DOMAIN license'[z] : license'[z][i].key = o)
                               <=> (\E i \in DOMAIN license[z] : license[z][i].key = o)
      BY <2>1, <2>2
    <3> QED BY <3>1
  <2>4. key'[o] = key[o]
    BY <1>3 DEF Opens
  <2>5. \A z \in opened(o) : \A i, j \in DOMAIN license'[z] :
          license'[z][i].key = o /\ license'[z][j].key = o => i = j
    BY <1>1, <2>1
  <2> QED BY <1>1, <2>3, <2>4, <2>5
<1> QED BY <1>2, <1>3

-----------------------------------------------------------------------------
(* One lemma per operation.                                                *)

LEMMA Found ==
  ASSUME LicensingTypeOK, NEW s \in Schools
  PROVE  /\ Len(license[s]) \in Nat /\ DOMAIN license[s] = 1..Len(license[s])
         /\ \A i \in 1..Len(license[s]) : license[s][i] \in LicenseRows
         /\ ActiveLicense(s) \in 0..Len(license[s])
<1>1. license[s] \in Seq(LicenseRows)
  BY DEF LicensingTypeOK
<1>2. /\ Len(license[s]) \in Nat /\ DOMAIN license[s] = 1..Len(license[s])
      /\ \A i \in 1..Len(license[s]) : license[s][i] \in LicenseRows
  BY <1>1
<1> DEFINE e == [i \in 1..Len(license[s]) |-> license[s][i].end]
<1>3. e \in [1..Len(license[s]) -> Nat]
  BY <1>2 DEF LicenseRows
<1>4. CASE ActiveIndices(s) = {}
  BY <1>2, <1>4 DEF ActiveLicense
<1>5. CASE ActiveIndices(s) # {}
  <2>1. ActiveIndices(s) \in SUBSET (1..Len(license[s]))
    BY DEF ActiveIndices
  <2>2. PICK i \in ActiveIndices(s) : \A j \in ActiveIndices(s) : e[j] <= e[i]
    <3> HIDE DEF e
    <3> QED BY <1>2, <1>3, <1>5, <2>1, HasMaximal
  <2>3. \A j \in ActiveIndices(s) : license[s][j].end <= license[s][i].end
    BY <2>1, <2>2
  <2>4. ActiveLicense(s) \in ActiveIndices(s)
    BY <1>5, <2>3 DEF ActiveLicense
  <2> QED BY <2>1, <2>4, <1>2
<1> QED BY <1>2, <1>4, <1>5

\* A new key.
LEMMA GenerateKeyKeeps ==
  ASSUME LInv, NEW k \in Keys, NEW t \in Types, NEW s \in Schools, NEW d \in Validity,
         GenerateKey(k, t, s, d)
  PROVE  LInv'
<1>1. d \in Nat
  BY LicensingAssumption
<1>2. [type |-> t, school |-> s, born |-> today, until |-> today + d,
       status |-> "GENERATED"] \in KeyRows
  BY <1>1 DEF KeyRows, LInv, LicensingTypeOK
<1>3. LicensingTypeOK'
  BY <1>2 DEF GenerateKey, NewKey, LInv, LicensingTypeOK
<1>4. RowsStay /\ SameLicenses /\ KeysStay
  BY <1>2, RowAssumption, Found
  DEF GenerateKey, NewKey, RowsStay, SameLicenses, KeysStay, LInv, LicensingTypeOK
<1> QED BY <1>3, <1>4, WorkStays, SpentStays DEF GenerateKey, LInv

\* A request that begins knows rows that are there.
LEMMA BeginKeeps ==
  ASSUME LInv, NEW c \in Clerks,
         NEW op \in {"activate", "cancel", "toggle", "process"}, NEW s \in Schools,
         NEW k \in Keys \cup {Null}, NEW r \in Renewals \cup {Null},
         NEW found \in Nat, NEW was \in Statuses \cup {Null},
         Begin(c, op, s, k, r, found, was),
         Holds([op |-> op, school |-> s, key |-> k, renewal |-> r,
                found |-> found, was |-> was])
  PROVE  LInv'
<1> DEFINE w == [op |-> op, school |-> s, key |-> k, renewal |-> r,
                 found |-> found, was |-> was]
<1>1. w \in Works
  BY DEF Works
<1>2. LicensingTypeOK'
  <2> HIDE DEF w
  <2>1. work' = [work EXCEPT ![c] = w]
    BY DEF Begin, w
  <2> QED BY <1>1, <2>1 DEF Begin, LInv, LicensingTypeOK
<1>3. KeysSpentOnce'
  BY DEF Begin, KeysSpentOnce, LInv
<1>4. ASSUME NEW o \in Clerks, work'[o] # Null PROVE Holds(work[o])'
  <2>1. CASE o = c
    <3>1. work'[o] = w
      BY <2>1 DEF Begin, LInv, LicensingTypeOK
    <3> QED BY <3>1 DEF Begin, Holds
  <2>2. CASE o # c
    <3>1. work'[o] = work[o] /\ work[o] # Null
      BY <2>2, <1>4 DEF Begin, LInv, LicensingTypeOK
    <3>2. Holds(work[o])
      BY <3>1 DEF LInv, WorkInv
    <3> QED BY <3>1, <3>2 DEF Begin, Holds
  <2> QED BY <2>1, <2>2
<1> QED BY <1>2, <1>3, <1>4 DEF LInv, WorkInv

\* A cancellation finds its key.
LEMMA CancelBeginKeeps ==
  ASSUME LInv, NEW c \in Clerks, NEW k \in Keys, CancelBegin(c, k)
  PROVE  LInv'
<1>1. key[k] # Null /\ key[k].school \in Schools
  BY DEF CancelBegin, LInv, LicensingTypeOK, KeyRows
<1>2. Holds([op |-> "cancel", school |-> key[k].school, key |-> k, renewal |-> Null,
             found |-> 0, was |-> Null])
  BY <1>1, RowAssumption DEF Holds
<1> QED BY <1>1, <1>2, BeginKeeps DEF CancelBegin

\* An activation finds its key, school and licenses.
LEMMA ActivateBeginKeeps ==
  ASSUME LInv, NEW c \in Clerks, NEW k \in Keys, NEW s \in Schools, ActivateBegin(c, k, s)
  PROVE  LInv'
<1>1. key[k] # Null /\ key[k].school = s /\ school[s] # Null
  BY DEF ActivateBegin
<1>2. school[s].status \in Statuses
  BY <1>1 DEF LInv, LicensingTypeOK, SchoolRows, Statuses
<1>3. ActiveLicense(s) \in Nat /\ ActiveLicense(s) \in 0..Len(license[s])
  BY Found DEF LInv
<1>4. Holds([op |-> "activate", school |-> s, key |-> k, renewal |-> Null,
             found |-> ActiveLicense(s), was |-> school[s].status])
  BY <1>1, <1>3, RowAssumption DEF Holds
<1> QED BY <1>2, <1>3, <1>4, BeginKeeps DEF ActivateBegin

\* The processing of a renewal finds the request for it.
LEMMA ProcessBeginKeeps ==
  ASSUME LInv, NEW c \in Clerks, NEW r \in Renewals, ProcessBegin(c, r)
  PROVE  LInv'
<1>1. renewal[r] # Null /\ renewal[r].school \in Schools
  BY DEF ProcessBegin, LInv, LicensingTypeOK, RenewalRows
<1>2. Holds([op |-> "process", school |-> renewal[r].school, key |-> Null,
             renewal |-> r, found |-> 0, was |-> Null])
  BY <1>1, RowAssumption DEF Holds
<1> QED BY <1>1, <1>2, BeginKeeps DEF ProcessBegin

\* A toggle finds the school's license.
LEMMA ToggleBeginKeeps ==
  ASSUME LInv, NEW c \in Clerks, NEW s \in Schools, ToggleBegin(c, s)
  PROVE  LInv'
<1>1. school[s] # Null /\ LatestLicense(s) \in 1..Len(license[s])
  BY Found DEF ToggleBegin, Exists, LatestLicense, LInv
<1>2. license[s][LatestLicense(s)].status \in Statuses
  BY <1>1, Found DEF LInv, LicenseRows
<1>3. Holds([op |-> "toggle", school |-> s, key |-> Null, renewal |-> Null,
             found |-> LatestLicense(s), was |-> license[s][LatestLicense(s)].status])
  BY <1>1 DEF Holds
<1>4. LatestLicense(s) \in Nat
  BY <1>1
<1> QED BY <1>2, <1>3, <1>4, BeginKeeps DEF ToggleBegin

\* A cancellation is written over whatever the key is by then.
LEMMA CancelCommitKeeps ==
  ASSUME LInv, NEW c \in Clerks, CancelCommit(c)
  PROVE  LInv'
<1> DEFINE k == work[c].key
<1>1. work[c] \in Works /\ Holds(work[c]) /\ work[c].op = "cancel"
  BY DEF CancelCommit, LInv, LicensingTypeOK, WorkInv
<1>2. k \in Keys /\ key[k] # Null /\ key[k] \in KeyRows
  BY <1>1 DEF Holds, Works, LInv, LicensingTypeOK
<1>3. [key[k] EXCEPT !.status = "CANCELLED"] \in KeyRows
  BY <1>2 DEF KeyRows
<1>4. key' = [key EXCEPT ![k] = [key[k] EXCEPT !.status = "CANCELLED"]]
  BY DEF CancelCommit
<1> HIDE DEF k
<1>5. LicensingTypeOK'
  BY <1>3, <1>4 DEF CancelCommit, Done, LInv, LicensingTypeOK
<1>6. key'[k] \in KeyRows /\ key'[k].status = "CANCELLED" /\ key'[k].school = key[k].school
  BY <1>2, <1>3, <1>4 DEF LInv, LicensingTypeOK, KeyRows
<1>7. \A o \in Keys : o # k => key'[o] = key[o]
  BY <1>4 DEF LInv, LicensingTypeOK
<1>8. RowsStay
  BY <1>6, <1>7, RowAssumption, Found DEF CancelCommit, RowsStay, LInv
<1>9. SameLicenses /\ KeysStay
  BY <1>2, <1>6, <1>7, RowAssumption DEF CancelCommit, SameLicenses, KeysStay
<1> QED BY <1>5, <1>8, <1>9, WorkStays, SpentStays DEF CancelCommit, LInv

\* A renewal is asked for.
LEMMA RequestRenewalKeeps ==
  ASSUME LInv, NEW r \in Renewals, NEW s \in Schools, NEW t \in Types,
         RequestRenewal(r, s, t)
  PROVE  LInv'
<1>1. [school |-> s, type |-> t, status |-> "REQUESTED"] \in RenewalRows
  BY DEF RenewalRows
<1>2. LicensingTypeOK'
  BY <1>1 DEF RequestRenewal, LInv, LicensingTypeOK
<1>3. RowsStay /\ SameLicenses /\ KeysStay
  BY <1>1, RowAssumption, Found
  DEF RequestRenewal, RowsStay, SameLicenses, KeysStay, LInv, LicensingTypeOK
<1> QED BY <1>2, <1>3, WorkStays, SpentStays DEF RequestRenewal, LInv

\* A renewal is refused, or approved with a new key.
LEMMA ProcessCommitKeeps ==
  ASSUME LInv, NEW c \in Clerks, NEW k \in Keys, NEW approved \in BOOLEAN,
         ProcessCommit(c, k, approved)
  PROVE  LInv'
<1> DEFINE r == work[c].renewal
           st == IF approved THEN "COMPLETED" ELSE "REJECTED"
           new == [type |-> renewal[r].type, school |-> renewal[r].school, born |-> today,
                   until |-> today + DefaultDays, status |-> "GENERATED"]
<1>1. work[c] \in Works /\ Holds(work[c]) /\ work[c].op = "process"
  BY DEF ProcessCommit, LInv, LicensingTypeOK, WorkInv
<1>2. r \in Renewals /\ renewal[r] # Null /\ renewal[r] \in RenewalRows
  BY <1>1 DEF Holds, Works, LInv, LicensingTypeOK
<1>3. new \in KeyRows
  BY <1>2, LicensingAssumption DEF KeyRows, RenewalRows, LInv, LicensingTypeOK
<1>4. [renewal[r] EXCEPT !.status = st] \in RenewalRows
  BY <1>2 DEF RenewalRows
<1>5. /\ key' = key \/ (key[k] = Null /\ key' = [key EXCEPT ![k] = new])
      /\ renewal' = [renewal EXCEPT ![r] = [renewal[r] EXCEPT !.status = st]]
  BY DEF ProcessCommit, NewKey
<1>6. new.status = "GENERATED"
  OBVIOUS
<1> HIDE DEF r, st, new
<1>7. LicensingTypeOK'
  BY <1>3, <1>4, <1>5 DEF ProcessCommit, Done, LInv, LicensingTypeOK
<1>8. RowsStay
  <2>1. \A o \in Renewals : renewal[o] # Null => renewal'[o] # Null
    BY <1>4, <1>5, RowAssumption DEF LInv, LicensingTypeOK
  <2>2. \A o \in Keys : key[o] # Null => key'[o] = key[o]
    BY <1>5 DEF LInv, LicensingTypeOK
  <2> QED BY <2>1, <2>2, Found DEF ProcessCommit, RowsStay, LInv
<1>9. SameLicenses /\ KeysStay
  BY <1>3, <1>5, <1>6, RowAssumption
  DEF ProcessCommit, SameLicenses, KeysStay, LInv, LicensingTypeOK
<1> QED BY <1>7, <1>8, <1>9, WorkStays, SpentStays DEF ProcessCommit, LInv

\* The profile of a school.
LEMMA UpdateSchoolKeeps ==
  ASSUME LInv, NEW s \in Schools, NEW n \in Npsn, NEW active \in BOOLEAN,
         UpdateSchool(s, n, active)
  PROVE  LInv'
<1>1. school[s] \in SchoolRows
  BY DEF UpdateSchool, Exists, LInv, LicensingTypeOK
<1>2. [school[s] EXCEPT !.npsn = n, !.active = active] \in SchoolRows
  BY <1>1 DEF SchoolRows
<1>3. school' = [school EXCEPT ![s] = [school[s] EXCEPT !.npsn = n, !.active = active]]
  BY DEF UpdateSchool
<1>4. LicensingTypeOK'
  BY <1>2, <1>3 DEF UpdateSchool, LInv, LicensingTypeOK
<1>5. \A o \in Schools : school[o] # Null => school'[o] # Null
  BY <1>2, <1>3, RowAssumption DEF LInv, LicensingTypeOK
<1>6. RowsStay
  <2>1. UNCHANGED <<key, license, renewal>>
    BY DEF UpdateSchool
  <2>2. \A o \in Schools : Len(license[o]) \in Nat
    BY Found DEF LInv
  <2> QED BY <1>5, <2>1, <2>2 DEF RowsStay
<1>7. SameLicenses /\ KeysStay
  BY DEF UpdateSchool, SameLicenses, KeysStay
<1> QED BY <1>4, <1>6, <1>7, WorkStays, SpentStays DEF UpdateSchool, LInv

\* A school is marked as deleted.
LEMMA DeleteSchoolKeeps ==
  ASSUME LInv, NEW s \in Schools, DeleteSchool(s)
  PROVE  LInv'
<1>1. school[s] \in SchoolRows
  BY DEF DeleteSchool, Exists, LInv, LicensingTypeOK
<1>2. [school[s] EXCEPT !.active = FALSE, !.deleted = TRUE] \in SchoolRows
  BY <1>1 DEF SchoolRows
<1>3. school' = [school EXCEPT ![s] = [school[s] EXCEPT !.active = FALSE, !.deleted = TRUE]]
  BY DEF DeleteSchool
<1>4. LicensingTypeOK'
  BY <1>2, <1>3 DEF DeleteSchool, LInv, LicensingTypeOK
<1>5. \A o \in Schools : school[o] # Null => school'[o] # Null
  BY <1>2, <1>3, RowAssumption DEF LInv, LicensingTypeOK
<1>6. RowsStay
  <2>1. UNCHANGED <<key, license, renewal>>
    BY DEF DeleteSchool
  <2>2. \A o \in Schools : Len(license[o]) \in Nat
    BY Found DEF LInv
  <2> QED BY <1>5, <2>1, <2>2 DEF RowsStay
<1>7. SameLicenses /\ KeysStay
  BY DEF DeleteSchool, SameLicenses, KeysStay
<1> QED BY <1>4, <1>6, <1>7, WorkStays, SpentStays DEF DeleteSchool, LInv

\* The days go by.
LEMMA MidnightKeeps ==
  ASSUME LInv, Midnight
  PROVE  LInv'
<1>1. LicensingTypeOK'
  BY DEF Midnight, LInv, LicensingTypeOK
<1>2. RowsStay /\ SameLicenses /\ KeysStay
  BY Found DEF Midnight, RowsStay, SameLicenses, KeysStay, LInv
<1> QED BY <1>1, <1>2, WorkStays, SpentStays DEF Midnight, LInv

\* What a commit does to the licenses of a school: a status, or a new one.
LEMMA StatusSet ==
  ASSUME LicensingTypeOK, NEW s \in Schools, NEW i \in 1..Len(license[s]),
         NEW st \in Statuses
  PROVE  LET new == [license[s] EXCEPT ![i].status = st]
         IN /\ new \in Seq(LicenseRows) /\ Len(new) = Len(license[s])
            /\ \A j \in 1..Len(license[s]) : new[j].key = license[s][j].key
<1>1. license[s] \in Seq(LicenseRows) /\ license[s][i] \in LicenseRows
  BY Found DEF LicensingTypeOK
<1> DEFINE row == [license[s][i] EXCEPT !.status = st]
<1>2. row \in LicenseRows /\ row.key = license[s][i].key
  BY <1>1 DEF LicenseRows
<1>3. [license[s] EXCEPT ![i].status = st] = [license[s] EXCEPT ![i] = row]
  OBVIOUS
<1> HIDE DEF row
<1>4. /\ [license[s] EXCEPT ![i] = row] \in Seq(LicenseRows)
      /\ Len([license[s] EXCEPT ![i] = row]) = Len(license[s])
      /\ \A j \in 1..Len(license[s]) :
           [license[s] EXCEPT ![i] = row][j] = IF j = i THEN row ELSE license[s][j]
  BY <1>1, <1>2, ExceptSeq
<1> QED BY <1>2, <1>3, <1>4

\* A toggle writes the license it has found.
LEMMA ToggleCommitKeeps ==
  ASSUME LInv, NEW c \in Clerks, ToggleCommit(c)
  PROVE  LInv'
<1> DEFINE s == work[c].school
           i == work[c].found
           st == IF work[c].was = "ACTIVE" THEN "SUSPENDED" ELSE "ACTIVE"
           new == [license[s] EXCEPT ![i].status = st]
<1>1. work[c] \in Works /\ Holds(work[c]) /\ work[c].op = "toggle"
  BY DEF ToggleCommit, LInv, LicensingTypeOK, WorkInv
<1>2. s \in Schools /\ school[s] \in SchoolRows /\ i \in 1..Len(license[s])
  BY <1>1 DEF Holds, Works, LInv, LicensingTypeOK
<1>3. st \in Statuses /\ st \in {"ACTIVE", "SUSPENDED"}
  BY DEF Statuses
<1>4. /\ new \in Seq(LicenseRows) /\ Len(new) = Len(license[s])
      /\ \A j \in 1..Len(license[s]) : new[j].key = license[s][j].key
  <2> HIDE DEF s, i, st
  <2> QED BY <1>2, <1>3, StatusSet DEF LInv
<1>5. [school[s] EXCEPT !.status = st] \in SchoolRows
  BY <1>2, <1>3 DEF SchoolRows
<1>6. /\ license' = [license EXCEPT ![s] = new]
      /\ school' = [school EXCEPT ![s] = [school[s] EXCEPT !.status = st]]
      /\ UNCHANGED <<today, key, renewal>> /\ Done(c)
  BY DEF ToggleCommit
<1> HIDE DEF s, st, new
<1>7. LicensingTypeOK'
  BY <1>4, <1>5, <1>6 DEF Done, LInv, LicensingTypeOK
<1>8. \A o \in Schools : school[o] # Null => school'[o] # Null
  BY <1>5, <1>6, RowAssumption DEF LInv, LicensingTypeOK
<1>9. license'[s] = new /\ \A o \in Schools : o # s => license'[o] = license[o]
  BY <1>2, <1>6 DEF LInv, LicensingTypeOK
<1>10. \A o \in Schools : Len(license[o]) \in Nat /\ DOMAIN license[o] = 1..Len(license[o])
  BY Found DEF LInv
<1>11. RowsStay
  BY <1>2, <1>4, <1>6, <1>8, <1>9, <1>10 DEF RowsStay
<1>12. DOMAIN new = DOMAIN license[s]
  BY <1>2, <1>4, <1>10
<1>13. SameLicenses
  BY <1>4, <1>9, <1>10, <1>12 DEF SameLicenses
<1>14. KeysStay
  BY <1>6 DEF KeysStay
<1> QED BY <1>6, <1>7, <1>11, <1>13, <1>14, WorkStays, SpentStays DEF LInv

\* A license more.
LEMMA Appended ==
  ASSUME NEW seq \in Seq(LicenseRows), NEW row \in LicenseRows
  PROVE  /\ Append(seq, row) \in Seq(LicenseRows) /\ Len(seq) \in Nat
         /\ DOMAIN seq = 1..Len(seq)
         /\ Len(Append(seq, row)) = Len(seq) + 1
         /\ DOMAIN Append(seq, row) = 1..(Len(seq) + 1)
         /\ \A i \in 1..Len(seq) : Append(seq, row)[i] = seq[i]
         /\ Append(seq, row)[Len(seq) + 1] = row
<1>1. Append(seq, row) \in Seq(LicenseRows) /\ Len(Append(seq, row)) = Len(seq) + 1
  BY AppendProperties
<1>2. DOMAIN Append(seq, row) = 1..Len(Append(seq, row))
  BY <1>1, LenProperties
<1> QED BY <1>1, <1>2, AppendProperties, LenProperties

\* A school with its first key.
LEMMA CreateSchoolKeeps ==
  ASSUME LInv, NEW s \in Schools, NEW n \in Npsn, NEW k \in Keys, NEW t \in Types,
         CreateSchool(s, n, k, t)
  PROVE  LInv'
<1> DEFINE first == [key |-> k, type |-> t, start |-> today, end |-> today + Duration[t],
                     status |-> "ACTIVE"]
           row == [npsn |-> n, status |-> "ACTIVE", active |-> TRUE, deleted |-> FALSE]
           used == [type |-> t, school |-> s, born |-> today,
                    until |-> today + Duration[t], status |-> "USED"]
<1>1. today \in Nat /\ Duration[t] \in Nat
  BY LicensingAssumption DEF LInv, LicensingTypeOK
<1>2. first \in LicenseRows /\ row \in SchoolRows /\ used \in KeyRows
  BY <1>1 DEF LicenseRows, SchoolRows, KeyRows, Statuses
<1>3. /\ school' = [school EXCEPT ![s] = row] /\ key' = [key EXCEPT ![k] = used]
      /\ license' = [license EXCEPT ![s] = Append(license[s], first)]
      /\ key[k] = Null /\ UNCHANGED <<today, renewal, work>>
  BY DEF CreateSchool
<1>4. used.school = s /\ used.status = "USED" /\ first.key = k
  OBVIOUS
<1> HIDE DEF first, row, used
<1>5. license[s] \in Seq(LicenseRows)
  BY DEF LInv, LicensingTypeOK
<1>6. /\ license'[s] = Append(license[s], first)
      /\ \A o \in Schools : o # s => license'[o] = license[o]
      /\ key'[k] = used /\ \A o \in Keys \ {k} : key'[o] = key[o]
  BY <1>3 DEF LInv, LicensingTypeOK
<1>7. LicensingTypeOK'
  BY <1>2, <1>3, <1>5, Appended DEF LInv, LicensingTypeOK
<1>8. \A o \in Schools : Len(license[o]) \in Nat
  BY Found DEF LInv
<1>9. RowsStay
  <2>1. \A o \in Schools : school[o] # Null => school'[o] # Null
    BY <1>2, <1>3, RowAssumption DEF LInv, LicensingTypeOK
  <2>2. \A o \in Schools : Len(license[o]) <= Len(license'[o])
    BY <1>2, <1>5, <1>6, <1>8, Appended
  <2> QED BY <1>3, <1>6, <2>1, <2>2 DEF RowsStay
<1>10. \A o \in Schools : \A i \in DOMAIN license[o] : license[o][i].key # k
  BY <1>3 DEF LInv, KeysSpentOnce
<1>11. Opens(k, s)
  BY <1>2, <1>4, <1>5, <1>6, <1>10, Appended, RowAssumption DEF Opens
<1> QED BY <1>3, <1>7, <1>9, <1>11, WorkStays, SpentOpens DEF LInv

\* The license a key opens.
LEMMA NewLicenseType ==
  ASSUME LicensingTypeOK, NEW k \in Keys, NEW s \in Schools, NEW found \in 0..Len(license[s]),
         key[k] # Null
  PROVE  NewLicense(k, s, found) \in LicenseRows /\ NewLicense(k, s, found).key = k
<1> DEFINE t == key[k].type
           later == found # 0 /\ t \notin Permanent
           from == IF later THEN license[s][found].end ELSE today
           st == CASE ~later -> "ACTIVE"
                   [] later /\ license[s][found].type \in Permanent -> "SUPERSEDED"
                   [] OTHER -> "PENDING"
<1>1. t \in Types /\ Duration[t] \in Nat
  BY LicensingAssumption DEF LicensingTypeOK, KeyRows
<1>2. from \in Nat
  <2>1. CASE later
    <3>1. found \in 1..Len(license[s])
      BY <2>1, Found
    <3>2. license[s][found] \in LicenseRows
      BY <3>1, Found
    <3> QED BY <2>1, <3>2 DEF LicenseRows
  <2>2. CASE ~later
    BY <2>2 DEF LicensingTypeOK
  <2> QED BY <2>1, <2>2
<1>3. st \in Statuses
  BY DEF Statuses
<1>4. NewLicense(k, s, found) = [key |-> k, type |-> t, start |-> from,
                                 end |-> from + Duration[t], status |-> st]
  BY DEF NewLicense
<1> HIDE DEF t, from, st
<1> QED BY <1>1, <1>2, <1>3, <1>4 DEF LicenseRows

\* Superseding a license keeps every license's key.
LEMMA SupersedeType ==
  ASSUME LicensingTypeOK, NEW k \in Keys, NEW s \in Schools, NEW found \in 0..Len(license[s])
  PROVE  LET new == Supersede(k, s, found)
         IN /\ new \in Seq(LicenseRows) /\ Len(new) = Len(license[s])
            /\ \A j \in 1..Len(license[s]) : new[j].key = license[s][j].key
<1>1. license[s] \in Seq(LicenseRows)
  BY DEF LicensingTypeOK
<1>2. CASE found # 0 /\ key[k].type \in Permanent
  <2>1. found \in 1..Len(license[s]) /\ "SUPERSEDED" \in Statuses
    BY <1>2, Found DEF Statuses
  <2>2. Supersede(k, s, found) = [license[s] EXCEPT ![found].status = "SUPERSEDED"]
    BY <1>2 DEF Supersede
  <2> QED BY <2>1, <2>2, StatusSet
<1>3. CASE ~(found # 0 /\ key[k].type \in Permanent)
  BY <1>1, <1>3 DEF Supersede
<1> QED BY <1>2, <1>3

\* An activation that the unique index admits.
LEMMA ActivateKeeps ==
  ASSUME LInv, NEW k \in Keys, NEW s \in Schools, NEW found \in 0..Len(license[s]),
         key[k] # Null, key[k].school = s, school[s] # Null, UniqueKey(k),
         Activate(k, s, found), UNCHANGED <<today, renewal>>,
         NEW c \in Clerks, Done(c)
  PROVE  LInv'
<1> DEFINE new == NewLicense(k, s, found)
           old == Supersede(k, s, found)
           used == [key[k] EXCEPT !.status = "USED"]
           row == [school[s] EXCEPT !.status = "ACTIVE",
                                    !.active = @ \/ key[k].type \in Permanent]
<1>1. new \in LicenseRows /\ new.key = k
  BY NewLicenseType DEF LInv
<1>2. /\ old \in Seq(LicenseRows) /\ Len(old) = Len(license[s])
      /\ \A j \in 1..Len(license[s]) : old[j].key = license[s][j].key
  BY SupersedeType DEF LInv
<1>3. used \in KeyRows /\ used.school = s /\ used.status = "USED"
  <2>1. key[k] \in KeyRows
    BY DEF LInv, LicensingTypeOK
  <2> QED BY <2>1 DEF KeyRows
<1>4. row \in SchoolRows
  <2>1. school[s] \in SchoolRows
    BY DEF LInv, LicensingTypeOK
  <2> QED BY <2>1 DEF SchoolRows
<1>5. /\ license' = [license EXCEPT ![s] = Append(old, new)]
      /\ key' = [key EXCEPT ![k] = used]
      /\ school' = school \/ school' = [school EXCEPT ![s] = row]
  BY DEF Activate
<1> HIDE DEF new, old, used, row
<1>6. /\ license'[s] = Append(old, new)
      /\ \A o \in Schools : o # s => license'[o] = license[o]
      /\ key'[k] = used /\ \A o \in Keys \ {k} : key'[o] = key[o]
  BY <1>5 DEF LInv, LicensingTypeOK
<1>7. LicensingTypeOK'
  BY <1>1, <1>2, <1>3, <1>4, <1>5, Appended DEF Done, LInv, LicensingTypeOK
<1>8. \A o \in Schools : Len(license[o]) \in Nat /\ DOMAIN license[o] = 1..Len(license[o])
  BY Found DEF LInv
<1>9. RowsStay
  <2>1. \A o \in Schools : school[o] # Null => school'[o] # Null
    BY <1>4, <1>5, RowAssumption DEF LInv, LicensingTypeOK
  <2>2. \A o \in Schools : Len(license[o]) <= Len(license'[o])
    BY <1>1, <1>2, <1>6, <1>8, Appended
  <2>3. \A o \in Keys : key[o] # Null => key'[o] # Null /\ key'[o].school = key[o].school
    BY <1>3, <1>6, RowAssumption
  <2> QED BY <2>1, <2>2, <2>3 DEF RowsStay
<1>10. Opens(k, s)
  <2>1. /\ DOMAIN license'[s] = 1..(Len(license[s]) + 1)
        /\ \A i \in 1..Len(license[s]) : license'[s][i].key = license[s][i].key
        /\ license'[s][Len(license[s]) + 1].key = k
    BY <1>1, <1>2, <1>6, Appended
  <2> QED BY <1>3, <1>6, <1>8, <2>1, RowAssumption DEF Opens, UniqueKey
<1> QED BY <1>7, <1>9, <1>10, WorkStays, SpentOpens DEF LInv

\* An activation, admitted or refused at its commit.
LEMMA ActivateCommitKeeps ==
  ASSUME LInv, NEW c \in Clerks, ActivateCommit(c)
  PROVE  LInv'
<1>1. work[c] \in Works /\ Holds(work[c]) /\ work[c].op = "activate"
  BY DEF ActivateCommit, LInv, LicensingTypeOK, WorkInv
<1>2. /\ work[c].key \in Keys /\ key[work[c].key] # Null
      /\ key[work[c].key].school = work[c].school /\ work[c].school \in Schools
      /\ school[work[c].school] # Null /\ work[c].found \in 0..Len(license[work[c].school])
  BY <1>1 DEF Holds, Works
<1>3. CASE UniqueKey(work[c].key)
  BY <1>2, <1>3, ActivateKeeps DEF ActivateCommit
<1>4. CASE ~UniqueKey(work[c].key)
  <2>1. UNCHANGED <<today, school, key, license, renewal>> /\ Done(c)
    BY <1>4 DEF ActivateCommit
  <2>2. LicensingTypeOK'
    BY <2>1 DEF Done, LInv, LicensingTypeOK
  <2>3. \A o \in Schools : Len(license[o]) \in Nat
    BY Found DEF LInv
  <2>4. RowsStay /\ SameLicenses /\ KeysStay
    BY <2>1, <2>3 DEF RowsStay, SameLicenses, KeysStay
  <2> QED BY <2>1, <2>2, <2>4, WorkStays, SpentStays DEF LInv
<1> QED BY <1>3, <1>4

-----------------------------------------------------------------------------
(* All of them.                                                            *)

LicensingNext ==
  \/ \E k \in Keys, t \in Types, s \in Schools, d \in Validity : GenerateKey(k, t, s, d)
  \/ \E c \in Clerks, k \in Keys : CancelBegin(c, k)
  \/ \E c \in Clerks, k \in Keys, s \in Schools : ActivateBegin(c, k, s)
  \/ \E r \in Renewals, s \in Schools, t \in Types : RequestRenewal(r, s, t)
  \/ \E c \in Clerks, r \in Renewals : ProcessBegin(c, r)
  \/ \E c \in Clerks, s \in Schools : ToggleBegin(c, s)
  \/ \E c \in Clerks : CancelCommit(c) \/ ActivateCommit(c) \/ ToggleCommit(c)
  \/ \E c \in Clerks, k \in Keys, approved \in BOOLEAN : ProcessCommit(c, k, approved)
  \/ \E s \in Schools, n \in Npsn, k \in Keys, t \in Types : CreateSchool(s, n, k, t)
  \/ \E s \in Schools, n \in Npsn, active \in BOOLEAN : UpdateSchool(s, n, active)
  \/ \E s \in Schools : DeleteSchool(s)
  \/ Midnight

\* The seeded schools.
LEMMA LicensingStarts ==
  ASSUME LicensingInit
  PROVE  LInv
<1>1. SeedNpsn \in [Seeded -> Npsn]
  BY LicensingAssumption DEF SeedNpsn
<1>2. school \in [Schools -> SchoolRows \cup {Null}]
  BY <1>1 DEF LicensingInit, SchoolRows
<1>3. \A s \in Licensed : SeedLicense \in LicenseRows /\ SeedLicense.key = Null
  BY LicensingAssumption DEF SeedLicense, LicenseRows, Statuses
<1>4. \A s \in Schools : /\ license[s] \in Seq(LicenseRows)
                         /\ \A i \in DOMAIN license[s] : license[s][i].key = Null
  <2>1. ASSUME NEW s \in Licensed
        PROVE  /\ <<SeedLicense>> \in Seq(LicenseRows)
               /\ \A i \in DOMAIN <<SeedLicense>> : <<SeedLicense>>[i].key = Null
    BY <1>3
  <2>2. \A s \in Schools : license[s] = IF s \in Licensed THEN <<SeedLicense>> ELSE <<>>
    BY DEF LicensingInit
  <2>3. <<>> \in Seq(LicenseRows) /\ DOMAIN <<>> = {}
    OBVIOUS
  <2> QED BY <2>1, <2>2, <2>3
<1>5. license \in [Schools -> Seq(LicenseRows)]
  BY <1>4 DEF LicensingInit
<1>6. LicensingTypeOK
  BY <1>2, <1>5 DEF LicensingInit, LicensingTypeOK
<1>7. WorkInv
  BY DEF LicensingInit, WorkInv
<1>8. KeysSpentOnce
  <2>1. \A k \in Keys : key[k] = Null /\ k # Null
    BY RowAssumption DEF LicensingInit
  <2> QED BY <1>4, <2>1 DEF KeysSpentOnce
<1> QED BY <1>6, <1>7, <1>8 DEF LInv

\* Every step of Licensing keeps its invariant.
LEMMA LicensingKeeps ==
  ASSUME LInv, [LicensingNext]_licensingVars
  PROVE  LInv'
<1>1. CASE UNCHANGED licensingVars
  BY <1>1 DEF licensingVars, LInv, LicensingTypeOK, WorkInv, Holds, KeysSpentOnce
<1>2. CASE LicensingNext
  BY <1>2, GenerateKeyKeeps, CancelBeginKeeps, ActivateBeginKeeps, RequestRenewalKeeps,
     ProcessBeginKeeps, ToggleBeginKeeps, CancelCommitKeeps, ActivateCommitKeeps,
     ToggleCommitKeeps, ProcessCommitKeeps, CreateSchoolKeeps, UpdateSchoolKeeps,
     DeleteSchoolKeeps, MidnightKeeps
  DEF LicensingNext
<1> QED BY <1>1, <1>2

-----------------------------------------------------------------------------
(* Logins, sessions and the requests of both.                              *)

InTurn ==
  \A c, o \in Clients :
    /\ login[c] # Null /\ login[c].locked
    /\ login[o] # Null /\ login[o].locked /\ login[o].account = login[c].account
    => o = c

SeenAll ==
  \A c \in Clients :
    login[c] # Null /\ login[c].locked =>
      \A i \in Sessions : Live(i) /\ session[i].account = login[c].account => i \in login[c].seen

SeenStored ==
  /\ \A c \in Clients : login[c] # Null => \A i \in login[c].seen : session[i] # Null
  /\ \A a \in Accounts : change[a] # Null => \A i \in change[a] : session[i] # Null

RowsHeld ==
  \A c \in Clients :
    login[c] # Null /\ login[c].row # 0 =>
      LET l == login[c]
      IN /\ l.row \in 1..Len(attempts[l.account])
         /\ l.loaded \in AttemptRows /\ l.loaded.blocked # "until"
         /\ l.loaded.blocked = "past" => attempts[l.account][l.row].blocked = "past"

SInv == SessionsTypeOK /\ InTurn /\ SeenAll /\ SeenStored /\ RowsHeld /\ OneSession

-----------------------------------------------------------------------------
(* Sessions.                                                               *)

\* Sessions stay on record, and none comes alive.
Shrinks ==
  \A i \in Sessions :
    /\ session[i] # Null => session'[i] # Null
    /\ Live(i)' => Live(i) /\ session'[i].account = session[i].account

\* Logins and changes of a password end, and nothing else happens to them.
Fewer ==
  /\ \A c \in Clients : login'[c] \in {login[c], Null}
  /\ \A a \in Accounts : change'[a] \in {change[a], Null}

\* Where sessions only end and logins only go, what logins rely on stays.
LEMMA ShrinkKeeps ==
  ASSUME SInv, SessionsTypeOK', Shrinks, Fewer
  PROVE  InTurn' /\ SeenAll' /\ SeenStored' /\ OneSession'
<1>1. \A c \in Clients : login'[c] # Null => login'[c] = login[c] /\ login[c] # Null
  BY DEF Fewer
<1>2. \A a \in Accounts : change'[a] # Null => change'[a] = change[a] /\ change[a] # Null
  BY DEF Fewer
<1>3. InTurn'
  BY <1>1 DEF InTurn, SInv
<1>4. SeenAll'
  <2>1. ASSUME NEW c \in Clients, login'[c] # Null, login'[c].locked, NEW i \in Sessions,
               Live(i)', session'[i].account = login'[c].account
        PROVE  i \in login'[c].seen
    <3>1. login'[c] = login[c] /\ login[c] # Null
      BY <1>1, <2>1
    <3>2. Live(i) /\ session'[i].account = session[i].account
      BY <2>1 DEF Shrinks
    <3> HIDE DEF Live
    <3> QED BY <2>1, <3>1, <3>2 DEF SeenAll, SInv
  <2> QED BY <2>1 DEF SeenAll
<1>5. SeenStored'
  <2>1. ASSUME NEW c \in Clients, login'[c] # Null, NEW i \in login'[c].seen
        PROVE  session'[i] # Null
    <3>1. login'[c] = login[c] /\ login[c] # Null
      BY <1>1, <2>1
    <3>2. i \in Sessions
      BY <2>1, <3>1 DEF SInv, SessionsTypeOK, Logins
    <3> QED BY <2>1, <3>1, <3>2 DEF SInv, SeenStored, Shrinks
  <2>2. ASSUME NEW a \in Accounts, change'[a] # Null, NEW i \in change'[a]
        PROVE  session'[i] # Null
    <3>1. change'[a] = change[a] /\ change[a] # Null
      BY <1>2, <2>2
    <3>2. i \in Sessions
      BY <2>2, <3>1 DEF SInv, SessionsTypeOK
    <3> QED BY <2>2, <3>1, <3>2 DEF SInv, SeenStored, Shrinks
  <2> QED BY <2>1, <2>2 DEF SeenStored
<1>6. OneSession'
  <2>1. ASSUME NEW i \in Sessions, NEW j \in Sessions, Live(i)', Live(j)',
               session'[i].account = session'[j].account,
               Role[session'[i].account] = "STUDENT"
        PROVE  i = j
    <3>1. /\ Live(i) /\ session'[i].account = session[i].account
          /\ Live(j) /\ session'[j].account = session[j].account
      BY <2>1 DEF Shrinks
    <3> HIDE DEF Live
    <3> QED BY <2>1, <3>1 DEF SInv, OneSession
  <2> QED BY <2>1 DEF OneSession
<1> QED BY <1>3, <1>4, <1>5, <1>6

\* Revoking sessions that exist.
LEMMA Revoked ==
  ASSUME SessionsTypeOK, NEW ids \in SUBSET Sessions, \A i \in ids : session[i] # Null,
         session' = Revoke(ids)
  PROVE  session' \in [Sessions -> SessionRows \cup {Null}] /\ Shrinks
<1>1. ASSUME NEW i \in Sessions
      PROVE  /\ session'[i] \in SessionRows \cup {Null}
             /\ session[i] # Null => session'[i] # Null
             /\ Live(i)' => Live(i) /\ session'[i].account = session[i].account
  <2>1. CASE i \in ids
    <3>1. session[i] \in SessionRows
      BY <2>1 DEF SessionsTypeOK
    <3>2. session'[i] = [session[i] EXCEPT !.revoked = TRUE]
      BY <2>1 DEF Revoke
    <3>3. session'[i] \in SessionRows /\ session'[i].revoked
      BY <3>1, <3>2 DEF SessionRows
    <3> QED BY <3>3, SessionRowsAssumption DEF Live
  <2>2. CASE i \notin ids
    <3>1. session'[i] = session[i]
      BY <2>2 DEF Revoke
    <3> QED BY <3>1 DEF Live, SessionsTypeOK
  <2> QED BY <2>1, <2>2
<1>2. session' = [i \in Sessions |-> session'[i]]
  BY DEF Revoke
<1> QED BY <1>1, <1>2 DEF Shrinks

\* The live sessions of an account are sessions on record.
LEMMA ActiveStored ==
  ASSUME NEW a
  PROVE  ActiveSessions(a) \in SUBSET Sessions /\ \A i \in ActiveSessions(a) : session[i] # Null
  BY DEF ActiveSessions, Live

\* A column of one live session is written, and its account stays.
LEMMA Rewritten ==
  ASSUME SessionsTypeOK, NEW i \in Sessions, Live(i), NEW row \in SessionRows,
         row.account = session[i].account,
         session' = [session EXCEPT ![i] = row]
  PROVE  session' \in [Sessions -> SessionRows \cup {Null}] /\ Shrinks
<1>1. session' \in [Sessions -> SessionRows \cup {Null}]
  BY DEF SessionsTypeOK
<1>2. session'[i] = row /\ \A j \in Sessions : j # i => session'[j] = session[j]
  BY DEF SessionsTypeOK
<1>3. Shrinks
  BY <1>2, SessionRowsAssumption DEF Shrinks, Live
<1> QED BY <1>1, <1>3

\* Nothing of the table of attempts changes, nor a login but by ending.
LEMMA RowsHeldStay ==
  ASSUME SInv, Fewer, UNCHANGED attempts
  PROVE  RowsHeld'
<1>1. \A c \in Clients : login'[c] # Null => login'[c] = login[c] /\ login[c] # Null
  BY DEF Fewer
<1> QED BY <1>1 DEF SInv, RowsHeld

-----------------------------------------------------------------------------
(* One lemma per operation on sessions and accounts.                       *)

\* What revokes sessions that exist and leaves the rest to end.
LEMMA RevokingKeeps ==
  ASSUME SInv, NEW ids \in SUBSET Sessions, \A i \in ids : session[i] # Null,
         session' = Revoke(ids), Fewer, UNCHANGED attempts,
         account' \in [Accounts -> AccountRows], busy' \in SUBSET Accounts,
         login' \in [Clients -> Logins \cup {Null}],
         change' \in [Accounts -> (SUBSET Sessions) \cup {Null}]
  PROVE  SInv'
<1>1. session' \in [Sessions -> SessionRows \cup {Null}] /\ Shrinks
  BY Revoked DEF SInv
<1>2. SessionsTypeOK'
  BY <1>1 DEF SInv, SessionsTypeOK
<1> QED BY <1>1, <1>2, ShrinkKeeps, RowsHeldStay DEF SInv

\* The parts that a step leaves alone.
LEMMA NothingElse ==
  ASSUME SInv, UNCHANGED <<login, change>>
  PROVE  /\ Fewer /\ login' \in [Clients -> Logins \cup {Null}]
         /\ change' \in [Accounts -> (SUBSET Sessions) \cup {Null}]
  BY DEF Fewer, SInv, SessionsTypeOK

\* Sessions that nobody touches shrink trivially.
LEMMA SameSessions ==
  ASSUME UNCHANGED session
  PROVE  Shrinks
  BY DEF Shrinks, Live

\* A refresh moves its session on, or ends it when a token is replayed.
LEMMA RefreshKeeps ==
  ASSUME SInv, NEW i \in Sessions, NEW g \in 0..MaxGen, Refresh(i, g)
  PROVE  SInv'
<1>1. session[i] # Null /\ session[i] \in SessionRows /\ Live(i)
  BY DEF Refresh, Live, SInv, SessionsTypeOK
<1>2. CASE session' = Revoke({i})
  <2>1. UNCHANGED <<account, attempts, login, change, busy>>
    BY DEF Refresh
  <2>2. {i} \in SUBSET Sessions /\ \A j \in {i} : session[j] # Null
    BY <1>1
  <2> QED BY <1>2, <2>1, <2>2, RevokingKeeps, NothingElse DEF SInv, SessionsTypeOK
<1>3. CASE session' # Revoke({i})
  <2> DEFINE row == [session[i] EXCEPT !.gen = g + 1, !.idle = FALSE]
  <2>1. session' = [session EXCEPT ![i] = row]
    BY <1>3 DEF Refresh
  <2>2. g + 1 \in Nat
    OBVIOUS
  <2>3. row \in SessionRows /\ row.account = session[i].account
    BY <1>1, <2>2 DEF SessionRows
  <2> HIDE DEF row
  <2>4. session' \in [Sessions -> SessionRows \cup {Null}] /\ Shrinks
    BY <1>1, <2>1, <2>3, Rewritten DEF SInv
  <2>5. UNCHANGED <<account, attempts, login, change, busy>>
    BY DEF Refresh
  <2>6. SessionsTypeOK'
    BY <2>4, <2>5 DEF SInv, SessionsTypeOK
  <2> QED BY <2>4, <2>5, <2>6, NothingElse, ShrinkKeeps, RowsHeldStay DEF SInv
<1> QED BY <1>2, <1>3

\* A session goes idle or expires.
LEMMA ColumnKeeps ==
  ASSUME SInv, NEW i \in Sessions, GoIdle(i) \/ Expire(i)
  PROVE  SInv'
<1>1. session[i] # Null /\ session[i] \in SessionRows /\ Live(i)
  BY DEF GoIdle, Expire, Live, SInv, SessionsTypeOK
<1>2. PICK row \in SessionRows : /\ row.account = session[i].account
                                 /\ session' = [session EXCEPT ![i] = row]
  <2>1. CASE GoIdle(i)
    <3>1. session' = [session EXCEPT ![i] = [session[i] EXCEPT !.idle = TRUE]]
      BY <2>1 DEF GoIdle
    <3>2. /\ [session[i] EXCEPT !.idle = TRUE] \in SessionRows
          /\ [session[i] EXCEPT !.idle = TRUE].account = session[i].account
      BY <1>1 DEF SessionRows
    <3> QED BY <3>1, <3>2
  <2>2. CASE Expire(i)
    <3>1. session' = [session EXCEPT ![i] = [session[i] EXCEPT !.expired = TRUE]]
      BY <2>2 DEF Expire
    <3>2. /\ [session[i] EXCEPT !.expired = TRUE] \in SessionRows
          /\ [session[i] EXCEPT !.expired = TRUE].account = session[i].account
      BY <1>1 DEF SessionRows
    <3> QED BY <3>1, <3>2
  <2> QED BY <2>1, <2>2
<1>3. session' \in [Sessions -> SessionRows \cup {Null}] /\ Shrinks
  BY <1>1, <1>2, Rewritten DEF SInv
<1>4. UNCHANGED <<account, attempts, login, change, busy>>
  BY DEF GoIdle, Expire
<1>5. SessionsTypeOK'
  BY <1>3, <1>4 DEF SInv, SessionsTypeOK
<1> QED BY <1>3, <1>4, <1>5, NothingElse, ShrinkKeeps, RowsHeldStay DEF SInv

\* Idle time-out, logout, logout everywhere and revocation by a supervisor.
LEMMA EndingKeeps ==
  ASSUME SInv, NEW i \in Sessions, NEW o \in Sessions,
         IdleTimeout(i) \/ Logout(i) \/ LogoutAll(i) \/ RevokeSession(i, o)
  PROVE  SInv'
<1>1. PICK ids \in SUBSET Sessions :
        session' = Revoke(ids) /\ \A j \in ids : session[j] # Null
  <2>1. CASE IdleTimeout(i) \/ Logout(i)
    <3>1. session[i] # Null /\ session' = Revoke({i})
      BY <2>1 DEF IdleTimeout, Logout, Admitted, Live
    <3> QED BY <3>1
  <2>2. CASE LogoutAll(i)
    BY <2>2, ActiveStored DEF LogoutAll
  <2>3. CASE RevokeSession(i, o)
    <3>1. session[o] # Null /\ session' = Revoke({o})
      BY <2>3 DEF RevokeSession
    <3> QED BY <3>1
  <2> QED BY <2>1, <2>2, <2>3
<1>2. UNCHANGED <<account, attempts, login, change, busy>>
  BY DEF IdleTimeout, Logout, LogoutAll, RevokeSession
<1> QED BY <1>1, <1>2, NothingElse, RevokingKeeps DEF SInv, SessionsTypeOK

\* A device reset and the clearing of a student's sessions end all of them.
LEMMA ResetKeeps ==
  ASSUME SInv, NEW a \in Accounts, DeviceReset(a) \/ ClearSessions(a)
  PROVE  SInv'
<1>1. session' = Revoke(ActiveSessions(a)) /\ UNCHANGED <<account, attempts, login, change>>
  BY DEF DeviceReset, ClearSessions
<1>2. busy' \in SUBSET Accounts /\ account' \in [Accounts -> AccountRows]
  BY DEF DeviceReset, ClearSessions, SInv, SessionsTypeOK
<1>3. ActiveSessions(a) \in SUBSET Sessions /\ \A i \in ActiveSessions(a) : session[i] # Null
  BY ActiveStored
<1> QED BY <1>1, <1>2, <1>3, NothingElse, RevokingKeeps

\* A change of password finds the sessions it is going to end.
LEMMA ChangeBeginKeeps ==
  ASSUME SInv, NEW i \in Sessions, ChangeBegin(i)
  PROVE  SInv'
<1> DEFINE a == session[i].account
<1>1. session[i] \in SessionRows /\ a \in Accounts
  BY DEF ChangeBegin, Admitted, Live, SInv, SessionsTypeOK, SessionRows
<1>2. /\ change' = [change EXCEPT ![a] = ActiveSessions(a)]
      /\ UNCHANGED <<account, session, attempts, login, busy>>
  BY DEF ChangeBegin
<1>3. ActiveSessions(a) \in SUBSET Sessions /\ \A j \in ActiveSessions(a) : session[j] # Null
  BY ActiveStored
<1> HIDE DEF a
<1>4. SessionsTypeOK'
  BY <1>2, <1>3 DEF SInv, SessionsTypeOK
<1>5. InTurn' /\ SeenAll' /\ OneSession' /\ RowsHeld'
  BY <1>2 DEF SInv, InTurn, SeenAll, OneSession, RowsHeld, Live
<1>6. SeenStored'
  <2>1. \A c \in Clients : login'[c] # Null => \A j \in login'[c].seen : session'[j] # Null
    BY <1>2 DEF SInv, SeenStored
  <2>2. \A b \in Accounts : change'[b] # Null => \A j \in change'[b] : session'[j] # Null
    <3>1. \A b \in Accounts : change'[b] = IF b = a THEN ActiveSessions(a) ELSE change[b]
      BY <1>2 DEF SInv, SessionsTypeOK
    <3> QED BY <1>2, <1>3, <3>1 DEF SInv, SeenStored
  <2> QED BY <2>1, <2>2 DEF SeenStored
<1> QED BY <1>4, <1>5, <1>6 DEF SInv

\* It ends those it has found.
LEMMA ChangeCommitKeeps ==
  ASSUME SInv, NEW a \in Accounts, ChangeCommit(a)
  PROVE  SInv'
<1>1. /\ session' = Revoke(change[a]) /\ change' = [change EXCEPT ![a] = Null]
      /\ UNCHANGED <<attempts, login, busy>> /\ change[a] # Null
      /\ account' = [account EXCEPT ![a] = [account[a] EXCEPT !.password = @ + 1, !.must = FALSE]]
  BY DEF ChangeCommit
<1>2. change[a] \in SUBSET Sessions /\ \A i \in change[a] : session[i] # Null
  BY <1>1 DEF SInv, SessionsTypeOK, SeenStored
<1>3. [account[a] EXCEPT !.password = @ + 1, !.must = FALSE] \in AccountRows
  <2>1. account[a] \in AccountRows
    BY DEF SInv, SessionsTypeOK
  <2>2. account[a].password \in Nat /\ account[a].active \in BOOLEAN
    BY <2>1 DEF AccountRows
  <2>3. account[a].password + 1 \in Nat
    BY <2>2
  <2> QED BY <2>1, <2>2, <2>3 DEF AccountRows
<1>4. account' \in [Accounts -> AccountRows]
  BY <1>1, <1>3 DEF SInv, SessionsTypeOK
<1>5. Fewer /\ change' \in [Accounts -> (SUBSET Sessions) \cup {Null}]
  BY <1>1 DEF Fewer, SInv, SessionsTypeOK
<1> QED BY <1>1, <1>2, <1>4, <1>5, RevokingKeeps DEF SInv, SessionsTypeOK

\* Steps that leave sessions, attempts, logins and changes alone.
\* Requests that write the account alone.
LEMMA AccountKeeps ==
  ASSUME SInv, NEW a \in Accounts, ResetPassword(a) \/ ToggleActive(a) \/ ExamBinds(a)
  PROVE  SInv'
<1>1. UNCHANGED <<session, attempts, login, change>>
  BY DEF ResetPassword, ToggleActive, ExamBinds
<1>2. account' \in [Accounts -> AccountRows] /\ busy' \in SUBSET Accounts
  <2>1. account[a] \in AccountRows
    BY DEF SInv, SessionsTypeOK
  <2>2. /\ [account[a] EXCEPT !.password = @ + 1, !.must = TRUE] \in AccountRows
        /\ [account[a] EXCEPT !.active = ~@] \in AccountRows
    <3>1. account[a].password \in Nat /\ account[a].active \in BOOLEAN
      BY <2>1 DEF AccountRows
    <3>2. account[a].password + 1 \in Nat /\ (~account[a].active) \in BOOLEAN
      BY <3>1
    <3> QED BY <2>1, <3>2 DEF AccountRows
  <2>3. CASE ResetPassword(a)
    BY <2>2, <2>3 DEF ResetPassword, SInv, SessionsTypeOK
  <2>4. CASE ToggleActive(a)
    BY <2>2, <2>4 DEF ToggleActive, SInv, SessionsTypeOK
  <2>5. CASE ExamBinds(a)
    BY <2>5 DEF ExamBinds, SInv, SessionsTypeOK
  <2> QED BY <2>3, <2>4, <2>5
<1>3. SessionsTypeOK'
  BY <1>1, <1>2 DEF SInv, SessionsTypeOK
<1> QED BY <1>1, <1>3, NothingElse, SameSessions, ShrinkKeeps, RowsHeldStay DEF SInv

-----------------------------------------------------------------------------
(* Logins.                                                                 *)

\* A login changes or begins; it stores what SeenAll and InTurn ask of it.
LEMMA LoginStepKeeps ==
  ASSUME SInv, NEW c \in Clients, NEW l \in Logins \cup {Null},
         login' = [login EXCEPT ![c] = l],
         UNCHANGED <<account, session, attempts, change, busy>>,
         l # Null /\ l.locked =>
           /\ l.seen = ActiveSessions(l.account)
           /\ \A o \in Clients \ {c} :
                login[o] # Null /\ login[o].account = l.account => ~login[o].locked,
         l # Null => l.seen = {} \/ l.seen = ActiveSessions(l.account),
         l # Null /\ l.row # 0 =>
           /\ l.row \in 1..Len(attempts[l.account])
           /\ l.loaded \in AttemptRows /\ l.loaded.blocked # "until"
           /\ l.loaded.blocked = "past" => attempts[l.account][l.row].blocked = "past"
  PROVE  SInv'
<1>1. login'[c] = l /\ \A o \in Clients : o # c => login'[o] = login[o]
  BY DEF SInv, SessionsTypeOK
<1>2. SessionsTypeOK'
  BY DEF SInv, SessionsTypeOK
<1>3. InTurn'
  <2>1. ASSUME NEW d \in Clients, NEW o \in Clients,
               login'[d] # Null, login'[d].locked,
               login'[o] # Null, login'[o].locked, login'[o].account = login'[d].account
        PROVE  o = d
    <3>1. CASE d # c /\ o # c
      BY <1>1, <2>1, <3>1 DEF SInv, InTurn
    <3>2. CASE d = c
      BY <1>1, <2>1, <3>2
    <3>3. CASE o = c
      BY <1>1, <2>1, <3>3
    <3> QED BY <3>1, <3>2, <3>3
  <2> QED BY <2>1 DEF InTurn
<1>4. SeenAll'
  <2>1. ASSUME NEW d \in Clients, login'[d] # Null, login'[d].locked, NEW i \in Sessions,
               Live(i), session[i].account = login'[d].account
        PROVE  i \in login'[d].seen
    <3>1. CASE d # c
      BY <1>1, <2>1, <3>1 DEF SInv, SeenAll
    <3>2. CASE d = c
      BY <1>1, <2>1, <3>2 DEF ActiveSessions
    <3> QED BY <3>1, <3>2
  <2>2. \A i \in Sessions : Live(i)' = Live(i) /\ session'[i] = session[i]
    BY DEF Live
  <2> QED BY <2>1, <2>2 DEF SeenAll
<1>5. SeenStored'
  <2>1. ASSUME NEW d \in Clients, login'[d] # Null, NEW i \in login'[d].seen
        PROVE  session[i] # Null
    <3>1. CASE d # c
      BY <1>1, <2>1, <3>1 DEF SInv, SeenStored
    <3>2. CASE d = c
      BY <1>1, <2>1, <3>2 DEF ActiveSessions, Live
    <3> QED BY <3>1, <3>2
  <2> QED BY <2>1 DEF SInv, SeenStored
<1>6. RowsHeld'
  <2>1. ASSUME NEW d \in Clients, login'[d] # Null, login'[d].row # 0
        PROVE  /\ login'[d].row \in 1..Len(attempts[login'[d].account])
               /\ login'[d].loaded \in AttemptRows /\ login'[d].loaded.blocked # "until"
               /\ login'[d].loaded.blocked = "past" =>
                    attempts[login'[d].account][login'[d].row].blocked = "past"
    <3>1. CASE d # c
      BY <1>1, <2>1, <3>1 DEF SInv, RowsHeld
    <3>2. CASE d = c
      BY <1>1, <2>1, <3>2
    <3> QED BY <3>1, <3>2
  <2> QED BY <2>1 DEF RowsHeld
<1>7. OneSession'
  BY DEF SInv, OneSession, Live
<1> QED BY <1>2, <1>3, <1>4, <1>5, <1>6, <1>7 DEF SInv

\* The rows of login_attempts of an account.
LEMMA RowType ==
  ASSUME SessionsTypeOK, NEW a \in Accounts
  PROVE  /\ attempts[a] \in Seq(AttemptRows) /\ Len(attempts[a]) \in Nat
         /\ \A r \in 1..Len(attempts[a]) : attempts[a][r] \in AttemptRows
  BY DEF SessionsTypeOK

\* A login that begins has read a row that is not locked out.
LEMMA LoginBeginKeeps ==
  ASSUME SInv, NEW c \in Clients, NEW a \in Accounts, NEW right \in BOOLEAN,
         NEW row \in 0..Len(attempts[a]), LoginBegin(c, a, right, row)
  PROVE  SInv'
<1> DEFINE l == [account |-> a, right |-> right, row |-> row, locked |-> FALSE,
                 loaded |-> IF row = 0 THEN Null ELSE attempts[a][row],
                 seen |-> {}, password |-> account[a].password]
<1>1. row \in Nat /\ (row # 0 => attempts[a][row] \in AttemptRows)
  BY RowType DEF SInv
<1>2. account[a].password \in Nat
  BY DEF SInv, SessionsTypeOK, AccountRows
<1>3. l \in Logins
  BY <1>1, <1>2 DEF Logins
<1>4. row # 0 => /\ row \in 1..Len(attempts[a]) /\ attempts[a][row] \in AttemptRows
                 /\ attempts[a][row].blocked # "until"
  BY <1>1, RowType DEF LoginBegin, SInv
<1>5. /\ login' = [login EXCEPT ![c] = l]
      /\ UNCHANGED <<account, session, attempts, change, busy>>
  BY DEF LoginBegin
<1>6. /\ l.locked = FALSE /\ l.seen = {} /\ l.row = row /\ l.account = a
      /\ row # 0 => l.loaded = attempts[a][row]
  OBVIOUS
<1> HIDE DEF l
<1> QED BY <1>3, <1>4, <1>5, <1>6, LoginStepKeeps

\* A login that stores last_login finds every live session of the account.
LEMMA LoginLocksKeeps ==
  ASSUME SInv, NEW c \in Clients, LoginLocks(c)
  PROVE  SInv'
<1> DEFINE a == login[c].account
           l == [login[c] EXCEPT !.locked = TRUE, !.seen = ActiveSessions(a)]
<1>1. login[c] # Null /\ login[c] \in Logins /\ AccountFree(a)
  BY DEF LoginLocks, SInv, SessionsTypeOK
<1>2. /\ l \in Logins /\ l.seen = ActiveSessions(a) /\ l.account = a /\ l.row = login[c].row
      /\ l.loaded = login[c].loaded
  BY <1>1, ActiveStored DEF Logins
<1>3. /\ login' = [login EXCEPT ![c] = Null] \/ login' = [login EXCEPT ![c] = l]
      /\ UNCHANGED <<account, session, attempts, change, busy>>
  BY DEF LoginLocks
<1>4. \A o \in Clients \ {c} : login[o] # Null /\ login[o].account = a => ~login[o].locked
  BY <1>1 DEF AccountFree
<1>5. login[c].row # 0 =>
        /\ login[c].row \in 1..Len(attempts[a])
        /\ login[c].loaded \in AttemptRows /\ login[c].loaded.blocked # "until"
        /\ login[c].loaded.blocked = "past" => attempts[a][login[c].row].blocked = "past"
  BY <1>1 DEF SInv, RowsHeld
<1> HIDE DEF a, l
<1>6. CASE login' = [login EXCEPT ![c] = Null]
  BY <1>3, <1>6, LoginStepKeeps
<1>7. CASE login' = [login EXCEPT ![c] = l]
  BY <1>2, <1>3, <1>4, <1>5, <1>7, LoginStepKeeps
<1> QED BY <1>3, <1>6, <1>7

\* A login whose client or worker is gone leaves nothing behind.
LEMMA LoginDiesKeeps ==
  ASSUME SInv, NEW c \in Clients, LoginDies(c)
  PROVE  SInv'
  BY LoginStepKeeps DEF LoginDies

Written(a, r, row) == [attempts EXCEPT ![a] = [attempts[a] EXCEPT ![r] = row]]

\* Writing one row of login_attempts leaves the others.
LEMMA RowWritten ==
  ASSUME SessionsTypeOK, NEW a \in Accounts, NEW r \in 1..Len(attempts[a]),
         NEW row \in AttemptRows
  PROVE  /\ Written(a, r, row) \in [Accounts -> Seq(AttemptRows)]
         /\ \A b \in Accounts : Len(Written(a, r, row)[b]) = Len(attempts[b])
         /\ Written(a, r, row)[a][r] = row
         /\ \A b \in Accounts : \A q \in 1..Len(attempts[b]) :
              b # a \/ q # r => Written(a, r, row)[b][q] = attempts[b][q]
<1> DEFINE rows == [attempts[a] EXCEPT ![r] = row]
<1>1. /\ rows \in Seq(AttemptRows) /\ Len(rows) = Len(attempts[a])
      /\ \A q \in 1..Len(attempts[a]) : rows[q] = IF q = r THEN row ELSE attempts[a][q]
  BY RowType, ExceptSeq
<1> HIDE DEF rows
<1>2. Written(a, r, row) = [attempts EXCEPT ![a] = rows]
  BY DEF Written, rows
<1>3. /\ Written(a, r, row)[a] = rows
      /\ \A b \in Accounts : b # a => Written(a, r, row)[b] = attempts[b]
  BY <1>2 DEF SessionsTypeOK
<1> QED BY <1>1, <1>2, <1>3 DEF SessionsTypeOK

\* What a login writes to the row of attempts that it has loaded.
LEMMA Saved ==
  ASSUME SInv, NEW c \in Clients, login[c] # Null, login[c].row # 0,
         NEW new \in AttemptRows, SaveAttempt(c, new)
  PROVE  LET a == login[c].account
             r == login[c].row
         IN /\ a \in Accounts /\ r \in 1..Len(attempts[a])
            /\ attempts' \in [Accounts -> Seq(AttemptRows)]
            /\ \A b \in Accounts : Len(attempts'[b]) = Len(attempts[b])
            /\ attempts'[a][r].blocked \in {attempts[a][r].blocked, new.blocked}
            /\ new.blocked = login[c].loaded.blocked =>
                 attempts'[a][r].blocked = attempts[a][r].blocked
            /\ \A b \in Accounts : \A q \in 1..Len(attempts[b]) :
                 b # a \/ q # r => attempts'[b][q] = attempts[b][q]
<1>1. login[c].account \in Accounts /\ login[c].loaded \in AttemptRows
  BY DEF SInv, SessionsTypeOK, Logins, RowsHeld
<1>2. PICK a \in Accounts : a = login[c].account
  BY <1>1
<1>3. PICK r \in 1..Len(attempts[a]) : r = login[c].row
  BY <1>2 DEF SInv, RowsHeld
<1>4. attempts[a][r] \in AttemptRows
  BY RowType DEF SInv
<1>5. PICK row \in AttemptRows : row = Flushed(attempts[a][r], login[c].loaded, new)
  BY <1>1, <1>4 DEF Flushed, AttemptRows
<1>6. /\ row.blocked \in {attempts[a][r].blocked, new.blocked}
      /\ new.blocked = login[c].loaded.blocked => row.blocked = attempts[a][r].blocked
  BY <1>5 DEF Flushed
<1>7. attempts' = Written(a, r, row)
  BY <1>2, <1>3, <1>5 DEF SaveAttempt, Written
<1>8. /\ attempts' \in [Accounts -> Seq(AttemptRows)]
      /\ \A b \in Accounts : Len(attempts'[b]) = Len(attempts[b])
      /\ attempts'[a][r] = row
      /\ \A b \in Accounts : \A q \in 1..Len(attempts[b]) :
           b # a \/ q # r => attempts'[b][q] = attempts[b][q]
  <2>1. SessionsTypeOK
    BY DEF SInv
  <2>2. /\ Written(a, r, row) \in [Accounts -> Seq(AttemptRows)]
        /\ \A b \in Accounts : Len(Written(a, r, row)[b]) = Len(attempts[b])
        /\ Written(a, r, row)[a][r] = row
        /\ \A b \in Accounts : \A q \in 1..Len(attempts[b]) :
             b # a \/ q # r => Written(a, r, row)[b][q] = attempts[b][q]
    BY <2>1, RowWritten
  <2> QED BY <1>7, <2>2
<1> QED BY <1>2, <1>3, <1>6, <1>8

\* What the others hold of the attempts survives a login that ends.
LEMMA OthersHold ==
  ASSUME SInv, NEW c \in Clients, login' = [login EXCEPT ![c] = Null],
         \A b \in Accounts : Len(attempts'[b]) \in Nat /\ Len(attempts[b]) <= Len(attempts'[b]),
         \A o \in Clients \ {c} :
           login[o] # Null /\ login[o].row # 0 /\ login[o].loaded.blocked = "past" =>
             attempts'[login[o].account][login[o].row].blocked = "past"
  PROVE  RowsHeld'
<1>1. ASSUME NEW o \in Clients, login'[o] # Null, login'[o].row # 0
      PROVE  /\ login'[o].row \in 1..Len(attempts'[login'[o].account])
             /\ login'[o].loaded \in AttemptRows /\ login'[o].loaded.blocked # "until"
             /\ login'[o].loaded.blocked = "past" =>
                  attempts'[login'[o].account][login'[o].row].blocked = "past"
  <2>1. o # c /\ login'[o] = login[o]
    BY <1>1 DEF SInv, SessionsTypeOK
  <2>2. login[o].account \in Accounts
    BY <1>1, <2>1 DEF SInv, SessionsTypeOK, Logins
  <2>3. /\ login[o].row \in 1..Len(attempts[login[o].account])
        /\ login[o].loaded \in AttemptRows /\ login[o].loaded.blocked # "until"
    BY <1>1, <2>1 DEF SInv, RowsHeld
  <2>4. login[o].row \in 1..Len(attempts'[login[o].account])
    BY <2>2, <2>3, RowType DEF SInv
  <2> QED BY <1>1, <2>1, <2>2, <2>3, <2>4
<1> QED BY <1>1 DEF RowsHeld

\* What a login saves leaves the rows of the other logins as these may expect.
LEMMA SavedHolds ==
  ASSUME SInv, NEW c \in Clients, login[c] # Null, login[c].row # 0,
         NEW new \in AttemptRows, SaveAttempt(c, new),
         login' = [login EXCEPT ![c] = Null]
  PROVE  RowsHeld' /\ attempts' \in [Accounts -> Seq(AttemptRows)]
<1> DEFINE a == login[c].account
           r == login[c].row
<1>1. /\ a \in Accounts /\ r \in 1..Len(attempts[a])
      /\ attempts' \in [Accounts -> Seq(AttemptRows)]
      /\ \A b \in Accounts : Len(attempts'[b]) = Len(attempts[b])
      /\ \A b \in Accounts : \A q \in 1..Len(attempts[b]) :
           b # a \/ q # r => attempts'[b][q] = attempts[b][q]
  BY Saved
<1>2. RowFree(c, a, r)
  BY DEF SaveAttempt
<1>3. ASSUME NEW o \in Clients \ {c}, login[o] # Null, login[o].row # 0,
             login[o].loaded.blocked = "past"
      PROVE  attempts'[login[o].account][login[o].row].blocked = "past"
  <2>1. login[o].account # a \/ login[o].row # r
    BY <1>2, <1>3 DEF RowFree
  <2>2. /\ login[o].row \in 1..Len(attempts[login[o].account])
        /\ attempts[login[o].account][login[o].row].blocked = "past"
        /\ login[o].account \in Accounts
    BY <1>3 DEF SInv, RowsHeld, SessionsTypeOK, Logins
  <2> QED BY <1>1, <2>1, <2>2
<1>4. \A b \in Accounts : Len(attempts'[b]) \in Nat /\ Len(attempts[b]) <= Len(attempts'[b])
  BY <1>1, RowType DEF SInv
<1> HIDE DEF a, r
<1> QED BY <1>1, <1>3, <1>4, OthersHold

\* A wrong password counts, and the row is created with the first.
LEMMA LoginFailsKeeps ==
  ASSUME SInv, NEW c \in Clients, LoginFails(c)
  PROVE  SInv'
<1> DEFINE l == login[c]
           n == (IF l.loaded.blocked = "past" THEN 0 ELSE l.loaded.count) + 1
           new == [count |-> n, blocked |-> IF n >= Threshold THEN "until"
                                            ELSE IF l.loaded.blocked = "past" THEN "no"
                                            ELSE l.loaded.blocked]
<1>1. l # Null /\ l \in Logins /\ login' = [login EXCEPT ![c] = Null]
  BY DEF LoginFails, SInv, SessionsTypeOK
<1>2. UNCHANGED <<account, session, change, busy>>
  BY DEF LoginFails
<1>3. RowsHeld' /\ attempts' \in [Accounts -> Seq(AttemptRows)]
  <2>1. CASE l.row = 0
    <3> DEFINE row == [count |-> 1, blocked |-> "no"]
               a == l.account
    <3>1. attempts' = [attempts EXCEPT ![a] = Append(attempts[a], row)]
      BY <2>1 DEF LoginFails
    <3>2. row \in AttemptRows /\ a \in Accounts
      BY <1>1 DEF AttemptRows, Logins
    <3> HIDE DEF l, row, a
    <3>3. \A b \in Accounts : attempts[b] \in Seq(AttemptRows) /\ Len(attempts[b]) \in Nat
      BY RowType DEF SInv
    <3>4. /\ Append(attempts[a], row) \in Seq(AttemptRows)
          /\ Len(Append(attempts[a], row)) = Len(attempts[a]) + 1
          /\ \A q \in 1..Len(attempts[a]) : Append(attempts[a], row)[q] = attempts[a][q]
      BY <3>2, <3>3, AppendProperties
    <3>5. attempts' \in [Accounts -> Seq(AttemptRows)]
      BY <3>1, <3>4 DEF SInv, SessionsTypeOK
    <3>6. /\ attempts'[a] = Append(attempts[a], row)
          /\ \A b \in Accounts : b # a => attempts'[b] = attempts[b]
      BY <3>1, <3>2 DEF SInv, SessionsTypeOK
    <3>7. /\ \A b \in Accounts : Len(attempts'[b]) \in Nat /\ Len(attempts[b]) <= Len(attempts'[b])
          /\ \A b \in Accounts : \A q \in 1..Len(attempts[b]) : attempts'[b][q] = attempts[b][q]
      BY <3>3, <3>4, <3>6
    <3>8. ASSUME NEW o \in Clients \ {c}, login[o] # Null, login[o].row # 0,
                 login[o].loaded.blocked = "past"
          PROVE  attempts'[login[o].account][login[o].row].blocked = "past"
      <4>1. /\ login[o].row \in 1..Len(attempts[login[o].account])
            /\ attempts[login[o].account][login[o].row].blocked = "past"
            /\ login[o].account \in Accounts
        BY <3>8 DEF SInv, RowsHeld, SessionsTypeOK, Logins
      <4> QED BY <3>7, <4>1
    <3> QED BY <1>1, <3>5, <3>7, <3>8, OthersHold
  <2>2. CASE l.row # 0
    <3>1. l.loaded \in AttemptRows
      BY <1>1, <2>2 DEF SInv, RowsHeld
    <3>2. n \in Nat
      BY <3>1 DEF AttemptRows
    <3>3. new \in AttemptRows
      <4> HIDE DEF n, l
      <4> QED BY <3>1, <3>2 DEF AttemptRows
    <3>4. SaveAttempt(c, new)
      BY <2>2 DEF LoginFails
    <3> HIDE DEF new
    <3> QED BY <1>1, <2>2, <3>3, <3>4, SavedHolds
  <2> QED BY <2>1, <2>2
<1>4. Fewer
  BY <1>1, <1>2 DEF Fewer, SInv, SessionsTypeOK
<1>5. SessionsTypeOK'
  BY <1>1, <1>2, <1>3 DEF SInv, SessionsTypeOK
<1> QED BY <1>2, <1>3, <1>4, <1>5, SameSessions, ShrinkKeeps DEF SInv

\* The time of a lock-out is over.
LEMMA LockoutEndsKeeps ==
  ASSUME SInv, NEW a \in Accounts, NEW r \in 1..Len(attempts[a]), LockoutEnds(a, r)
  PROVE  SInv'
<1> DEFINE row == [attempts[a][r] EXCEPT !.blocked = "past"]
<1>1. attempts[a][r] \in AttemptRows
  BY RowType DEF SInv
<1>2. row \in AttemptRows /\ row.blocked = "past"
  BY <1>1 DEF AttemptRows
<1>3. attempts' = Written(a, r, row)
  BY DEF LockoutEnds, Written
<1>4. UNCHANGED <<account, session, login, change, busy>>
  BY DEF LockoutEnds
<1> HIDE DEF row
<1>5. /\ attempts' \in [Accounts -> Seq(AttemptRows)]
      /\ \A b \in Accounts : Len(attempts'[b]) = Len(attempts[b])
      /\ attempts'[a][r] = row
      /\ \A b \in Accounts : \A q \in 1..Len(attempts[b]) :
           b # a \/ q # r => attempts'[b][q] = attempts[b][q]
  BY <1>2, <1>3, RowWritten DEF SInv
<1>6. SessionsTypeOK'
  BY <1>4, <1>5 DEF SInv, SessionsTypeOK
<1>7. RowsHeld'
  <2>1. ASSUME NEW o \in Clients, login[o] # Null, login[o].row # 0
        PROVE  /\ login[o].row \in 1..Len(attempts'[login[o].account])
               /\ login[o].loaded \in AttemptRows /\ login[o].loaded.blocked # "until"
               /\ login[o].loaded.blocked = "past" =>
                    attempts'[login[o].account][login[o].row].blocked = "past"
    <3>1. login[o].account \in Accounts
      BY <2>1 DEF SInv, SessionsTypeOK, Logins
    <3>2. /\ login[o].row \in 1..Len(attempts[login[o].account])
          /\ login[o].loaded \in AttemptRows /\ login[o].loaded.blocked # "until"
          /\ login[o].loaded.blocked = "past" =>
               attempts[login[o].account][login[o].row].blocked = "past"
      BY <2>1 DEF SInv, RowsHeld
    <3> QED BY <1>2, <1>5, <3>1, <3>2
  <2> QED BY <1>4, <2>1 DEF RowsHeld
<1> QED BY <1>4, <1>6, <1>7, NothingElse, SameSessions, ShrinkKeeps DEF SInv

\* A login ends the sessions it has found and opens one: the only live one of
\* a student, since no other login of the account was beyond last_login.
LEMMA LoginCommitsKeeps ==
  ASSUME SInv, NEW c \in Clients, NEW i \in Sessions, LoginCommits(c, i)
  PROVE  SInv'
<1>1. /\ login[c] # Null /\ login[c] \in Logins /\ login[c].locked /\ session[i] = Null
      /\ login' = [login EXCEPT ![c] = Null] /\ UNCHANGED <<account, change, busy>>
  BY DEF LoginCommits, SInv, SessionsTypeOK
<1> DEFINE l == login[c]
           old == Revoke(Replaced(c))
           new == [account |-> l.account, gen |-> 0, password |-> l.password,
                   revoked |-> FALSE, expired |-> FALSE, idle |-> FALSE]
<1>2. new \in SessionRows /\ new.account = l.account
  BY <1>1 DEF SessionRows, Logins
<1>3. /\ old = [j \in Sessions |-> old[j]]
      /\ \A j \in Sessions :
           old[j] = IF j \in Replaced(c) THEN [session[j] EXCEPT !.revoked = TRUE] ELSE session[j]
  BY DEF Revoke
<1>4. Replaced(c) \in SUBSET Sessions /\ \A j \in Replaced(c) : session[j] # Null
  BY <1>1 DEF Replaced, Logins, SInv, SeenStored
<1>5. session' = [old EXCEPT ![i] = new]
  BY DEF LoginCommits
<1> HIDE DEF new, old
<1>6. session'[i] = new /\ \A j \in Sessions : j # i => session'[j] = old[j]
  BY <1>3, <1>5
<1>7. ASSUME NEW j \in Sessions, j # i
      PROVE  /\ session'[j] \in SessionRows \cup {Null}
             /\ session[j] # Null => session'[j] # Null
             /\ Live(j)' => /\ Live(j) /\ session'[j].account = session[j].account
                            /\ j \notin Replaced(c)
  <2>1. CASE j \in Replaced(c)
    <3>1. session[j] \in SessionRows
      BY <1>4, <2>1 DEF SInv, SessionsTypeOK
    <3>2. session'[j] = [session[j] EXCEPT !.revoked = TRUE]
      BY <1>3, <1>6, <1>7, <2>1
    <3>3. session'[j] \in SessionRows /\ session'[j].revoked
      BY <3>1, <3>2 DEF SessionRows
    <3> QED BY <3>3, SessionRowsAssumption DEF Live
  <2>2. CASE j \notin Replaced(c)
    <3>1. session'[j] = session[j]
      BY <1>3, <1>6, <1>7, <2>2
    <3> QED BY <3>1, <2>2 DEF Live, SInv, SessionsTypeOK
  <2> QED BY <2>1, <2>2
<1>8. session' \in [Sessions -> SessionRows \cup {Null}]
  <2>1. session' = [j \in Sessions |-> session'[j]]
    BY <1>3, <1>5
  <2> QED BY <1>2, <1>6, <1>7, <2>1
<1>9. RowsHeld' /\ attempts' \in [Accounts -> Seq(AttemptRows)]
  <2>1. CASE login[c].row = 0
    <3>1. UNCHANGED attempts
      BY <2>1 DEF LoginCommits
    <3>2. Fewer
      BY <1>1 DEF Fewer, SInv, SessionsTypeOK
    <3> QED BY <3>1, <3>2, RowsHeldStay DEF SInv, SessionsTypeOK
  <2>2. CASE login[c].row # 0
    <3>1. SaveAttempt(c, [count |-> 0, blocked |-> "no"])
      BY <2>2 DEF LoginCommits
    <3>2. [count |-> 0, blocked |-> "no"] \in AttemptRows
      BY DEF AttemptRows
    <3> QED BY <1>1, <2>2, <3>1, <3>2, SavedHolds
  <2> QED BY <2>1, <2>2
<1>10. SessionsTypeOK'
  BY <1>1, <1>8, <1>9 DEF SInv, SessionsTypeOK
<1>11. \A o \in Clients : login'[o] # Null => o # c /\ login'[o] = login[o] /\ login[o] # Null
  BY <1>1 DEF SInv, SessionsTypeOK
<1>12. InTurn'
  BY <1>11 DEF SInv, InTurn
<1>13. SeenAll'
  <2>1. ASSUME NEW o \in Clients, login'[o] # Null, login'[o].locked, NEW j \in Sessions,
               Live(j)', session'[j].account = login'[o].account
        PROVE  j \in login'[o].seen
    <3>1. o # c /\ login'[o] = login[o] /\ login[o] # Null /\ login[o].locked
      BY <1>11, <2>1
    <3>2. login[o].account # l.account
      BY <1>1, <3>1 DEF SInv, InTurn
    <3>3. j # i
      BY <1>2, <1>6, <2>1, <3>1, <3>2
    <3>4. Live(j) /\ session[j].account = login[o].account
      BY <1>7, <2>1, <3>1, <3>3
    <3> HIDE DEF Live
    <3> QED BY <3>1, <3>4 DEF SInv, SeenAll
  <2> QED BY <2>1 DEF SeenAll
<1>14. SeenStored'
  <2>1. \A j \in Sessions : session[j] # Null => session'[j] # Null
    BY <1>1, <1>7
  <2>2. \A o \in Clients : login'[o] # Null => \A j \in login'[o].seen : session'[j] # Null
    BY <1>11, <2>1 DEF SInv, SeenStored, SessionsTypeOK, Logins
  <2>3. \A a \in Accounts : change'[a] # Null => \A j \in change'[a] : session'[j] # Null
    BY <1>1, <2>1 DEF SInv, SeenStored, SessionsTypeOK
  <2> QED BY <2>2, <2>3 DEF SeenStored
<1>15. OneSession'
  <2>1. ASSUME NEW j \in Sessions, j # i, Live(j)', session'[j].account = l.account
        PROVE  Role[l.account] # "STUDENT"
    <3>1. Live(j) /\ session[j].account = l.account /\ j \notin Replaced(c)
      BY <1>7, <2>1
    <3>2. j \in l.seen
      BY <1>1, <3>1 DEF SInv, SeenAll
    <3> QED BY <3>1, <3>2 DEF Replaced
  <2>2. ASSUME NEW j \in Sessions, NEW o \in Sessions, Live(j)', Live(o)',
               session'[j].account = session'[o].account,
               Role[session'[j].account] = "STUDENT"
        PROVE  j = o
    <3>1. CASE j # i /\ o # i
      <4>1. /\ Live(j) /\ session'[j].account = session[j].account
            /\ Live(o) /\ session'[o].account = session[o].account
        BY <1>7, <2>2, <3>1
      <4> HIDE DEF Live
      <4> QED BY <2>2, <4>1 DEF SInv, OneSession
    <3>2. CASE j = i /\ o # i
      BY <1>2, <1>6, <2>1, <2>2, <3>2
    <3>3. CASE j # i /\ o = i
      BY <1>2, <1>6, <2>1, <2>2, <3>3
    <3> QED BY <3>1, <3>2, <3>3
  <2> QED BY <2>2 DEF OneSession
<1> QED BY <1>9, <1>10, <1>12, <1>13, <1>14, <1>15 DEF SInv

-----------------------------------------------------------------------------
(* Every step is one of Licensing or one of UserSessions.                  *)

SessionsNext ==
  \/ \E c \in Clients, a \in Accounts, right \in BOOLEAN :
       \E row \in 0..Len(attempts[a]) : LoginBegin(c, a, right, row)
  \/ \E c \in Clients : LoginFails(c) \/ LoginLocks(c) \/ LoginDies(c)
  \/ \E c \in Clients, i \in Sessions : LoginCommits(c, i)
  \/ \E a \in Accounts : \E r \in 1..Len(attempts[a]) : LockoutEnds(a, r)
  \/ \E i \in Sessions, g \in 0..MaxGen : Refresh(i, g)
  \/ \E i, o \in Sessions : IdleTimeout(i) \/ Logout(i) \/ LogoutAll(i) \/ RevokeSession(i, o)
  \/ \E i \in Sessions : ChangeBegin(i) \/ GoIdle(i) \/ Expire(i)
  \/ \E a \in Accounts : \/ ChangeCommit(a) \/ ExamBinds(a) \/ DeviceReset(a)
                         \/ ClearSessions(a) \/ ResetPassword(a) \/ ToggleActive(a)

\* A step is one of Licensing or one of the sessions.
LEMMA EitherSide ==
  ASSUME Next
  PROVE  \/ LicensingNext /\ UNCHANGED sessionVars
         \/ SessionsNext /\ UNCHANGED licensingVars
<1>1. CASE LicenseRequests
  BY <1>1 DEF LicenseRequests, PostKeys, CancelKeyEndpoint, ActivateEndpoint, PostRenewals,
     ProcessEndpoint, ToggleEndpoint, Commit, LicensingNext
<1>2. CASE SchoolRequests
  BY <1>2 DEF SchoolRequests, PostSchools, PutSchool, PatchSchool, DeleteEndpoint, LicensingNext
<1>3. CASE Logons
  BY <1>3 DEF Logons, SessionsNext
<1>4. CASE SessionRequests
  BY <1>4 DEF SessionRequests, SessionsNext
<1>5. CASE MemberRequests
  BY <1>5 DEF MemberRequests, ResetAdminPassword, ResetMemberPassword, ToggleMember,
     ClearEndpoint, SessionsNext
<1> QED BY <1>1, <1>2, <1>3, <1>4, <1>5 DEF Next

\* There are no sessions at first.
LEMMA SessionsStart ==
  ASSUME SessionsInit
  PROVE  SInv
<1>1. account \in [Accounts -> AccountRows]
  BY DEF SessionsInit, AccountRows
<1>2. \A a \in Accounts : attempts[a] = <<>> /\ <<>> \in Seq(AttemptRows)
  BY DEF SessionsInit
<1>3. SessionsTypeOK
  BY <1>1, <1>2 DEF SessionsInit, SessionsTypeOK
<1> QED BY <1>3 DEF SessionsInit, SInv, InTurn, SeenAll, SeenStored, RowsHeld, OneSession, Live

\* Every step of the sessions keeps their invariant.
LEMMA SessionsKeep ==
  ASSUME SInv, SessionsNext
  PROVE  SInv'
  BY LoginBeginKeeps, LoginFailsKeeps, LoginLocksKeeps, LoginDiesKeeps, LoginCommitsKeeps,
     LockoutEndsKeeps, RefreshKeeps, EndingKeeps, ChangeBeginKeeps, ColumnKeeps,
     ChangeCommitKeeps, ResetKeeps, AccountKeeps
  DEF SessionsNext

\* And so does a step that is none of theirs.
LEMMA SessionsRest ==
  ASSUME SInv, UNCHANGED sessionVars
  PROVE  SInv'
<1>1. UNCHANGED <<account, session, attempts, login, change, busy>>
  BY DEF sessionVars
<1>2. SessionsTypeOK'
  BY <1>1 DEF SInv, SessionsTypeOK
<1>3. RowsHeld' /\ SeenStored'
  BY <1>1 DEF SInv, RowsHeld, SeenStored
<1>4. SeenAll' /\ OneSession'
  BY <1>1 DEF SInv, SeenAll, OneSession, Live
<1>5. InTurn'
  BY <1>1 DEF SInv, InTurn
<1> QED BY <1>2, <1>3, <1>4, <1>5 DEF SInv

-----------------------------------------------------------------------------
(* Suspension.                                                             *)

\* Nobody of a suspended school gets an activation under way.
Admissions ==
  \A c \in Clerks : work[c] # Null /\ work[c].op = "activate" => work[c].was # "SUSPENDED"

AInv == LInv /\ SInv /\ Admissions

\* A request other than an activation begins.
LEMMA BegunBy ==
  ASSUME AInv, NEW c \in Clerks, NEW op, op # "activate", NEW s, NEW k, NEW r,
         NEW found, NEW was, Begin(c, op, s, k, r, found, was)
  PROVE  Admissions'
<1>1. /\ work'[c].op = op
      /\ \A o \in Clerks : o # c => work'[o] = work[o]
  BY DEF Begin, AInv, LInv, LicensingTypeOK
<1> QED BY <1>1 DEF Admissions, AInv

\* An activation begins only at a school that is not suspended.
LEMMA AdmissionsKeep ==
  ASSUME AInv, Next
  PROVE  Admissions'
<1>1. CASE UNCHANGED work
  BY <1>1 DEF AInv, Admissions
<1>2. CASE \E c \in Clerks : Done(c)
  BY <1>2 DEF Done, AInv, Admissions, LInv, LicensingTypeOK
<1>3. ASSUME NEW c \in Clerks, NEW k \in Keys, NEW s \in Schools, ActivateEndpoint(c, k, s)
      PROVE  Admissions'
  <2>1. school[s] # Null /\ ActivateBegin(c, k, s)
    BY <1>3 DEF ActivateEndpoint, ActivateBegin
  <2>2. PICK i \in Sessions : /\ Role[session[i].account] = "ADMIN"
                              /\ SchoolOf[session[i].account] = s
                              /\ Admitted(i, session[i].gen, "license")
    BY <1>3 DEF ActivateEndpoint, ByAdminOf
  <2>3. HasSchool(session[i].account)
    BY <2>1, <2>2, SessionsAssumption DEF HasSchool
  <2>4. school[s].status # "SUSPENDED"
    BY <2>2, <2>3 DEF Admitted, SchoolAdmits
  <2>5. /\ work'[c].was = school[s].status
        /\ \A o \in Clerks : o # c => work'[o] = work[o]
    BY <2>1 DEF ActivateBegin, Begin, AInv, LInv, LicensingTypeOK
  <2> QED BY <2>4, <2>5 DEF Admissions, AInv
<1>4. ASSUME NEW c \in Clerks, NEW k \in Keys, CancelBegin(c, k) PROVE Admissions'
  BY <1>4, BegunBy DEF CancelBegin
<1>5. ASSUME NEW c \in Clerks, NEW r \in Renewals, ProcessBegin(c, r) PROVE Admissions'
  BY <1>5, BegunBy DEF ProcessBegin
<1>6. ASSUME NEW c \in Clerks, NEW s \in Schools, ToggleBegin(c, s) PROVE Admissions'
  BY <1>6, BegunBy DEF ToggleBegin
<1>7. CASE LicenseRequests
  <2>1. \/ UNCHANGED work
        \/ \E c \in Clerks : Done(c)
        \/ \E c \in Clerks, k \in Keys, s \in Schools : ActivateEndpoint(c, k, s)
        \/ \E c \in Clerks, k \in Keys : CancelBegin(c, k)
        \/ \E c \in Clerks, r \in Renewals : ProcessBegin(c, r)
        \/ \E c \in Clerks, s \in Schools : ToggleBegin(c, s)
    BY <1>7 DEF LicenseRequests, PostKeys, GenerateKey, CancelKeyEndpoint, PostRenewals,
       RequestRenewal, ProcessEndpoint, ToggleEndpoint, Commit, CancelCommit, ActivateCommit,
       ProcessCommit, ToggleCommit, Midnight
  <2> QED BY <1>1, <1>2, <1>3, <1>4, <1>5, <1>6, <2>1
<1>8. CASE SchoolRequests
  <2>1. UNCHANGED work
    BY <1>8 DEF SchoolRequests, PostSchools, CreateSchool, PutSchool, PatchSchool,
       UpdateSchool, DeleteEndpoint, DeleteSchool
  <2> QED BY <1>1, <2>1
<1>9. CASE Logons \/ SessionRequests \/ MemberRequests
  <2>1. UNCHANGED work
    BY <1>9 DEF Logons, SessionRequests, MemberRequests, ResetAdminPassword,
       ResetMemberPassword, ToggleMember, ClearEndpoint, licensingVars
  <2> QED BY <1>1, <2>1
<1> QED BY <1>7, <1>8, <1>9 DEF Next

\* What a step of Licensing does to a suspended school.
LEMMA LetGo ==
  ASSUME AInv, LicensingNext, NEW s \in Schools,
         school[s] # Null, school[s].status = "SUSPENDED", school'[s].status # "SUSPENDED"
  PROVE  \E c \in Clerks : /\ work[c] # Null /\ work'[c] = Null /\ work[c].school = s
                           /\ work[c].op \in {"toggle", "activate"}
<1>1. school[s] \in SchoolRows /\ school \in [Schools -> SchoolRows \cup {Null}]
  BY DEF AInv, LInv, LicensingTypeOK
<1>2. school' # school
  OBVIOUS
<1>3. ASSUME NEW o \in Schools, NEW n \in Npsn, NEW k \in Keys, NEW t \in Types,
             CreateSchool(o, n, k, t)
      PROVE  FALSE
  <2>1. o # s
    BY <1>3 DEF CreateSchool
  <2>2. school'[s] = school[s]
    BY <1>1, <1>3, <2>1 DEF CreateSchool
  <2> QED BY <2>2
<1>4. ASSUME NEW o \in Schools, NEW n \in Npsn, NEW active \in BOOLEAN,
             UpdateSchool(o, n, active)
      PROVE  FALSE
  <2>1. school'[s] = IF o = s THEN [school[s] EXCEPT !.npsn = n, !.active = active]
                               ELSE school[s]
    BY <1>1, <1>4 DEF UpdateSchool
  <2> QED BY <1>1, <2>1 DEF SchoolRows
<1>5. ASSUME NEW o \in Schools, DeleteSchool(o)
      PROVE  FALSE
  <2>1. school'[s] = IF o = s THEN [school[s] EXCEPT !.active = FALSE, !.deleted = TRUE]
                               ELSE school[s]
    BY <1>1, <1>5 DEF DeleteSchool
  <2> QED BY <1>1, <2>1 DEF SchoolRows
<1>6. ASSUME NEW c \in Clerks, ToggleCommit(c) \/ ActivateCommit(c)
      PROVE  /\ work[c] # Null /\ work'[c] = Null /\ work[c].school = s
             /\ work[c].op \in {"toggle", "activate"}
  <2>1. /\ work[c] # Null /\ work[c].op \in {"toggle", "activate"}
        /\ work' = [work EXCEPT ![c] = Null]
    BY <1>6 DEF ToggleCommit, ActivateCommit, Done
  <2>2. work'[c] = Null
    BY <2>1 DEF AInv, LInv, LicensingTypeOK
  <2>3. \A o \in Schools : o # work[c].school => school'[o] = school[o]
    BY <1>1, <1>6 DEF ToggleCommit, ActivateCommit, Activate
  <2> QED BY <2>1, <2>2, <2>3
<1>7. \/ \E c \in Clerks : ActivateCommit(c) \/ ToggleCommit(c)
      \/ \E o \in Schools, n \in Npsn, k \in Keys, t \in Types : CreateSchool(o, n, k, t)
      \/ \E o \in Schools, n \in Npsn, active \in BOOLEAN : UpdateSchool(o, n, active)
      \/ \E o \in Schools : DeleteSchool(o)
  BY <1>2 DEF LicensingNext, GenerateKey, CancelBegin, ActivateBegin, RequestRenewal,
     ProcessBegin, ToggleBegin, Begin, CancelCommit, ProcessCommit, Midnight
<1> QED BY <1>3, <1>4, <1>5, <1>6, <1>7

-----------------------------------------------------------------------------
(* Lock-outs.                                                              *)

LEMMA LockedOut ==
  ASSUME SInv, SessionsNext, NEW a \in Accounts, NEW r \in 1..Len(attempts[a]),
         attempts[a][r].blocked = "until"
  PROVE  attempts'[a][r].blocked # "no"
<1>1. CASE UNCHANGED attempts
  BY <1>1
<1>2. ASSUME NEW c \in Clients, login[c] # Null, login[c].row # 0, NEW new \in AttemptRows,
             new.blocked = "no" => \/ login[c].loaded.blocked = "no"
                                   \/ login[c].loaded.blocked = "past",
             SaveAttempt(c, new)
      PROVE  attempts'[a][r].blocked # "no"
  <2>1. PICK b \in Accounts : b = login[c].account
    BY <1>2 DEF SInv, SessionsTypeOK, Logins
  <2>2. PICK q \in Nat : q = login[c].row
    BY <1>2 DEF SInv, SessionsTypeOK, Logins
  <2>3. /\ attempts'[b][q].blocked \in {attempts[b][q].blocked, new.blocked}
        /\ new.blocked = login[c].loaded.blocked =>
             attempts'[b][q].blocked = attempts[b][q].blocked
        /\ b # a \/ q # r => attempts'[a][r] = attempts[a][r]
    BY <1>2, <2>1, <2>2, Saved
  <2>4. CASE b # a \/ q # r
    BY <2>3, <2>4
  <2>5. CASE b = a /\ q = r
    <3>1. login[c].loaded.blocked # "past"
      BY <1>2, <2>1, <2>2, <2>5 DEF SInv, RowsHeld
    <3> QED BY <1>2, <2>3, <2>5, <3>1
  <2> QED BY <2>4, <2>5
<1>3. ASSUME NEW c \in Clients, LoginFails(c)
      PROVE  attempts'[a][r].blocked # "no"
  <2> DEFINE l == login[c]
             n == (IF l.loaded.blocked = "past" THEN 0 ELSE l.loaded.count) + 1
             new == [count |-> n, blocked |-> IF n >= Threshold THEN "until"
                                              ELSE IF l.loaded.blocked = "past" THEN "no"
                                              ELSE l.loaded.blocked]
  <2>1. l # Null /\ l \in Logins
    BY <1>3 DEF LoginFails, SInv, SessionsTypeOK
  <2>2. CASE l.row = 0
    <3>1. attempts' = [attempts EXCEPT ![l.account] =
                         Append(attempts[l.account], [count |-> 1, blocked |-> "no"])]
      BY <1>3, <2>2 DEF LoginFails
    <3>2. [count |-> 1, blocked |-> "no"] \in AttemptRows
      BY DEF AttemptRows
    <3>3. Append(attempts[a], [count |-> 1, blocked |-> "no"])[r] = attempts[a][r]
      BY <3>2, RowType, AppendProperties DEF SInv
    <3>4. attempts'[a][r] = attempts[a][r]
      BY <3>1, <3>3 DEF SInv, SessionsTypeOK
    <3> QED BY <3>4
  <2>3. CASE l.row # 0
    <3>1. l.loaded \in AttemptRows
      BY <2>1, <2>3 DEF SInv, RowsHeld
    <3>2. n \in Nat
      BY <3>1 DEF AttemptRows
    <3>3. /\ new \in AttemptRows
          /\ new.blocked = "no" => l.loaded.blocked = "no" \/ l.loaded.blocked = "past"
      <4> HIDE DEF n, l
      <4> QED BY <3>1, <3>2 DEF AttemptRows
    <3>4. SaveAttempt(c, new)
      BY <1>3, <2>3 DEF LoginFails
    <3> HIDE DEF new
    <3> QED BY <1>2, <2>1, <2>3, <3>3, <3>4
  <2> QED BY <2>2, <2>3
<1>4. ASSUME NEW c \in Clients, NEW i \in Sessions, LoginCommits(c, i)
      PROVE  attempts'[a][r].blocked # "no"
  <2>1. login[c] # Null
    BY <1>4 DEF LoginCommits
  <2>2. CASE login[c].row = 0
    BY <1>1, <1>4, <2>2 DEF LoginCommits
  <2>3. CASE login[c].row # 0
    <3>1. SaveAttempt(c, [count |-> 0, blocked |-> "no"])
      BY <1>4, <2>3 DEF LoginCommits
    <3>2. login[c].loaded.blocked \in {"no", "past"}
      BY <2>1, <2>3 DEF SInv, RowsHeld, AttemptRows
    <3>3. [count |-> 0, blocked |-> "no"] \in AttemptRows
      BY DEF AttemptRows
    <3> QED BY <1>2, <2>1, <2>3, <3>1, <3>2, <3>3
  <2> QED BY <2>2, <2>3
<1>5. ASSUME NEW b \in Accounts, NEW q \in 1..Len(attempts[b]), LockoutEnds(b, q)
      PROVE  attempts'[a][r].blocked # "no"
  <2>1. PICK row \in AttemptRows : row = [attempts[b][q] EXCEPT !.blocked = "past"]
    BY RowType DEF SInv, AttemptRows
  <2>2. attempts' = Written(b, q, row) /\ row.blocked = "past"
    BY <1>5, <2>1, RowType DEF LockoutEnds, Written, SInv, AttemptRows
  <2>3. SessionsTypeOK
    BY DEF SInv
  <2>4. /\ Written(b, q, row)[b][q] = row
        /\ \A d \in Accounts : \A p \in 1..Len(attempts[d]) :
             d # b \/ p # q => Written(b, q, row)[d][p] = attempts[d][p]
    BY <2>3, RowWritten
  <2>5. CASE b = a /\ q = r
    BY <2>2, <2>4, <2>5
  <2>6. CASE b # a \/ q # r
    <3>1. Written(b, q, row)[a][r] = attempts[a][r]
      BY <2>4, <2>6
    <3> QED BY <2>2, <3>1
  <2> QED BY <2>5, <2>6
<1>6. \/ UNCHANGED attempts
      \/ \E c \in Clients : LoginFails(c)
      \/ \E c \in Clients, i \in Sessions : LoginCommits(c, i)
      \/ \E b \in Accounts : \E q \in 1..Len(attempts[b]) : LockoutEnds(b, q)
  BY DEF SessionsNext, LoginBegin, LoginLocks, LoginDies, Refresh, IdleTimeout, Logout,
     LogoutAll, RevokeSession, ChangeBegin, GoIdle, Expire, ChangeCommit, ExamBinds,
     DeviceReset, ClearSessions, ResetPassword, ToggleActive
<1> QED BY <1>1, <1>3, <1>4, <1>5, <1>6

-----------------------------------------------------------------------------
(* The theorems.                                                           *)

\* What the commits and the logins in flight may rely on holds throughout.
THEOREM AccessInvariant == Spec => []AInv
<1>1. Init => AInv
  BY LicensingStarts, SessionsStart
  DEF Init, AInv, Admissions, LicensingInit
<1>2. AInv /\ [Next]_accessVars => AInv'
  <2> SUFFICES ASSUME AInv, [Next]_accessVars PROVE AInv'
    OBVIOUS
  <2>1. CASE Next
    <3>1. CASE LicensingNext /\ UNCHANGED sessionVars
      BY <2>1, <3>1, LicensingKeeps, SessionsRest, AdmissionsKeep DEF AInv
    <3>2. CASE SessionsNext /\ UNCHANGED licensingVars
      BY <2>1, <3>2, LicensingKeeps, SessionsKeep, AdmissionsKeep DEF AInv
    <3> QED BY <2>1, <3>1, <3>2, EitherSide
  <2>2. CASE UNCHANGED accessVars
    <3>1. UNCHANGED licensingVars /\ UNCHANGED sessionVars
      BY <2>2 DEF accessVars
    <3>2. Admissions'
      BY <3>1 DEF licensingVars, AInv, Admissions
    <3> QED BY <3>1, <3>2, LicensingKeeps, SessionsRest DEF AInv
  <2> QED BY <2>1, <2>2
<1> QED BY <1>1, <1>2, PTL DEF Spec

\* Every variable keeps its type, whatever requests overtake each other.
THEOREM AccessTypeCorrect == Spec => []TypeOK
<1>1. AInv => TypeOK
  BY DEF AInv, LInv, SInv, TypeOK
<1> QED BY <1>1, AccessInvariant, PTL

\* However many logins of a student run at once, one session is left alive.
THEOREM OneSessionStays == Spec => []OneSession
<1>1. AInv => OneSession
  BY DEF AInv, SInv
<1> QED BY <1>1, AccessInvariant, PTL

\* No key opens two licenses, or the license of another school.
THEOREM KeysAreSpentOnce == Spec => []KeysSpentOnce
<1>1. AInv => KeysSpentOnce
  BY DEF AInv, LInv
<1> QED BY <1>1, AccessInvariant, PTL

\* Nobody lets a suspended school go but a superadministrator's toggle and an
\* activation admitted earlier.
THEOREM SuspensionStays == Spec => SuspensionHolds
<1> DEFINE LetsGo(s) ==
       \E c \in Clerks :
         /\ work[c] # Null /\ work'[c] = Null /\ work[c].school = s
         /\ \/ work[c].op = "toggle"
            \/ work[c].op = "activate" /\ work[c].was # "SUSPENDED"
           Step == \A s \in Schools :
             school[s] # Null /\ school[s].status = "SUSPENDED"
               /\ school'[s].status # "SUSPENDED" => LetsGo(s)
<1>1. AInv /\ [Next]_accessVars => [Step]_accessVars
  <2> SUFFICES ASSUME AInv, Next, NEW s \in Schools, school[s] # Null,
                      school[s].status = "SUSPENDED", school'[s].status # "SUSPENDED"
               PROVE  LetsGo(s)
    OBVIOUS
  <2>1. CASE LicensingNext
    <3>1. PICK c \in Clerks : /\ work[c] # Null /\ work'[c] = Null /\ work[c].school = s
                              /\ work[c].op \in {"toggle", "activate"}
      BY <2>1, LetGo
    <3> QED BY <3>1 DEF AInv, Admissions
  <2>2. CASE UNCHANGED licensingVars
    BY <2>2 DEF licensingVars
  <2> QED BY <2>1, <2>2, EitherSide
<1>2. SuspensionHolds <=> [][Step]_accessVars
  BY DEF SuspensionHolds
<1> HIDE DEF Step
<1> QED BY <1>1, <1>2, AccessInvariant, PTL DEF Spec

\* A lock-out is ended by its time only.
THEOREM LockoutsStay == Spec => LockoutStays
<1> DEFINE Step == \A a \in Accounts : \A r \in DOMAIN attempts[a] :
                     attempts[a][r].blocked = "until" => attempts'[a][r].blocked # "no"
<1>1. AInv /\ [Next]_accessVars => [Step]_accessVars
  <2> SUFFICES ASSUME AInv, Next, NEW a \in Accounts, NEW r \in DOMAIN attempts[a],
                      attempts[a][r].blocked = "until"
               PROVE  attempts'[a][r].blocked # "no"
    OBVIOUS
  <2>1. r \in 1..Len(attempts[a])
    BY RowType DEF AInv, SInv
  <2>2. CASE SessionsNext
    BY <2>1, <2>2, LockedOut DEF AInv
  <2>3. CASE UNCHANGED sessionVars
    BY <2>3 DEF sessionVars
  <2> QED BY <2>2, <2>3, EitherSide
<1>2. LockoutStays <=> [][Step]_accessVars
  BY DEF LockoutStays
<1> HIDE DEF Step
<1> QED BY <1>1, <1>2, AccessInvariant, PTL DEF Spec
=============================================================================
