------------------------ MODULE SchoolServicesProofs ------------------------
(***************************************************************************)
(* What each service of the office keeps, for every school and every       *)
(* argument.                                                               *)
(*                                                                         *)
(* First, the tables: what the operators that write them leave, what a     *)
(* request over several things keeps, what a transaction merges back into  *)
(* tables others have written meanwhile, and what the foreign keys delete  *)
(* after it.  Nothing of this depends on what the tables are for.          *)
(*                                                                         *)
(* Then the services: years and semesters, enrolments, lessons and the     *)
(* traces of exams that fit in the database a service reads still fit in   *)
(* the one it leaves, and no enrolment is deleted.  A service is a set of  *)
(* databases it may leave, so each lemma is an inclusion in Served(d), or  *)
(* in Leaving(d, T) where it leaves the tables of T alone as well.         *)
(***************************************************************************)
EXTENDS SchoolOffice, TLAPS, FiniteSetTheorems, WellFoundedInduction, NaturalsInduction

-----------------------------------------------------------------------------
(* The tables of the school and what they hold.                            *)

\* The tables of the school.
LEMMA TableNames ==
  Tables = {"years", "semesters", "classes", "subjects", "accounts", "enrolments",
            "classSubjects", "teaching", "competency", "packages", "schedules", "snapshots",
            "sessions", "checkins", "attempts", "questions", "banks", "items", "pins",
            "reports", "attendance"}
<1>1. DOMAIN Rowset = {"years", "semesters", "classes", "subjects", "accounts", "enrolments",
            "classSubjects", "teaching", "competency", "packages", "schedules", "snapshots",
            "sessions", "checkins", "attempts", "questions", "banks", "items", "pins",
            "reports", "attendance"}
  BY DEF Rowset
<1> QED  BY IdsAssumption, <1>1 DEF Tables

\* The rows each of them may hold.
LEMMA RowsetIs ==
  /\ Rowset["years"] = Year /\ Rowset["semesters"] = Semester /\ Rowset["classes"] = Class
  /\ Rowset["subjects"] = Subject /\ Rowset["accounts"] = Account
  /\ Rowset["enrolments"] = Enrolment /\ Rowset["classSubjects"] = ClassSubject
  /\ Rowset["teaching"] = ClassSubjectTeacher /\ Rowset["competency"] = TeacherSubject
  /\ Rowset["packages"] = SchedulePackage /\ Rowset["schedules"] = Schedule
  /\ Rowset["snapshots"] = Snapshot /\ Rowset["sessions"] = Session
  /\ Rowset["checkins"] = Checkin /\ Rowset["attempts"] = Attempt
  /\ Rowset["questions"] = Question /\ Rowset["banks"] = Bank /\ Rowset["items"] = Item
  /\ Rowset["pins"] = Pin /\ Rowset["reports"] = Report /\ Rowset["attendance"] = Attendance
  BY DEF Rowset

\* Tables are addressed by numbers, those of pairs by their pairs.
LEMMA IdsAre ==
  /\ Ids.years \subseteq Nat /\ Ids.semesters \subseteq Nat /\ Ids.classes \subseteq Nat
  /\ Ids.subjects \subseteq Nat /\ Ids.accounts \subseteq Nat /\ Ids.enrolments \subseteq Nat
  /\ Ids.packages \subseteq Nat /\ Ids.schedules \subseteq Nat /\ Ids.snapshots \subseteq Nat
  /\ Ids.sessions \subseteq Nat /\ Ids.checkins \subseteq Nat /\ Ids.attempts \subseteq Nat
  /\ Ids.questions \subseteq Nat /\ Ids.banks \subseteq Nat /\ Ids.items \subseteq Nat
  /\ Ids.pins \subseteq Nat /\ Ids.reports \subseteq Nat
  /\ Ids.classSubjects = Ids.classes \X Ids.subjects /\ Ids.teaching = Ids.classes \X Ids.subjects
  /\ Ids.competency = Ids.accounts \X Ids.subjects /\ Ids.attendance \subseteq Ids.reports \X Nat
  BY IdsAssumption, TableNames

\* A database is known by its tables.
LEMMA DatabaseIs ==
  ASSUME NEW d
  PROVE  d \in Database <=> d = [t \in Tables |-> d[t]] /\ \A t \in Tables : d[t] \in Table(t)
  BY TableNames DEF Database

\* A row of a table is one it may hold, under an id it may use.
LEMMA RowTyped ==
  ASSUME NEW d \in Database, NEW t \in Tables, NEW i
  PROVE  /\ i \in Rows(d, t) => i \in Ids[t] /\ d[t][i] \in Rowset[t] /\ d[t][i] # Null
         /\ i \in Ids[t] \ Rows(d, t) => d[t][i] = Null
<1>1. d[t] \in [Ids[t] -> Opt(Rowset[t])]
  BY DatabaseIs DEF Table
<1> QED  BY <1>1 DEF Rows, Opt

\* The same, table by table.
LEMMA RowsAre ==
  ASSUME NEW d \in Database
  PROVE  /\ \A i \in Rows(d, "years") : i \in Ids.years /\ d.years[i] \in Year
         /\ \A i \in Rows(d, "semesters") : i \in Ids.semesters /\ d.semesters[i] \in Semester
         /\ \A i \in Rows(d, "classes") : i \in Ids.classes /\ d.classes[i] \in Class
         /\ \A i \in Rows(d, "subjects") : i \in Ids.subjects /\ d.subjects[i] \in Subject
         /\ \A i \in Rows(d, "accounts") : i \in Ids.accounts /\ d.accounts[i] \in Account
         /\ \A i \in Rows(d, "enrolments") : i \in Ids.enrolments /\ d.enrolments[i] \in Enrolment
         /\ \A i \in Rows(d, "classSubjects") : i \in Ids.classSubjects /\ d.classSubjects[i] \in ClassSubject
         /\ \A i \in Rows(d, "teaching") : i \in Ids.teaching /\ d.teaching[i] \in ClassSubjectTeacher
         /\ \A i \in Rows(d, "competency") : i \in Ids.competency /\ d.competency[i] \in TeacherSubject
         /\ \A i \in Rows(d, "packages") : i \in Ids.packages /\ d.packages[i] \in SchedulePackage
         /\ \A i \in Rows(d, "schedules") : i \in Ids.schedules /\ d.schedules[i] \in Schedule
         /\ \A i \in Rows(d, "snapshots") : i \in Ids.snapshots /\ d.snapshots[i] \in Snapshot
         /\ \A i \in Rows(d, "sessions") : i \in Ids.sessions /\ d.sessions[i] \in Session
         /\ \A i \in Rows(d, "checkins") : i \in Ids.checkins /\ d.checkins[i] \in Checkin
         /\ \A i \in Rows(d, "attempts") : i \in Ids.attempts /\ d.attempts[i] \in Attempt
         /\ \A i \in Rows(d, "questions") : i \in Ids.questions /\ d.questions[i] \in Question
         /\ \A i \in Rows(d, "banks") : i \in Ids.banks /\ d.banks[i] \in Bank
         /\ \A i \in Rows(d, "items") : i \in Ids.items /\ d.items[i] \in Item
         /\ \A i \in Rows(d, "pins") : i \in Ids.pins /\ d.pins[i] \in Pin
         /\ \A i \in Rows(d, "reports") : i \in Ids.reports /\ d.reports[i] \in Report
         /\ \A i \in Rows(d, "attendance") : i \in Ids.attendance /\ d.attendance[i] \in Attendance
<1>1. \A t \in Tables : \A i \in Rows(d, t) : i \in Ids[t] /\ d[t][i] \in Rowset[t]
  BY RowTyped
<1>2. \A i \in Rows(d, "years") : i \in Ids.years /\ d.years[i] \in Year
  BY <1>1, TableNames, RowsetIs
<1>3. \A i \in Rows(d, "semesters") : i \in Ids.semesters /\ d.semesters[i] \in Semester
  BY <1>1, TableNames, RowsetIs
<1>4. \A i \in Rows(d, "classes") : i \in Ids.classes /\ d.classes[i] \in Class
  BY <1>1, TableNames, RowsetIs
<1>5. \A i \in Rows(d, "subjects") : i \in Ids.subjects /\ d.subjects[i] \in Subject
  BY <1>1, TableNames, RowsetIs
<1>6. \A i \in Rows(d, "accounts") : i \in Ids.accounts /\ d.accounts[i] \in Account
  BY <1>1, TableNames, RowsetIs
<1>7. \A i \in Rows(d, "enrolments") : i \in Ids.enrolments /\ d.enrolments[i] \in Enrolment
  BY <1>1, TableNames, RowsetIs
<1>8. \A i \in Rows(d, "classSubjects") : i \in Ids.classSubjects /\ d.classSubjects[i] \in ClassSubject
  BY <1>1, TableNames, RowsetIs
<1>9. \A i \in Rows(d, "teaching") : i \in Ids.teaching /\ d.teaching[i] \in ClassSubjectTeacher
  BY <1>1, TableNames, RowsetIs
<1>10. \A i \in Rows(d, "competency") : i \in Ids.competency /\ d.competency[i] \in TeacherSubject
  BY <1>1, TableNames, RowsetIs
<1>11. \A i \in Rows(d, "packages") : i \in Ids.packages /\ d.packages[i] \in SchedulePackage
  BY <1>1, TableNames, RowsetIs
<1>12. \A i \in Rows(d, "schedules") : i \in Ids.schedules /\ d.schedules[i] \in Schedule
  BY <1>1, TableNames, RowsetIs
<1>13. \A i \in Rows(d, "snapshots") : i \in Ids.snapshots /\ d.snapshots[i] \in Snapshot
  BY <1>1, TableNames, RowsetIs
<1>14. \A i \in Rows(d, "sessions") : i \in Ids.sessions /\ d.sessions[i] \in Session
  BY <1>1, TableNames, RowsetIs
<1>15. \A i \in Rows(d, "checkins") : i \in Ids.checkins /\ d.checkins[i] \in Checkin
  BY <1>1, TableNames, RowsetIs
<1>16. \A i \in Rows(d, "attempts") : i \in Ids.attempts /\ d.attempts[i] \in Attempt
  BY <1>1, TableNames, RowsetIs
<1>17. \A i \in Rows(d, "questions") : i \in Ids.questions /\ d.questions[i] \in Question
  BY <1>1, TableNames, RowsetIs
<1>18. \A i \in Rows(d, "banks") : i \in Ids.banks /\ d.banks[i] \in Bank
  BY <1>1, TableNames, RowsetIs
<1>19. \A i \in Rows(d, "items") : i \in Ids.items /\ d.items[i] \in Item
  BY <1>1, TableNames, RowsetIs
<1>20. \A i \in Rows(d, "pins") : i \in Ids.pins /\ d.pins[i] \in Pin
  BY <1>1, TableNames, RowsetIs
<1>21. \A i \in Rows(d, "reports") : i \in Ids.reports /\ d.reports[i] \in Report
  BY <1>1, TableNames, RowsetIs
<1>22. \A i \in Rows(d, "attendance") : i \in Ids.attendance /\ d.attendance[i] \in Attendance
  BY <1>1, TableNames, RowsetIs
<1> QED  BY <1>2, <1>3, <1>4, <1>5, <1>6, <1>7, <1>8, <1>9, <1>10, <1>11, <1>12, <1>13, <1>14,
         <1>15, <1>16, <1>17, <1>18, <1>19, <1>20, <1>21, <1>22

-----------------------------------------------------------------------------
(* Writing them; one request over several things.                          *)

\* v differs from d in the tables of S alone.
SameBut(d, v, S) == \A t \in Tables \ S : v[t] = d[t]

\* Put writes one row.
LEMMA PutIs ==
  ASSUME NEW d \in Database, NEW t \in Tables, NEW i, NEW row
  PROVE  Put(d, t, i, row)[t] = [j \in Ids[t] |-> IF j = i THEN row ELSE d[t][j]]
  BY DatabaseIs DEF Put, Table

\* Put writes one table.
LEMMA PutSame ==
  ASSUME NEW d \in Database, NEW t \in Tables, NEW i, NEW row
  PROVE  SameBut(d, Put(d, t, i, row), {t})
  BY DatabaseIs DEF Put, SameBut

\* Put leaves a database when the row is one of the table.
LEMMA PutTyped ==
  ASSUME NEW d \in Database, NEW t \in Tables, NEW i, NEW row \in Opt(Rowset[t])
  PROVE  Put(d, t, i, row) \in Database
<1>1. Put(d, t, i, row) = [o \in Tables |-> Put(d, t, i, row)[o]]
  BY DatabaseIs DEF Put
<1>2. Put(d, t, i, row)[t] \in Table(t)
  <2>1. d[t] \in [Ids[t] -> Opt(Rowset[t])]
    BY DatabaseIs DEF Table
  <2> DEFINE new(j) == IF j = i THEN row ELSE d[t][j]
  <2>2. \A j \in Ids[t] : new(j) \in Opt(Rowset[t])
    BY <2>1
  <2>3. Put(d, t, i, row)[t] = [j \in Ids[t] |-> new(j)]
    BY PutIs
  <2> HIDE DEF new
  <2> QED  BY <2>2, <2>3 DEF Table
<1>3. \A o \in Tables : Put(d, t, i, row)[o] \in Table(o)
  BY <1>2, DatabaseIs, PutSame DEF SameBut
<1> QED  BY <1>1, <1>3, DatabaseIs

\* Drop empties the rows it is given.
LEMMA DropIs ==
  ASSUME NEW d \in Database, NEW t \in Tables, NEW gone
  PROVE  Drop(d, t, gone)[t] = [i \in Ids[t] |-> IF i \in gone THEN Null ELSE d[t][i]]
  BY DatabaseIs DEF Drop, Table

\* Drop writes one table.
LEMMA DropSame ==
  ASSUME NEW d \in Database, NEW t \in Tables, NEW gone
  PROVE  SameBut(d, Drop(d, t, gone), {t})
  BY DatabaseIs DEF Drop, SameBut

\* Drop leaves a database.
LEMMA DropTyped ==
  ASSUME NEW d \in Database, NEW t \in Tables, NEW gone
  PROVE  Drop(d, t, gone) \in Database
<1>1. Drop(d, t, gone) = [o \in Tables |-> Drop(d, t, gone)[o]]
  BY DatabaseIs DEF Drop
<1>2. Drop(d, t, gone)[t] \in Table(t)
  <2>1. d[t] \in [Ids[t] -> Opt(Rowset[t])]
    BY DatabaseIs DEF Table
  <2> DEFINE new(i) == IF i \in gone THEN Null ELSE d[t][i]
  <2>2. \A i \in Ids[t] : new(i) \in Opt(Rowset[t])
    BY <2>1 DEF Opt
  <2>3. Drop(d, t, gone)[t] = [i \in Ids[t] |-> new(i)]
    BY DropIs
  <2> HIDE DEF new
  <2> QED  BY <2>2, <2>3 DEF Table
<1>3. \A o \in Tables : Drop(d, t, gone)[o] \in Table(o)
  BY <1>2, DatabaseIs, DropSame DEF SameBut
<1> QED  BY <1>1, <1>3, DatabaseIs

\* Set writes one column of the rows it is given.
LEMMA SetIs ==
  ASSUME NEW d \in Database, NEW t \in Tables, NEW hit, NEW col, NEW x
  PROVE  Set(d, t, hit, col, x)[t] =
           [i \in Ids[t] |-> IF i \in hit THEN [d[t][i] EXCEPT ![col] = x] ELSE d[t][i]]
  BY DatabaseIs DEF Set, Table

\* Set writes one table.
LEMMA SetSame ==
  ASSUME NEW d \in Database, NEW t \in Tables, NEW hit, NEW col, NEW x
  PROVE  SameBut(d, Set(d, t, hit, col, x), {t})
  BY DatabaseIs DEF Set, SameBut

\* Set leaves a database when each row it changes still is one of the table.
LEMMA SetTyped ==
  ASSUME NEW d \in Database, NEW t \in Tables, NEW hit, NEW col, NEW x,
         \A i \in hit \cap Ids[t] : [d[t][i] EXCEPT ![col] = x] \in Opt(Rowset[t])
  PROVE  Set(d, t, hit, col, x) \in Database
<1>1. Set(d, t, hit, col, x) = [o \in Tables |-> Set(d, t, hit, col, x)[o]]
  BY DatabaseIs DEF Set
<1>3. Set(d, t, hit, col, x)[t] \in Table(t)
  <2>1. d[t] \in [Ids[t] -> Opt(Rowset[t])]
    BY DatabaseIs DEF Table
  <2> DEFINE new(i) == IF i \in hit THEN [d[t][i] EXCEPT ![col] = x] ELSE d[t][i]
  <2>2. \A i \in Ids[t] : new(i) \in Opt(Rowset[t])
    BY <2>1
  <2>3. Set(d, t, hit, col, x)[t] = [i \in Ids[t] |-> new(i)]
    BY SetIs
  <2> HIDE DEF new
  <2> QED  BY <2>2, <2>3 DEF Table
<1>2. \A o \in Tables : Set(d, t, hit, col, x)[o] \in Table(o)
  BY <1>3, DatabaseIs, SetSame DEF SameBut
<1> QED  BY <1>1, <1>2, DatabaseIs

\* The new id is free when any is, because naturals have a least one.
LEMMA NewIsFree ==
  ASSUME NEW d, NEW t \in Tables, Ids[t] \subseteq Nat, Free(d, t) # {}
  PROVE  New(d, t) \in Free(d, t)
<1>1. Free(d, t) \subseteq Nat
  BY DEF Free
<1>2. \E i \in Free(d, t) : \A j \in Free(d, t) : ~(<<j, i>> \in OpToRel(<, Nat))
  BY <1>1, WFMin, NatLessThanWellFounded
<1>4. \A i, j \in Nat : j < i => <<j, i>> \in OpToRel(<, Nat)
  BY DEF OpToRel
<1>3. \E i \in Free(d, t) : \A j \in Free(d, t) : i <= j
  <2>1. PICK i \in Free(d, t) : \A j \in Free(d, t) : ~(<<j, i>> \in OpToRel(<, Nat))
    BY <1>2
  <2>2. \A j \in Free(d, t) : ~(j < i)
    BY <1>1, <1>4, <2>1
  <2>3. \A j \in Free(d, t) : j \in Nat /\ i \in Nat
    BY <1>1
  <2>4. \A j \in Free(d, t) : i <= j
    BY <2>2, <2>3
  <2> QED  BY <2>4
<1> QED  BY <1>3 DEF New

\* Insert writes a row where there was none.
LEMMA InsertIs ==
  ASSUME NEW d \in Database, NEW t \in Tables, Ids[t] \subseteq Nat, Free(d, t) # {}, NEW row
  PROVE  \E n \in Ids[t] : /\ d[t][n] = Null
                           /\ Insert(d, t, row)[t] = [i \in Ids[t] |-> IF i = n THEN row ELSE d[t][i]]
  BY NewIsFree, PutIs DEF Insert, Free

\* Insert writes one table.
LEMMA InsertSame ==
  ASSUME NEW d \in Database, NEW t \in Tables, NEW row
  PROVE  SameBut(d, Insert(d, t, row), {t})
  BY PutSame DEF Insert

\* Insert leaves a database when the row is one of the table.
LEMMA InsertTyped ==
  ASSUME NEW d \in Database, NEW t \in Tables, NEW row \in Rowset[t]
  PROVE  Insert(d, t, row) \in Database
  BY PutTyped DEF Insert, Opt

\* A bulk request takes what it was given one after the other; its fold is
\* reasoned about as a function on the sets of at most n things.
Pick(s) == CHOOSE x \in s : TRUE

\* One member more, on top of every view reached so far.
StepTo(service, s, views) == UNION {service[Pick(s)][v] : v \in views}

\* The sets of at most n of them.
Upto(S, n) == {s \in SUBSET S : Cardinality(s) <= n}

\* f is the fold, on the sets in D.
FoldEqn(service, d, f, D) ==
  f = [s \in D |-> IF s = {} THEN {d} ELSE StepTo(service, s, f[s \ {Pick(s)}])]

\* Taking a member away leads from sets of n + 1 members to sets of n.
LEMMA UptoFacts ==
  ASSUME NEW S, IsFiniteSet(S), NEW n \in Nat
  PROVE  /\ Upto(S, 0) = {{}}
         /\ Upto(S, n) \subseteq Upto(S, n + 1)
         /\ \A s \in Upto(S, n + 1) : s # {} => Pick(s) \in s /\ s \ {Pick(s)} \in Upto(S, n)
<1>1. \A s \in SUBSET S : IsFiniteSet(s) /\ Cardinality(s) \in Nat /\ (Cardinality(s) = 0 <=> s = {})
  BY FS_Subset, FS_CardinalityType, FS_EmptySet
<1>2. Upto(S, 0) = {{}}
  BY <1>1 DEF Upto
<1>3. Upto(S, n) \subseteq Upto(S, n + 1)
  BY <1>1 DEF Upto
<1>4. ASSUME NEW s \in Upto(S, n + 1), s # {}
      PROVE  Pick(s) \in s /\ s \ {Pick(s)} \in Upto(S, n)
  <2>1. Pick(s) \in s
    BY <1>4 DEF Pick
  <2>2. Cardinality(s \ {Pick(s)}) = Cardinality(s) - 1
    BY <1>1, <2>1, FS_RemoveElement DEF Upto
  <2> QED  BY <1>1, <2>1, <2>2 DEF Upto
<1> QED  BY <1>2, <1>3, <1>4

\* A fold over the sets of n members goes on to those of n + 1.
LEMMA FoldExists ==
  ASSUME NEW service, NEW S, IsFiniteSet(S), NEW d,
         NEW n \in Nat, NEW f, FoldEqn(service, d, f, Upto(S, n))
  PROVE  \E g : FoldEqn(service, d, g, Upto(S, n + 1))
<1> DEFINE g == [s \in Upto(S, n + 1) |-> IF s = {} THEN {d} ELSE StepTo(service, s, f[s \ {Pick(s)}])]
<1>1. \A s \in Upto(S, n) : g[s] = f[s]
  BY UptoFacts DEF FoldEqn
<1>2. \A s \in Upto(S, n + 1) : s # {} => g[s \ {Pick(s)}] = f[s \ {Pick(s)}]
  BY <1>1, UptoFacts
<1>3. FoldEqn(service, d, g, Upto(S, n + 1))
  BY <1>2 DEF FoldEqn
<1> QED  BY <1>3

\* So there is one for every n: the least n without one would have one.
LEMMA FoldsExist ==
  ASSUME NEW service, NEW S, IsFiniteSet(S), NEW d, NEW n \in Nat
  PROVE  \E f : FoldEqn(service, d, f, Upto(S, n))
<1> DEFINE Good(m) == \E f : FoldEqn(service, d, f, Upto(S, m))
           Bad == {m \in Nat : ~Good(m)}
<1>1. Good(0)
  <2>1. Upto(S, 0) = {{}}
    BY UptoFacts
  <2>2. FoldEqn(service, d, [s \in {{}} |-> {d}], {{}})
    BY DEF FoldEqn
  <2>3. FoldEqn(service, d, [s \in {{}} |-> {d}], Upto(S, 0))
    BY <2>1, <2>2
  <2> QED  BY <2>3, Zenon
<1>2. ASSUME NEW m \in Nat, Good(m) PROVE Good(m + 1)
  <2>1. PICK f : FoldEqn(service, d, f, Upto(S, m))
    BY <1>2
  <2> QED  BY <2>1, FoldExists
<1> HIDE DEF Good
<1>3. ASSUME Bad # {} PROVE FALSE
  <2>1. PICK m \in Bad : \A k \in Bad : ~(<<k, m>> \in OpToRel(<, Nat))
    BY <1>3, WFMin, NatLessThanWellFounded
  <2>2. \A i, j \in Nat : j < i => <<j, i>> \in OpToRel(<, Nat)
    BY DEF OpToRel
  <2>3. m \in Nat /\ ~Good(m) /\ m # 0
    BY <1>1
  <2>4. m - 1 \in Nat /\ m - 1 < m /\ (m - 1) + 1 = m
    BY <2>3
  <2>5. m - 1 \notin Bad
    BY <2>1, <2>2, <2>3, <2>4
  <2> QED  BY <1>2, <2>3, <2>4, <2>5
<1>4. Good(n)
  BY <1>3
<1> QED BY <1>4 DEF Good

\* A fold whose steps stay in Q stays in Q: a smallest set it leaves Q on
\* would have a smaller one.
LEMMA FoldStays ==
  ASSUME NEW service, NEW S, IsFiniteSet(S), NEW d, NEW Q, d \in Q,
         \A x \in S : \A v \in Q : service[x][v] \subseteq Q,
         NEW f, FoldEqn(service, d, f, SUBSET S)
  PROVE  f[S] \subseteq Q
<1> DEFINE Bad == {s \in SUBSET S : ~(f[s] \subseteq Q)}
           Sizes == {Cardinality(s) : s \in Bad}
<1>1. \A s \in SUBSET S : IsFiniteSet(s) /\ Cardinality(s) \in Nat
  BY FS_Subset, FS_CardinalityType
<1>2. ASSUME Bad # {} PROVE FALSE
  <2>1. Sizes \subseteq Nat /\ Sizes # {}
    BY <1>1, <1>2
  <2>2. PICK m \in Sizes : \A k \in Sizes : ~(<<k, m>> \in OpToRel(<, Nat))
    BY <2>1, WFMin, NatLessThanWellFounded
  <2>3. \A k \in Sizes : ~(k < m)
    BY <2>1, <2>2 DEF OpToRel
  <2>4. PICK s \in Bad : m = Cardinality(s)
    BY <2>2
  <2>5. f[s] = IF s = {} THEN {d} ELSE StepTo(service, s, f[s \ {Pick(s)}])
    BY DEF FoldEqn
  <2>6. s # {} /\ Pick(s) \in s
    BY <2>5 DEF Pick
  <2>7. Cardinality(s \ {Pick(s)}) = Cardinality(s) - 1
    BY <1>1, <2>6, FS_RemoveElement
  <2>8. Cardinality(s \ {Pick(s)}) < Cardinality(s)
    BY <1>1, <2>7
  <2>9. s \ {Pick(s)} \notin Bad
    BY <2>3, <2>4, <2>8
  <2>10. f[s \ {Pick(s)}] \subseteq Q
    BY <2>9
  <2>12. Pick(s) \in S
    BY <2>6
  <2>11. StepTo(service, s, f[s \ {Pick(s)}]) \subseteq Q
    <3>1. \A v \in f[s \ {Pick(s)}] : service[Pick(s)][v] \subseteq Q
      BY <2>10, <2>12
    <3> QED  BY <3>1 DEF StepTo
  <2> QED  BY <2>5, <2>6, <2>11
<1> QED  BY <1>2

\* What every one of several requests keeps, the request over all keeps.
LEMMA EachKeeps ==
  ASSUME NEW service, IsFiniteSet(DOMAIN service), NEW d, NEW Q, d \in Q,
         \A x \in DOMAIN service : \A v \in Q : service[x][v] \subseteq Q
  PROVE  Each(service, d) \subseteq Q
<1> DEFINE S == DOMAIN service
           n == Cardinality(S)
           it == CHOOSE f : f = [s \in SUBSET S |-> IF s = {} THEN {d}
                   ELSE UNION {service[CHOOSE x \in s : TRUE][v] : v \in f[s \ {CHOOSE x \in s : TRUE}]}]
<1>1. n \in Nat
  BY FS_CardinalityType
<1>2. Upto(S, n) = SUBSET S
  BY FS_Subset DEF Upto
<1>3. \E f : FoldEqn(service, d, f, SUBSET S)
  <2>1. IsFiniteSet(S)
    OBVIOUS
  <2> HIDE DEF n, S
  <2>2. \E f : FoldEqn(service, d, f, Upto(S, n))
    BY FoldsExist, <1>1, <2>1
  <2> QED  BY <1>2, <2>2
<1>4. it = CHOOSE f : FoldEqn(service, d, f, SUBSET S)
  BY DEF FoldEqn, StepTo, Pick
<1>5. FoldEqn(service, d, it, SUBSET S)
  <2> HIDE DEF it
  <2> QED  BY <1>3, <1>4
<1>6. it[S] \subseteq Q
  <2> HIDE DEF it
  <2> QED  BY <1>5, FoldStays
<1>7. Each(service, d) = it[S]
  BY DEF Each, FoldSet, MapThenFoldSet
<1> QED BY <1>6, <1>7

-----------------------------------------------------------------------------
(* A transaction writes the columns it changed over the rows it finds.     *)

\* The rows of R have the same columns; columns of one may be written over
\* another.
Alike(R) == \A r, s \in R : s = [f \in DOMAIN r |-> s[f]]

\* Columns of one row in another make a row again.
Blends(R) == \A r, s \in R : \A F : [f \in DOMAIN r |-> IF f \in F THEN s[f] ELSE r[f]] \in R

\* Rows of a table have the same columns.
LEMMA RowsAlike ==
  ASSUME NEW t \in Tables
  PROVE  Alike(Rowset[t])
<1>1. Alike(Year)
  BY DEF Year, Alike
<1>2. Alike(Semester)
  BY DEF Semester, Alike
<1>3. Alike(Class)
  BY DEF Class, Alike
<1>4. Alike(Subject)
  BY DEF Subject, Alike
<1>5. Alike(Account)
  BY DEF Account, Alike
<1>6. Alike(Enrolment)
  BY DEF Enrolment, Alike
<1>7. Alike(ClassSubject)
  BY DEF ClassSubject, Alike
<1>8. Alike(ClassSubjectTeacher)
  BY DEF ClassSubjectTeacher, Alike
<1>9. Alike(TeacherSubject)
  BY DEF TeacherSubject, Alike
<1>10. Alike(SchedulePackage)
  BY DEF SchedulePackage, Alike
<1>11. Alike(Schedule)
  BY DEF Schedule, Alike
<1>12. Alike(Snapshot)
  BY DEF Snapshot, Alike
<1>13. Alike(Session)
  BY DEF Session, Alike
<1>14. Alike(Checkin)
  BY DEF Checkin, Alike
<1>15. Alike(Attempt)
  BY DEF Attempt, Alike
<1>16. Alike(Question)
  BY DEF Question, Alike
<1>17. Alike(Bank)
  BY DEF Bank, Alike
<1>18. Alike(Item)
  BY DEF Item, Alike
<1>19. Alike(Pin)
  BY DEF Pin, Alike
<1>20. Alike(Report)
  BY DEF Report, Alike
<1>21. Alike(Attendance)
  BY DEF Attendance, Alike
<1> QED  BY <1>1, <1>2, <1>3, <1>4, <1>5, <1>6, <1>7, <1>8, <1>9, <1>10, <1>11, <1>12, <1>13,
         <1>14, <1>15, <1>16, <1>17, <1>18, <1>19, <1>20, <1>21, TableNames, RowsetIs

\* Columns of one row in another make a row of the table again: no column
\* of the schema constrains another.
LEMMA RowsBlend ==
  ASSUME NEW t \in Tables
  PROVE  Blends(Rowset[t])
<1>1. Blends(Year)
  BY DEF Year, Blends
<1>2. Blends(Semester)
  BY DEF Semester, Blends
<1>3. Blends(Class)
  BY DEF Class, Blends
<1>4. Blends(Subject)
  BY DEF Subject, Blends
<1>5. Blends(Account)
  BY DEF Account, Blends
<1>6. Blends(Enrolment)
  BY DEF Enrolment, Blends
<1>7. Blends(ClassSubject)
  BY DEF ClassSubject, Blends
<1>8. Blends(ClassSubjectTeacher)
  BY DEF ClassSubjectTeacher, Blends
<1>9. Blends(TeacherSubject)
  BY DEF TeacherSubject, Blends
<1>10. Blends(SchedulePackage)
  BY DEF SchedulePackage, Blends
<1>11. Blends(Schedule)
  BY DEF Schedule, Blends
<1>12. Blends(Snapshot)
  BY DEF Snapshot, Blends
<1>13. Blends(Session)
  BY DEF Session, Blends
<1>14. Blends(Checkin)
  BY DEF Checkin, Blends
<1>15. Blends(Attempt)
  BY DEF Attempt, Blends
<1>16. Blends(Question)
  BY DEF Question, Blends
<1>17. Blends(Bank)
  BY DEF Bank, Blends
<1>18. Blends(Item)
  BY DEF Item, Blends
<1>19. Blends(Pin)
  BY DEF Pin, Blends
<1>20. Blends(Report)
  BY DEF Report, Blends
<1>21. Blends(Attendance)
  BY DEF Attendance, Blends
<1> QED  BY <1>1, <1>2, <1>3, <1>4, <1>5, <1>6, <1>7, <1>8, <1>9, <1>10, <1>11, <1>12, <1>13,
         <1>14, <1>15, <1>16, <1>17, <1>18, <1>19, <1>20, <1>21, TableNames, RowsetIs

\* A write that a service can have asked for.
Asked(t, w) ==
  \/ w.op = "insert" /\ w.cols \in Rowset[t]
  \/ w.op = "delete"
  \/ /\ w.op = "update"
     /\ \E s \in Rowset[t] : \E F \in SUBSET DOMAIN s : w.cols = [f \in F |-> s[f]]

\* Writes that a request can carry.
AskedAll(writes) ==
  \A x \in DOMAIN writes : /\ x[1] \in Tables /\ x[2] \in Ids[x[1]] /\ x = <<x[1], x[2]>>
                           /\ Asked(x[1], writes[x])

\* What turns a row into another is a write a service can have asked for.
LEMMA WriteAsked ==
  ASSUME NEW t \in Tables, NEW old \in Opt(Rowset[t]), NEW new \in Opt(Rowset[t]), old # new
  PROVE  Asked(t, Write(old, new))
<1>1. CASE old = Null
  BY <1>1 DEF Write, Asked, Opt
<1>2. CASE old # Null /\ new = Null
  BY <1>2 DEF Write, Asked
<1>3. CASE old # Null /\ new # Null
  <2> DEFINE F == {f \in DOMAIN new : new[f] # old[f]}
  <2>1. Write(old, new) = [op |-> "update", cols |-> [f \in F |-> new[f]]]
    BY <1>3 DEF Write
  <2>2. new \in Rowset[t] /\ F \in SUBSET DOMAIN new
    BY <1>3 DEF Opt
  <2> HIDE DEF F
  <2> QED  BY <2>1, <2>2 DEF Asked
<1> QED  BY <1>1, <1>2, <1>3

\* Writing it over the old row gives the new one.
LEMMA WrittenBack ==
  ASSUME NEW t \in Tables, NEW old \in Opt(Rowset[t]), NEW new \in Opt(Rowset[t]), old # new
  PROVE  Written(old, Write(old, new)) = new
<1>1. CASE old = Null
  BY <1>1 DEF Write, Written
<1>2. CASE old # Null /\ new = Null
  BY <1>2 DEF Write, Written
<1>3. CASE old # Null /\ new # Null
  <2> DEFINE F == {f \in DOMAIN new : new[f] # old[f]}
             cols == [f \in F |-> new[f]]
  <2>1. Write(old, new) = [op |-> "update", cols |-> cols]
    BY <1>3 DEF Write
  <2>2. Written(old, Write(old, new)) = [f \in DOMAIN old |-> IF f \in F THEN cols[f] ELSE old[f]]
    BY <2>1 DEF Written
  <2>3. new = [f \in DOMAIN old |-> new[f]] /\ DOMAIN new = DOMAIN old
    BY <1>3, RowsAlike DEF Alike, Opt
  <2>4. \A f \in DOMAIN old : (IF f \in F THEN cols[f] ELSE old[f]) = new[f]
    BY <2>3
  <2> HIDE DEF F, cols
  <2> QED  BY <2>2, <2>3, <2>4
<1> QED  BY <1>1, <1>2, <1>3

\* Written over whatever row is there by then it leaves a row of the table.
LEMMA WrittenTyped ==
  ASSUME NEW t \in Tables, NEW old \in Opt(Rowset[t]), NEW w, Asked(t, w),
         w.op # "delete" => (w.op = "update" <=> old # Null)
  PROVE  Written(old, w) \in Opt(Rowset[t])
<1>1. CASE w.op = "insert" \/ w.op = "delete"
  BY <1>1 DEF Written, Asked, Opt
<1>2. CASE w.op = "update"
  <2>1. old \in Rowset[t]
    BY <1>2 DEF Opt
  <2>0. PICK s \in Rowset[t] : \E F \in SUBSET DOMAIN s : w.cols = [f \in F |-> s[f]]
    BY <1>2 DEF Asked
  <2>2. PICK F \in SUBSET DOMAIN s : w.cols = [f \in F |-> s[f]]
    BY <2>0
  <2>3. Written(old, w) = [f \in DOMAIN old |-> IF f \in DOMAIN w.cols THEN w.cols[f] ELSE old[f]]
    BY <1>2 DEF Written
  <2>4. Written(old, w) = [f \in DOMAIN old |-> IF f \in F THEN s[f] ELSE old[f]]
    BY <2>2, <2>3
  <2> QED  BY <2>1, <2>4, RowsBlend DEF Blends, Opt
<1> QED  BY <1>1, <1>2 DEF Asked

\* What Begin keeps of a service that turned d into v.
Writes(d, v) == [x \in Changed(d, v) |-> Write(d[x[1]][x[2]], v[x[1]][x[2]])]

\* The changes of v over d are where they differ.
LEMMA ChangedIs ==
  ASSUME NEW d \in Database, NEW v \in Database
  PROVE  /\ \A t \in Tables : \A i \in Ids[t] : <<t, i>> \in Changed(d, v) <=> d[t][i] # v[t][i]
         /\ \A x \in Changed(d, v) : x[1] \in Tables /\ x[2] \in Ids[x[1]] /\ x = <<x[1], x[2]>>
                                     /\ d[x[1]][x[2]] # v[x[1]][x[2]]
<1>1. \A t \in Tables : DOMAIN d[t] = Ids[t]
  BY DatabaseIs DEF Table
<1> QED  BY <1>1 DEF Changed

\* All of them can have been asked for.
LEMMA WritesAsked ==
  ASSUME NEW d \in Database, NEW v \in Database
  PROVE  AskedAll(Writes(d, v))
<1>1. \A t \in Tables : \A i \in Ids[t] : d[t][i] \in Opt(Rowset[t]) /\ v[t][i] \in Opt(Rowset[t])
  BY DatabaseIs DEF Table
<1> SUFFICES ASSUME NEW x \in Changed(d, v)
             PROVE  /\ x[1] \in Tables /\ x[2] \in Ids[x[1]] /\ x = <<x[1], x[2]>>
                    /\ Asked(x[1], Write(d[x[1]][x[2]], v[x[1]][x[2]]))
  BY DEF AskedAll, Writes
<1> QED  BY <1>1, ChangedIs, WriteAsked

\* A request nobody overtook leaves behind what its service wanted.
LEMMA MergedBack ==
  ASSUME NEW d \in Database, NEW v \in Database
  PROVE  Merged(d, Writes(d, v)) = v
<1>1. \A t \in Tables : \A i \in Ids[t] : d[t][i] \in Opt(Rowset[t]) /\ v[t][i] \in Opt(Rowset[t])
  BY DatabaseIs DEF Table
<1>2. \A t \in Tables : DOMAIN d[t] = Ids[t] /\ v[t] = [i \in Ids[t] |-> v[t][i]]
  BY DatabaseIs DEF Table
<1>3. v = [t \in Tables |-> v[t]]
  BY DatabaseIs
<1> DEFINE writes == Writes(d, v)
           new(t, i) == IF <<t, i>> \in DOMAIN writes THEN Written(d[t][i], writes[<<t, i>>]) ELSE d[t][i]
<1>4. ASSUME NEW t \in Tables, NEW i \in Ids[t] PROVE new(t, i) = v[t][i]
  <2>1. CASE <<t, i>> \in Changed(d, v)
    <3>1. d[t][i] # v[t][i]
      BY <2>1, ChangedIs
    <3>2. writes[<<t, i>>] = Write(d[t][i], v[t][i]) /\ <<t, i>> \in DOMAIN writes
      BY <2>1 DEF Writes
    <3> QED  BY <1>1, <3>1, <3>2, WrittenBack
  <2>2. CASE <<t, i>> \notin Changed(d, v)
    BY <2>2, ChangedIs DEF Writes
  <2> QED  BY <2>1, <2>2
<1>5. Merged(d, writes) = [t \in Tables |-> [i \in Ids[t] |-> new(t, i)]]
  BY <1>2 DEF Merged
<1> HIDE DEF new
<1>6. \A t \in Tables : [i \in Ids[t] |-> new(t, i)] = v[t]
  BY <1>2, <1>4
<1> QED  BY <1>3, <1>5, <1>6

\* Inserts find nothing under their id, updates find a row.
Ready(d, writes) ==
  \A x \in DOMAIN writes : writes[x].op # "delete" => (writes[x].op = "update" <=> d[x[1]][x[2]] # Null)

\* One that was overtaken leaves a database, if its inserts and updates
\* find what they expect.
LEMMA MergedTyped ==
  ASSUME NEW d \in Database, NEW writes, AskedAll(writes), Ready(d, writes)
  PROVE  Merged(d, writes) \in Database
<1>1. \A t \in Tables : \A i \in Ids[t] : d[t][i] \in Opt(Rowset[t])
  BY DatabaseIs DEF Table
<1>2. \A t \in Tables : DOMAIN d[t] = Ids[t]
  BY DatabaseIs DEF Table
<1> DEFINE new(t, i) == IF <<t, i>> \in DOMAIN writes THEN Written(d[t][i], writes[<<t, i>>]) ELSE d[t][i]
<1>3. ASSUME NEW t \in Tables, NEW i \in Ids[t] PROVE new(t, i) \in Opt(Rowset[t])
  <2>1. CASE <<t, i>> \in DOMAIN writes
    <3>1. Asked(t, writes[<<t, i>>])
      BY <2>1 DEF AskedAll
    <3>2. writes[<<t, i>>].op # "delete" => (writes[<<t, i>>].op = "update" <=> d[t][i] # Null)
      BY <2>1 DEF Ready
    <3> QED  BY <1>1, <2>1, <3>1, <3>2, WrittenTyped
  <2>2. CASE <<t, i>> \notin DOMAIN writes
    BY <1>1, <2>2
  <2> QED  BY <2>1, <2>2
<1>4. Merged(d, writes) = [t \in Tables |-> [i \in Ids[t] |-> new(t, i)]]
  BY <1>2 DEF Merged
<1> HIDE DEF new
<1>5. \A t \in Tables : [i \in Ids[t] |-> new(t, i)] \in Table(t)
  BY <1>3 DEF Table
<1> DEFINE m == Merged(d, writes)
<1>6. m = [t \in Tables |-> m[t]] /\ \A t \in Tables : m[t] \in Table(t)
  BY <1>4, <1>5
<1> HIDE DEF m
<1>7. m \in Database
  BY <1>6, DatabaseIs
<1> QED  BY <1>7 DEF m

\* A table without writes stays.
LEMMA MergedSame ==
  ASSUME NEW d \in Database, NEW writes, NEW t \in Tables, \A x \in DOMAIN writes : x[1] # t
  PROVE  Merged(d, writes)[t] = d[t]
<1>1. d[t] = [i \in DOMAIN d[t] |-> d[t][i]]
  BY DatabaseIs DEF Table
<1>2. \A i \in DOMAIN d[t] : <<t, i>> \notin DOMAIN writes
  OBVIOUS
<1>3. Merged(d, writes)[t] = [i \in DOMAIN d[t] |-> IF <<t, i>> \in DOMAIN writes
                                THEN Written(d[t][i], writes[<<t, i>>]) ELSE d[t][i]]
  BY DEF Merged
<1> QED  BY <1>1, <1>2, <1>3

-----------------------------------------------------------------------------
(* ON DELETE CASCADE and SET NULL.                                         *)

\* The tables that lose rows to a cascade, and the keys that take them.
Cascading == {"semesters", "enrolments", "classSubjects", "teaching", "competency",
              "schedules", "checkins", "attendance", "items"}

\* The keys that take the rows that refer.
CascadeKeys == {k \in ForeignKeys : k[4] = "CASCADE"}

\* Why a row is lost: it refers to one that is not there, or to one of a
\* table that loses rows itself.
Reason(d, t, i) ==
  /\ t \in Cascading /\ i \in Rows(d, t)
  /\ \E k \in CascadeKeys : k[1] = t /\ (Dangles(d, k, i) \/ k[3] \in Cascading)

\* Only these tables have keys that cascade.
LEMMA CascadeKeysIn ==
  \A k \in CascadeKeys : k[1] \in Cascading
  BY DEF CascadeKeys, ForeignKeys, Cascading

\* Whatever a cascade takes it takes for a reason, in both sweeps.
LEMMA LostHasReason ==
  ASSUME NEW d, NEW x \in Lost(d)
  PROVE  \E t, i : x = <<t, i>> /\ Reason(d, t, i)
<1> DEFINE Follows(k, gone) == {i \in Rows(d, k[1]) : \/ Dangles(d, k, i)
                                                      \/ <<k[3], d[k[1]][i][k[2]]>> \in gone}
           Sweep(gone) == gone \cup UNION {{<<k[1], i>> : i \in Follows(k, gone)} : k \in CascadeKeys}
           Sound == {z \in Cascading \X UNION {Rows(d, t) : t \in Cascading} : Reason(d, z[1], z[2])}
<1>1. Lost(d) = Sweep(Sweep({}))
  BY DEF Lost, CascadeKeys
<1>2. ASSUME NEW gone \in SUBSET Sound PROVE Sweep(gone) \in SUBSET Sound
  <2>1. ASSUME NEW k \in CascadeKeys, NEW i \in Follows(k, gone) PROVE <<k[1], i>> \in Sound
    <3>1. k[1] \in Cascading /\ i \in Rows(d, k[1])
      BY CascadeKeysIn
    <3>2. Dangles(d, k, i) \/ k[3] \in Cascading
      OBVIOUS
    <3> QED  BY <3>1, <3>2 DEF Reason
  <2> HIDE DEF Follows, Sound
  <2> QED  BY <2>1
<1>3. Sweep(Sweep({})) \in SUBSET Sound
  <2>1. {} \in SUBSET Sound
    OBVIOUS
  <2> HIDE DEF Sweep, Sound
  <2> QED  BY <1>2, <2>1
<1>4. x \in Sound
  BY <1>1, <1>3
<1> QED  BY <1>4

\* The same, for a row of a table that is named.
LEMMA LostIs ==
  ASSUME NEW d, NEW t, NEW i, <<t, i>> \in Lost(d)
  PROVE  Reason(d, t, i)
<1>1. PICK u, j : <<t, i>> = <<u, j>> /\ Reason(d, u, j)
  BY LostHasReason
<1> QED  BY <1>1

\* An exam with another proctor, or none.
Loosened(row, left) ==
  /\ left.class = row.class /\ left.slot = row.slot /\ left.status = row.status
  /\ left.package = row.package

\* What is left of d: rows of the tables that lose any, as they were but for
\* the proctor of a schedule; the others whole.
Remains(d, v) ==
  /\ v \in Database
  /\ \A t \in Tables \ Cascading : v[t] = d[t]
  /\ \A t \in Cascading \ {"schedules"} : \A i \in Rows(v, t) : i \in Rows(d, t) /\ v[t][i] = d[t][i]
  /\ \A t \in Cascading \ {"schedules"} : \A i \in Rows(d, t) :
       i \notin Rows(v, t) => Reason(d, t, i)
  /\ \A e \in Rows(v, "schedules") : e \in Rows(d, "schedules") /\ Loosened(d.schedules[e], v.schedules[e])
  /\ \A e \in Rows(d, "schedules") : e \notin Rows(v, "schedules") => Reason(d, "schedules", e)

\* A schedule that loses its proctor is a schedule.
LEMMA LooseRow ==
  ASSUME NEW d \in Database, NEW i \in Rows(d, "schedules")
  PROVE  [d.schedules[i] EXCEPT !.proctor = Null] \in Opt(Rowset["schedules"])
<1>1. [d.schedules[i] EXCEPT !.proctor = Null] \in Schedule
  BY RowsAre DEF Schedule, Opt
<1> QED  BY <1>1, RowsetIs DEF Opt

\* A cascade takes rows for a reason, and changes no other but the proctor
\* of a schedule.
LEMMA CascadedRemains ==
  ASSUME NEW d \in Database
  PROVE  Remains(d, Cascaded(d))
<1> DEFINE key == <<"schedules", "proctor", "accounts", "SET_NULL">>
           loose == {<<"schedules", i>> : i \in Dangling(d, key)}
           left(t, i) == IF <<t, i>> \in Lost(d) THEN Null
                         ELSE IF <<t, i>> \in loose THEN [d[t][i] EXCEPT !.proctor = Null] ELSE d[t][i]
           v == Cascaded(d)
<1>1. \A t \in Tables : DOMAIN d[t] = Ids[t]
  BY DatabaseIs DEF Table
<1>2. v = [t \in Tables |-> [i \in Ids[t] |-> left(t, i)]]
  BY <1>1 DEF Cascaded
<1>3. \A t \in Tables : \A i : <<t, i>> \in loose => t = "schedules" /\ i \in Rows(d, "schedules")
  BY DEF Dangling
<1>4. \A t \in Tables : \A i \in Ids[t] : d[t][i] \in Opt(Rowset[t])
  BY DatabaseIs DEF Table
<1>5. ASSUME NEW t \in Tables, NEW i \in Ids[t] PROVE left(t, i) \in Opt(Rowset[t])
  <2>1. CASE <<t, i>> \in Lost(d)
    BY <2>1 DEF Opt
  <2>2. CASE <<t, i>> \notin Lost(d) /\ <<t, i>> \in loose
    <3>1. t = "schedules" /\ i \in Rows(d, "schedules")
      BY <1>3, <2>2
    <3>2. left(t, i) = [d.schedules[i] EXCEPT !.proctor = Null]
      BY <2>2, <3>1
    <3> QED  BY <3>1, <3>2, LooseRow
  <2>3. CASE <<t, i>> \notin Lost(d) /\ <<t, i>> \notin loose
    BY <1>4, <2>3
  <2> QED  BY <2>1, <2>2, <2>3
<1>6. ASSUME NEW t \in Tables \ {"schedules"}, NEW i \in Ids[t]
      PROVE  left(t, i) = IF <<t, i>> \in Lost(d) THEN Null ELSE d[t][i]
  BY <1>3
<1>7. ASSUME NEW t \in Tables \ Cascading, NEW i \in Ids[t] PROVE left(t, i) = d[t][i]
  <2>1. <<t, i>> \notin Lost(d)
    BY LostIs DEF Reason
  <2>2. t # "schedules"
    BY DEF Cascading
  <2> QED  BY <1>6, <2>1, <2>2
<1> HIDE DEF left, loose
<1>8. v \in Database
  <2>1. v = [t \in Tables |-> v[t]] /\ \A t \in Tables : v[t] \in Table(t)
    BY <1>2, <1>5 DEF Table
  <2> HIDE DEF v
  <2> QED  BY <2>1, DatabaseIs
<1>9. \A t \in Tables : v[t] = [i \in Ids[t] |-> left(t, i)]
  BY <1>2
<1> HIDE DEF v
<1>10. ASSUME NEW t \in Tables \ Cascading PROVE v[t] = d[t]
  <2>1. d[t] = [i \in Ids[t] |-> d[t][i]]
    BY DatabaseIs DEF Table
  <2> QED  BY <1>7, <1>9, <2>1
<1>11. \A t \in Cascading : t \in Tables
  BY TableNames DEF Cascading
<1>12. ASSUME NEW t \in Cascading \ {"schedules"}, NEW i \in Rows(v, t)
       PROVE  i \in Rows(d, t) /\ v[t][i] = d[t][i]
  <2>1. t \in Tables /\ i \in Ids[t] /\ v[t][i] # Null
    BY <1>9, <1>11 DEF Rows
  <2>4. v[t][i] = left(t, i) /\ t \in Tables \ {"schedules"}
    BY <1>9, <2>1
  <2>2. v[t][i] = IF <<t, i>> \in Lost(d) THEN Null ELSE d[t][i]
    BY <1>6, <2>1, <2>4
  <2> QED  BY <1>1, <2>1, <2>2 DEF Rows
<1>13. ASSUME NEW t \in Cascading \ {"schedules"}, NEW i \in Rows(d, t), i \notin Rows(v, t)
       PROVE  Reason(d, t, i)
  <2>1. t \in Tables /\ i \in Ids[t] /\ d[t][i] # Null
    BY <1>1, <1>11 DEF Rows
  <2>4. v[t][i] = left(t, i) /\ t \in Tables \ {"schedules"}
    BY <1>9, <2>1
  <2>2. v[t][i] = IF <<t, i>> \in Lost(d) THEN Null ELSE d[t][i]
    BY <1>6, <2>1, <2>4
  <2>3. v[t][i] = Null
    BY <1>9, <1>13, <2>1 DEF Rows
  <2> QED  BY <2>1, <2>2, <2>3, LostIs
<1>14. ASSUME NEW e \in Ids.schedules, e \in Rows(d, "schedules") \cup Rows(v, "schedules"),
              <<"schedules", e>> \notin Lost(d)
       PROVE  e \in Rows(d, "schedules") /\ Loosened(d.schedules[e], v.schedules[e])
  <2>1. v.schedules[e] = left("schedules", e)
    BY <1>9, TableNames
  <2>2. left("schedules", e) = IF <<"schedules", e>> \in loose
                                THEN [d.schedules[e] EXCEPT !.proctor = Null] ELSE d.schedules[e]
    BY <1>14 DEF left
  <2>3. e \in Rows(d, "schedules")
    <3>1. CASE <<"schedules", e>> \in loose
      BY <1>3, <3>1, TableNames
    <3>2. CASE <<"schedules", e>> \notin loose
      BY <1>1, <1>14, <2>1, <2>2, <3>2, TableNames DEF Rows
    <3> QED  BY <3>1, <3>2
  <2>4. d.schedules[e] \in Schedule
    BY <2>3, RowsAre
  <2> QED  BY <2>1, <2>2, <2>3, <2>4 DEF Loosened, Schedule
<1>15. ASSUME NEW e \in Ids.schedules, <<"schedules", e>> \in Lost(d) PROVE v.schedules[e] = Null
  BY <1>9, <1>15, TableNames DEF left
<1>16. Rows(v, "schedules") \subseteq Ids.schedules /\ Rows(d, "schedules") \subseteq Ids.schedules
  BY <1>1, <1>9, TableNames DEF Rows
<1>17. \A e \in Rows(v, "schedules") : e \in Rows(d, "schedules") /\ Loosened(d.schedules[e], v.schedules[e])
  BY <1>14, <1>15, <1>16 DEF Rows
<1>18. ASSUME NEW e \in Rows(d, "schedules"), e \notin Rows(v, "schedules")
       PROVE  Reason(d, "schedules", e)
  <2>1. CASE <<"schedules", e>> \in Lost(d)
    BY <2>1, LostIs
  <2>2. CASE <<"schedules", e>> \notin Lost(d)
    <3>1. v.schedules[e] = left("schedules", e) /\ e \in Ids.schedules
      BY <1>9, <1>16, TableNames
    <3>2. left("schedules", e) # Null
      <4>1. left("schedules", e) = IF <<"schedules", e>> \in loose
                                   THEN [d.schedules[e] EXCEPT !.proctor = Null] ELSE d.schedules[e]
        BY <2>2 DEF left
      <4>2. [d.schedules[e] EXCEPT !.proctor = Null] \in Schedule /\ d.schedules[e] # Null
        BY RowsAre DEF Schedule, Opt, Rows
      <4>3. Null \notin Schedule
        BY IdsAssumption, RowsetIs, TableNames
      <4> QED  BY <4>1, <4>2, <4>3
    <3> QED  BY <1>9, <1>18, <3>1, <3>2, TableNames DEF Rows
  <2> QED  BY <2>1, <2>2
<1>19. Remains(d, v)
  BY <1>8, <1>10, <1>12, <1>13, <1>17, <1>18 DEF Remains
<1> QED  BY <1>19 DEF v

\* An enrolment is lost with its student or its class.
LEMMA EnrolmentLost ==
  ASSUME NEW d \in Database, NEW i, Reason(d, "enrolments", i)
  PROVE  \/ d.accounts[d.enrolments[i].student] = Null
         \/ d.classes[d.enrolments[i].class] = Null
<1>1. \A k \in CascadeKeys : k[1] = "enrolments" =>
        \/ k = <<"enrolments", "student", "accounts", "CASCADE">>
        \/ k = <<"enrolments", "class", "classes", "CASCADE">>
  BY DEF CascadeKeys, ForeignKeys
<1>2. PICK k \in CascadeKeys : k[1] = "enrolments" /\ (Dangles(d, k, i) \/ k[3] \in Cascading)
  BY DEF Reason
<1>3. CASE k = <<"enrolments", "student", "accounts", "CASCADE">>
  BY <1>2, <1>3 DEF Dangles, Cascading
<1>4. CASE k = <<"enrolments", "class", "classes", "CASCADE">>
  BY <1>2, <1>4 DEF Dangles, Cascading
<1> QED  BY <1>1, <1>2, <1>3, <1>4

\* A subject of a class is lost with the class or the subject.
LEMMA LessonLost ==
  ASSUME NEW d \in Database, NEW i, Reason(d, "classSubjects", i)
  PROVE  \/ d.classes[d.classSubjects[i].class] = Null
         \/ d.subjects[d.classSubjects[i].subject] = Null
<1>1. \A k \in CascadeKeys : k[1] = "classSubjects" =>
        \/ k = <<"classSubjects", "class", "classes", "CASCADE">>
        \/ k = <<"classSubjects", "subject", "subjects", "CASCADE">>
  BY DEF CascadeKeys, ForeignKeys
<1>2. PICK k \in CascadeKeys : k[1] = "classSubjects" /\ (Dangles(d, k, i) \/ k[3] \in Cascading)
  BY DEF Reason
<1>3. CASE k = <<"classSubjects", "class", "classes", "CASCADE">>
  BY <1>2, <1>3 DEF Dangles, Cascading
<1>4. CASE k = <<"classSubjects", "subject", "subjects", "CASCADE">>
  BY <1>2, <1>4 DEF Dangles, Cascading
<1> QED  BY <1>1, <1>2, <1>3, <1>4

\* A schedule is lost with its package.
LEMMA ScheduleLost ==
  ASSUME NEW d \in Database, NEW e, Reason(d, "schedules", e)
  PROVE  d.schedules[e].package # Null /\ d.packages[d.schedules[e].package] = Null
<1>1. \A k \in CascadeKeys : k[1] = "schedules" => k = <<"schedules", "package", "packages", "CASCADE">>
  BY DEF CascadeKeys, ForeignKeys
<1>2. PICK k \in CascadeKeys : k[1] = "schedules" /\ (Dangles(d, k, e) \/ k[3] \in Cascading)
  BY DEF Reason
<1> QED  BY <1>1, <1>2 DEF Dangles, Cascading

\* An item is lost with its package.
LEMMA ItemLost ==
  ASSUME NEW d \in Database, NEW i, Reason(d, "items", i)
  PROVE  d.banks[d.items[i].package] = Null
<1>1. \A k \in CascadeKeys : k[1] = "items" => k = <<"items", "package", "banks", "CASCADE">>
  BY DEF CascadeKeys, ForeignKeys
<1>2. PICK k \in CascadeKeys : k[1] = "items" /\ (Dangles(d, k, i) \/ k[3] \in Cascading)
  BY DEF Reason
<1> QED  BY <1>1, <1>2 DEF Dangles, Cascading

\* An attendance is lost with its report.
LEMMA AttendanceLost ==
  ASSUME NEW d \in Database, NEW x, Reason(d, "attendance", x)
  PROVE  d.reports[d.attendance[x].report] = Null
<1>1. \A k \in CascadeKeys : k[1] = "attendance" => k = <<"attendance", "report", "reports", "CASCADE">>
  BY DEF CascadeKeys, ForeignKeys
<1>2. PICK k \in CascadeKeys : k[1] = "attendance" /\ (Dangles(d, k, x) \/ k[3] \in Cascading)
  BY DEF Reason
<1> QED  BY <1>1, <1>2 DEF Dangles, Cascading

-----------------------------------------------------------------------------
(* What services keep; subjects and competency.                            *)

\* No service deletes an enrolment or the class of one (HasHistoricalRecords).
HistoryKept(d, v) ==
  \A n \in Rows(d, "enrolments") :
    /\ n \in Rows(v, "enrolments")
    /\ v.enrolments[n].student = d.enrolments[n].student
    /\ v.enrolments[n].class = d.enrolments[n].class
    /\ d.enrolments[n].class \in Rows(d, "classes") => d.enrolments[n].class \in Rows(v, "classes")

\* What every service keeps: whatever fits in the database it reads.  A part
\* that does not fit any more it may leave as it is.
Kept(d, v) ==
  /\ PeriodsFit(d) => PeriodsFit(v)
  /\ EnrolmentsFit(d) => EnrolmentsFit(v)
  /\ LessonsFit(d) => LessonsFit(v)
  /\ TracesFit(d) => TracesFit(v)
  /\ HistoryKept(d, v)

\* What a service may leave of d: no service but delete_student, treated by
\* itself below, takes a student away.
Served(d) == {v \in Database : Kept(d, v) /\ Students(d) \subseteq Students(v)}

\* The tables none of these records lives in.
Aside == {"subjects", "competency", "packages", "schedules", "snapshots", "sessions",
          "questions", "banks", "items", "pins", "reports", "attendance"}

\* Doing nothing keeps them.
LEMMA ServedStays ==
  ASSUME NEW d \in Database
  PROVE  d \in Served(d)
  BY DEF Served, Kept, HistoryKept

\* They are kept from one service to the next.
LEMMA ServedTrans ==
  ASSUME NEW d \in Database, NEW v \in Served(d), NEW w \in Served(v)
  PROVE  w \in Served(d)
<1>1. HistoryKept(d, w)
  BY DEF Served, Kept, HistoryKept
<1> QED  BY <1>1 DEF Served, Kept

\* Years and semesters fit as long as nobody writes either.
LEMMA PeriodsFrame ==
  ASSUME NEW d \in Database, NEW v \in Database, v.years = d.years, v.semesters = d.semesters,
         PeriodsFit(d)
  PROVE  PeriodsFit(v)
  BY DEF PeriodsFit, RunningYears, InStatus, ActiveSemesters, ActiveYears, Rows

\* Enrolments fit as long as nobody writes them.
LEMMA EnrolmentsFrame ==
  ASSUME NEW d \in Database, NEW v \in Database, v.enrolments = d.enrolments, EnrolmentsFit(d)
  PROVE  EnrolmentsFit(v)
  BY DEF EnrolmentsFit, InStatus, Rows

\* So do lessons.
LEMMA LessonsFrame ==
  ASSUME NEW d \in Database, NEW v \in Database, v.teaching = d.teaching,
         v.classSubjects = d.classSubjects, LessonsFit(d)
  PROVE  LessonsFit(v)
  BY DEF LessonsFit, Rows

\* Traces fit as long as none is made and no student goes.
LEMMA TracesFrame ==
  ASSUME NEW d \in Database, NEW v \in Database, v.attempts = d.attempts,
         \A i \in Rows(v, "checkins") : i \in Rows(d, "checkins") /\ v.checkins[i] = d.checkins[i],
         Students(d) \subseteq Students(v), TracesFit(d)
  PROVE  TracesFit(v)
  BY DEF TracesFit, Rows

\* The enrolments are history as long as nobody writes them or takes classes.
LEMMA HistoryFrame ==
  ASSUME NEW d \in Database, NEW v \in Database, v.enrolments = d.enrolments,
         Rows(d, "classes") \subseteq Rows(v, "classes")
  PROVE  HistoryKept(d, v)
  BY DEF HistoryKept, Rows

\* A table that no record depends on may be written freely.
LEMMA AsideServed ==
  ASSUME NEW d \in Database, NEW v \in Database, NEW t \in Aside, SameBut(d, v, {t})
  PROVE  v \in Served(d)
<1>1. /\ v.years = d.years /\ v.semesters = d.semesters /\ v.enrolments = d.enrolments
      /\ v.teaching = d.teaching /\ v.classSubjects = d.classSubjects
      /\ v.attempts = d.attempts /\ v.checkins = d.checkins /\ v.accounts = d.accounts
      /\ v.classes = d.classes
  BY TableNames DEF SameBut, Aside
<1>2. Students(d) = Students(v) /\ Rows(d, "classes") = Rows(v, "classes")
      /\ \A i \in Rows(v, "checkins") : i \in Rows(d, "checkins") /\ v.checkins[i] = d.checkins[i]
  BY <1>1 DEF Students, Rows
<1> QED  BY <1>1, <1>2, PeriodsFrame, EnrolmentsFrame, LessonsFrame, TracesFrame, HistoryFrame
         DEF Served, Kept

\* The tables aside are tables.
LEMMA AsideTables ==
  Aside \subseteq Tables
  BY TableNames DEF Aside

\* A row may be put into a table aside.
LEMMA AsidePut ==
  ASSUME NEW d \in Database, NEW t \in Aside, NEW i, NEW row \in Opt(Rowset[t])
  PROVE  Put(d, t, i, row) \in Served(d)
  BY AsideServed, AsideTables, PutTyped, PutSame

\* A row may be inserted into a table aside.
LEMMA AsideInsert ==
  ASSUME NEW d \in Database, NEW t \in Aside, NEW row \in Rowset[t]
  PROVE  Insert(d, t, row) \in Served(d)
  BY AsideServed, AsideTables, InsertTyped, InsertSame

\* Rows of a table aside may be dropped.
LEMMA AsideDrop ==
  ASSUME NEW d \in Database, NEW t \in Aside, NEW gone
  PROVE  Drop(d, t, gone) \in Served(d)
  BY AsideServed, AsideTables, DropTyped, DropSame

\* A column of a table aside may be changed.
LEMMA AsideSet ==
  ASSUME NEW d \in Database, NEW t \in Aside, NEW hit, NEW col, NEW x,
         \A i \in hit \cap Ids[t] : [d[t][i] EXCEPT ![col] = x] \in Opt(Rowset[t])
  PROVE  Set(d, t, hit, col, x) \in Served(d)
  BY AsideServed, AsideTables, SetTyped, SetSame

\* Tables of the schedules; of the questions; of the reports of an exam.
PlanTables == {"packages", "schedules", "snapshots", "sessions"}
BankTables == {"questions", "banks", "items"}
RoomTables == {"reports", "attendance"}
ExamTables == PlanTables \cup BankTables \cup RoomTables

\* What a service on one of them leaves alone in the others.
BankSpares == PlanTables \cup RoomTables
RoomSpares == PlanTables \cup BankTables
PlanSpares == BankTables \cup RoomTables

\* What a service may leave that does not write the tables of T.
Leaving(d, T) == {v \in Served(d) : \A t \in T : v[t] = d[t]}

\* Which tables are among which.
LEMMA Spares ==
  /\ {"subjects", "competency", "pins", "checkins", "years", "semesters", "classes", "accounts",
      "enrolments", "teaching", "classSubjects"} \cap ExamTables = {}
  /\ {"competency", "questions", "banks", "items"} \cap BankSpares = {}
  /\ {"packages", "schedules", "snapshots", "sessions"} \cap PlanSpares = {}
  /\ {"packages", "schedules", "snapshots", "sessions", "questions", "banks", "items"} \cap RoomTables = {}
  /\ {"reports", "attendance"} \cap RoomSpares = {}
  /\ ExamTables \subseteq Tables /\ PlanSpares \subseteq Tables /\ RoomTables \subseteq Tables
  /\ BankSpares \subseteq Tables /\ RoomSpares \subseteq Tables
  BY TableNames DEF ExamTables, BankSpares, RoomSpares, PlanSpares, PlanTables, BankTables,
         RoomTables

\* Leaving more alone is leaving less alone.
LEMMA LeavingLess ==
  ASSUME NEW d
  PROVE  Leaving(d, ExamTables) \subseteq Leaving(d, BankSpares)
  BY DEF Leaving, ExamTables, BankSpares

\* Doing nothing leaves everything alone.
LEMMA LeavingStays ==
  ASSUME NEW d \in Database, NEW T
  PROVE  d \in Leaving(d, T)
  BY ServedStays DEF Leaving

\* Tables are left alone from one service to the next.
LEMMA LeavingTrans ==
  ASSUME NEW T, NEW d \in Database, NEW v \in Leaving(d, T), NEW w \in Leaving(v, T)
  PROVE  w \in Leaving(d, T)
  BY ServedTrans DEF Leaving

\* It is a service that leaves them alone.
LEMMA LeavingServes ==
  ASSUME NEW d, NEW T
  PROVE  Leaving(d, T) \subseteq Served(d) /\ Leaving(d, T) \subseteq Database
  BY DEF Leaving, Served

\* A service that writes one table aside leaves the others alone.
LEMMA LeavingBut ==
  ASSUME NEW d, NEW T \in SUBSET Tables, NEW S, S \cap T = {}, NEW v \in Served(d), SameBut(d, v, S)
  PROVE  v \in Leaving(d, T)
  BY DEF Leaving, SameBut

\* A table aside may be written freely, the others left alone.
LEMMA LeavingAside ==
  ASSUME NEW d \in Database, NEW v \in Database, NEW T \in SUBSET Tables, NEW t \in Aside, t \notin T,
         SameBut(d, v, {t})
  PROVE  v \in Leaving(d, T)
<1>1. {t} \cap T = {} /\ v \in Served(d)
  BY AsideServed
<1> QED  BY <1>1, LeavingBut

\* A row may be put there,
LEMMA LeavingPut ==
  ASSUME NEW d \in Database, NEW T \in SUBSET Tables, NEW t \in Aside, t \notin T,
         NEW i, NEW row \in Opt(Rowset[t])
  PROVE  Put(d, t, i, row) \in Leaving(d, T)
  BY LeavingAside, AsideTables, PutTyped, PutSame

\* inserted,
LEMMA LeavingInsert ==
  ASSUME NEW d \in Database, NEW T \in SUBSET Tables, NEW t \in Aside, t \notin T, NEW row \in Rowset[t]
  PROVE  Insert(d, t, row) \in Leaving(d, T)
  BY LeavingAside, AsideTables, InsertTyped, InsertSame

\* dropped,
LEMMA LeavingDrop ==
  ASSUME NEW d \in Database, NEW T \in SUBSET Tables, NEW t \in Aside, t \notin T, NEW gone
  PROVE  Drop(d, t, gone) \in Leaving(d, T)
  BY LeavingAside, AsideTables, DropTyped, DropSame

\* or changed.
LEMMA LeavingSet ==
  ASSUME NEW d \in Database, NEW T \in SUBSET Tables, NEW t \in Aside, t \notin T,
         NEW hit, NEW col, NEW x,
         \A i \in hit \cap Ids[t] : [d[t][i] EXCEPT ![col] = x] \in Opt(Rowset[t])
  PROVE  Set(d, t, hit, col, x) \in Leaving(d, T)
  BY LeavingAside, AsideTables, SetTyped, SetSame

\* The rows of a table that is not written stay.
LEMMA RowsSame ==
  ASSUME NEW d \in Database, NEW v \in Database, NEW S, SameBut(d, v, S), NEW t \in Tables \ S
  PROVE  Rows(v, t) = Rows(d, t)
  BY DEF SameBut, Rows

\* The rows that Drop leaves.
LEMMA DropRows ==
  ASSUME NEW d \in Database, NEW t \in Tables, NEW gone
  PROVE  Rows(Drop(d, t, gone), t) = Rows(d, t) \ gone
<1>1. d[t] \in [Ids[t] -> Opt(Rowset[t])]
  BY DatabaseIs DEF Table
<1>2. Drop(d, t, gone)[t] = [i \in Ids[t] |-> IF i \in gone THEN Null ELSE d[t][i]]
  BY DropIs
<1> QED  BY <1>1, <1>2 DEF Rows

\* The rows that Put leaves.
LEMMA PutRows ==
  ASSUME NEW d \in Database, NEW t \in Tables, NEW i \in Ids[t], NEW row \in Rowset[t]
  PROVE  Rows(Put(d, t, i, row), t) = Rows(d, t) \cup {i}
<1>1. d[t] \in [Ids[t] -> Opt(Rowset[t])] /\ row # Null
  BY DatabaseIs, IdsAssumption DEF Table
<1>2. Put(d, t, i, row)[t] = [j \in Ids[t] |-> IF j = i THEN row ELSE d[t][j]]
  BY PutIs
<1> QED  BY <1>1, <1>2 DEF Rows

\* Set neither makes nor takes rows.
LEMMA SetRows ==
  ASSUME NEW d \in Database, NEW t \in Tables, NEW hit, NEW col, NEW x,
         hit \subseteq Rows(d, t),
         \A i \in hit : [d[t][i] EXCEPT ![col] = x] \in Rowset[t]
  PROVE  Rows(Set(d, t, hit, col, x), t) = Rows(d, t)
<1>1. d[t] \in [Ids[t] -> Opt(Rowset[t])]
  BY DatabaseIs DEF Table
<1>2. \A i \in hit : [d[t][i] EXCEPT ![col] = x] # Null
  BY IdsAssumption
<1>3. Set(d, t, hit, col, x)[t] =
           [i \in Ids[t] |-> IF i \in hit THEN [d[t][i] EXCEPT ![col] = x] ELSE d[t][i]]
  BY SetIs
<1> QED  BY <1>1, <1>2, <1>3 DEF Rows

\* An update of a table aside, and what it leaves.
LEMMA AsideUpdate ==
  ASSUME NEW d \in Database, NEW t \in Aside, NEW hit, NEW col, NEW x,
         \A i \in hit : i \in Rows(d, t) /\ [d[t][i] EXCEPT ![col] = x] \in Rowset[t]
  PROVE  /\ Set(d, t, hit, col, x) \in Served(d)
         /\ Rows(Set(d, t, hit, col, x), t) = Rows(d, t)
         /\ SameBut(d, Set(d, t, hit, col, x), {t})
<1>1. t \in Tables
  BY AsideTables
<1>2. \A i \in hit \cap Ids[t] : [d[t][i] EXCEPT ![col] = x] \in Opt(Rowset[t])
  BY DEF Opt
<1>3. hit \subseteq Rows(d, t) /\ \A i \in hit : [d[t][i] EXCEPT ![col] = x] \in Rowset[t]
  OBVIOUS
<1>4. Set(d, t, hit, col, x) \in Served(d)
  BY <1>2, AsideSet
<1>5. Rows(Set(d, t, hit, col, x), t) = Rows(d, t)
  BY <1>1, <1>3, SetRows
<1> QED  BY <1>1, <1>4, <1>5, SetSame

\* What a service leaves is a database.
LEMMA ServedInDatabase ==
  ASSUME NEW d
  PROVE Served(d) \subseteq Database
  BY DEF Served

\* A request over several things keeps what each of them keeps.
LEMMA BulkServed ==
  ASSUME NEW d \in Database, NEW service, IsFiniteSet(DOMAIN service),
         \A x \in DOMAIN service : \A v \in Database : service[x][v] \subseteq Served(v)
  PROVE  Each(service, d) \subseteq Served(d)
<1>1. \A x \in DOMAIN service : \A v \in Served(d) : service[x][v] \subseteq Served(d)
  BY ServedTrans, ServedInDatabase
<1> QED  BY <1>1, ServedStays, EachKeeps

\* What each of several requests leaves alone, the request over all does.
LEMMA BulkLeaving ==
  ASSUME NEW T, NEW d \in Database, NEW service, IsFiniteSet(DOMAIN service),
         \A x \in DOMAIN service : \A v \in Database : service[x][v] \subseteq Leaving(v, T)
  PROVE  Each(service, d) \subseteq Leaving(d, T)
<1>1. \A x \in DOMAIN service : \A v \in Leaving(d, T) : service[x][v] \subseteq Leaving(d, T)
  BY LeavingTrans, LeavingServes
<1> QED  BY <1>1, LeavingStays, EachKeeps

\* A database written in one table aside is one a service may leave.
LEMMA LeavingUpdate ==
  ASSUME NEW d \in Database, NEW T \in SUBSET Tables, NEW t \in Aside, t \notin T,
         NEW hit, NEW col, NEW x,
         \A i \in hit : i \in Rows(d, t) /\ [d[t][i] EXCEPT ![col] = x] \in Rowset[t]
  PROVE  Set(d, t, hit, col, x) \in Leaving(d, T)
<1>1. Set(d, t, hit, col, x) \in Served(d) /\ SameBut(d, Set(d, t, hit, col, x), {t})
  BY AsideUpdate
<1>2. {t} \cap T = {}
  OBVIOUS
<1> QED  BY <1>1, <1>2, LeavingBut

\* SubjectService: a subject is made.
LEMMA CreateSubjectServed ==
  ASSUME NEW d \in Database, NEW n \in STRING
  PROVE  CreateSubject(d, n) \subseteq Leaving(d, ExamTables)
<1>1. [code |-> n, active |-> TRUE] \in Rowset["subjects"]
  BY RowsetIs DEF Subject
<1> QED  BY <1>1, LeavingInsert, Spares DEF CreateSubject, Given, Aside

\* Subjects are switched on or off.
LEMMA SwitchServed ==
  ASSUME NEW d \in Database, NEW S \in SUBSET Rows(d, "subjects"), NEW on \in BOOLEAN
  PROVE  Set(d, "subjects", S, "active", on) \in Leaving(d, ExamTables)
<1>1. \A s \in S : [d.subjects[s] EXCEPT !["active"] = on] \in Subject
  BY RowsAre DEF Subject
<1> QED  BY <1>1, LeavingUpdate, Spares, RowsetIs DEF Aside

\* update_subject.
LEMMA UpdateSubjectServed ==
  ASSUME NEW d \in Database, NEW s, NEW n, NEW on \in BOOLEAN
  PROVE  UpdateSubject(d, s, n, on) \subseteq Leaving(d, ExamTables)
  BY SwitchServed DEF UpdateSubject, Given

\* delete_subject, which switches off what is in use.
LEMMA DeleteSubjectServed ==
  ASSUME NEW d \in Database, NEW s
  PROVE  DeleteSubject(d, s) \subseteq Leaving(d, ExamTables)
  BY SwitchServed, LeavingDrop, Spares DEF DeleteSubject, Given, Aside

\* Several subjects are switched at once.
LEMMA SwitchSubjectsServed ==
  ASSUME NEW d \in Database, NEW S, NEW on \in BOOLEAN
  PROVE  SwitchSubjects(d, S, on) \subseteq Leaving(d, ExamTables)
  BY SwitchServed DEF SwitchSubjects

\* Whatever is chosen among the ids of a table is finite.
LEMMA IdsFinite ==
  ASSUME NEW t \in Tables, NEW S \in SUBSET Ids[t]
  PROVE  IsFiniteSet(S)
  BY IdsAssumption, FS_Subset

\* Several subjects are deleted at once.
LEMMA DeleteSubjectsServed ==
  ASSUME NEW d \in Database, NEW S
  PROVE  DeleteSubjects(d, S) \subseteq Leaving(d, ExamTables)
<1> DEFINE service == [s \in S \cap Rows(d, "subjects") |-> [v \in Database |-> DeleteSubject(v, s)]]
<1>1. IsFiniteSet(DOMAIN service)
  BY IdsFinite, RowsAre, TableNames
<1>2. \A s \in DOMAIN service : \A v \in Database : service[s][v] \subseteq Leaving(v, ExamTables)
  BY DeleteSubjectServed
<1>3. DeleteSubjects(d, S) = Each(service, d)
  BY DEF DeleteSubjects
<1> QED  BY <1>1, <1>2, <1>3, BulkLeaving

\* import of subjects.
LEMMA ImportSubjectsServed ==
  ASSUME NEW d \in Database, NEW codes \in SUBSET STRING, IsFiniteSet(codes)
  PROVE  ImportSubjects(d, codes) \subseteq Leaving(d, ExamTables)
<1> DEFINE service == [n \in codes |-> [v \in Database |-> CreateSubject(v, n)]]
<1>1. \A n \in DOMAIN service : \A v \in Database : service[n][v] \subseteq Leaving(v, ExamTables)
  BY CreateSubjectServed
<1>2. ImportSubjects(d, codes) = Each(service, d)
  BY DEF ImportSubjects
<1> QED  BY <1>1, <1>2, BulkLeaving

\* A teacher may teach a subject.
LEMMA AssignCompetencyServed ==
  ASSUME NEW d \in Database, NEW a, NEW s
  PROVE  AssignCompetency(d, a, s) \subseteq Leaving(d, ExamTables)
<1>1. CASE a \in Rows(d, "accounts") /\ s \in Rows(d, "subjects")
  <2>1. [teacher |-> a, subject |-> s] \in Rowset["competency"]
    BY <1>1, RowsAre, RowsetIs DEF TeacherSubject
  <2> QED  BY <2>1, LeavingPut, Spares, LeavingStays, Spares DEF AssignCompetency, Given, Paired,
         Aside, Opt
<1> QED  BY <1>1 DEF AssignCompetency, Given

\* A teacher may teach a subject no longer.
LEMMA UnassignCompetencyServed ==
  ASSUME NEW d \in Database, NEW a, NEW s
  PROVE  UnassignCompetency(d, a, s) \subseteq Leaving(d, ExamTables)
  BY LeavingDrop, Spares DEF UnassignCompetency, Aside

-----------------------------------------------------------------------------
(* Exam schedules, packages and snapshots.                                 *)

\* On top of what a service has left, rows of a table aside may be dropped.
LEMMA DropOn ==
  ASSUME NEW d \in Database, NEW T \in SUBSET Tables, NEW v \in Leaving(d, T), NEW t \in Aside, t \notin T, NEW gone
  PROVE  Drop(v, t, gone) \in Leaving(d, T) /\ SameBut(v, Drop(v, t, gone), {t})
  BY LeavingServes, LeavingDrop, LeavingTrans, DropSame, AsideTables

\* On top of what a service has left, a row may be put into a table aside.
LEMMA PutOn ==
  ASSUME NEW d \in Database, NEW T \in SUBSET Tables, NEW v \in Leaving(d, T), NEW t \in Aside, t \notin T, NEW i, NEW row \in Rowset[t]
  PROVE  Put(v, t, i, row) \in Leaving(d, T) /\ SameBut(v, Put(v, t, i, row), {t})
<1>1. row \in Opt(Rowset[t])
  BY DEF Opt
<1> QED  BY <1>1, LeavingServes, LeavingPut, LeavingTrans, PutSame, AsideTables

\* On top of what a service has left, a row may be inserted there.
LEMMA InsertOn ==
  ASSUME NEW d \in Database, NEW T \in SUBSET Tables, NEW v \in Leaving(d, T), NEW t \in Aside, t \notin T, NEW row \in Rowset[t]
  PROVE  Insert(v, t, row) \in Leaving(d, T) /\ SameBut(v, Insert(v, t, row), {t})
  BY LeavingServes, LeavingInsert, LeavingTrans, InsertSame, AsideTables

\* On top of what a service has left, a column there may be changed.
LEMMA SetOn ==
  ASSUME NEW d \in Database, NEW T \in SUBSET Tables, NEW v \in Leaving(d, T), NEW t \in Aside, t \notin T, NEW hit, NEW col, NEW x,
         \A i \in hit : i \in Rows(v, t) /\ [v[t][i] EXCEPT ![col] = x] \in Rowset[t]
  PROVE  /\ Set(v, t, hit, col, x) \in Leaving(d, T)
         /\ Rows(Set(v, t, hit, col, x), t) = Rows(v, t)
         /\ SameBut(v, Set(v, t, hit, col, x), {t})
<1>1. v \in Database
  BY LeavingServes
<1>2. /\ Set(v, t, hit, col, x) \in Served(v)
      /\ Rows(Set(v, t, hit, col, x), t) = Rows(v, t)
      /\ SameBut(v, Set(v, t, hit, col, x), {t})
  BY <1>1, AsideUpdate
<1>3. {t} \cap T = {}
  OBVIOUS
<1>4. Set(v, t, hit, col, x) \in Leaving(v, T)
  BY <1>2, <1>3, LeavingBut
<1> QED  BY <1>2, <1>4, LeavingTrans

\* One column of one row is written.
LEMMA SetOne ==
  ASSUME NEW d \in Database, NEW T \in SUBSET Tables, NEW v \in Leaving(d, T), NEW t \in Aside, t \notin T,
         NEW i \in Rows(v, t), NEW col, NEW x, [v[t][i] EXCEPT ![col] = x] \in Rowset[t]
  PROVE  /\ Set(v, t, {i}, col, x) \in Leaving(d, T)
         /\ Rows(Set(v, t, {i}, col, x), t) = Rows(v, t)
         /\ SameBut(v, Set(v, t, {i}, col, x), {t})
<1>1. \A j \in {i} : j \in Rows(v, t) /\ [v[t][j] EXCEPT ![col] = x] \in Rowset[t]
  OBVIOUS
<1> QED  BY <1>1, SetOn

\* Schedules change their status.
LEMMA StatusSet ==
  ASSUME NEW d \in Database, NEW T \in SUBSET Tables, NEW v \in Leaving(d, T), NEW hit \in SUBSET Rows(v, "schedules"),
         NEW x \in ScheduleStatus, "schedules" \notin T
  PROVE  /\ Set(v, "schedules", hit, "status", x) \in Leaving(d, T)
         /\ Rows(Set(v, "schedules", hit, "status", x), "schedules") = Rows(v, "schedules")
         /\ SameBut(v, Set(v, "schedules", hit, "status", x), {"schedules"})
<1>1. \A i \in hit : [v.schedules[i] EXCEPT !["status"] = x] \in Schedule
  BY RowsAre, LeavingServes DEF Schedule
<1> QED  BY <1>1, SetOn, RowsetIs DEF Aside

\* Schedules change their proctor.
LEMMA ProctorSet ==
  ASSUME NEW d \in Database, NEW T \in SUBSET Tables, "schedules" \notin T, NEW hit \in SUBSET Rows(d, "schedules"), NEW x \in Opt(Ids.accounts)
  PROVE  Set(d, "schedules", hit, "proctor", x) \in Leaving(d, T)
<1>1. \A i \in hit : [d.schedules[i] EXCEPT !["proctor"] = x] \in Schedule
  BY RowsAre DEF Schedule
<1> QED  BY <1>1, SetOn, LeavingStays, RowsetIs DEF Aside

\* Schedules are called off.
LEMMA CancelServed ==
  ASSUME NEW d \in Database, NEW T \in SUBSET Tables, "schedules" \notin T, NEW hit \in SUBSET Rows(d, "schedules")
  PROVE  Set2(d, hit, "status", "CANCELLED", "package", Null) \in Leaving(d, T)
<1> DEFINE v == Set(d, "schedules", hit, "status", "CANCELLED")
<1>1. v \in Leaving(d, T) /\ hit \subseteq Rows(v, "schedules")
  BY StatusSet, LeavingStays DEF ScheduleStatus
<1> HIDE DEF v
<1>2. \A i \in hit : [v.schedules[i] EXCEPT !["package"] = Null] \in Schedule
  BY <1>1, RowsAre, LeavingServes DEF Schedule, Opt
<1>3. Set(v, "schedules", hit, "package", Null) \in Leaving(d, T)
  BY <1>1, <1>2, SetOn, RowsetIs DEF Aside
<1> QED  BY <1>3 DEF Set2, v

\* Who teaches a subject in a class has an account.
LEMMA TaughtRow ==
  ASSUME NEW d \in Database, NEW k \in Ids.classes, NEW s \in Ids.subjects,
         d.teaching[<<k, s>>] # Null
  PROVE  d.teaching[<<k, s>>].teacher \in Ids.accounts
<1>1. d["teaching"] \in [Ids["teaching"] -> Opt(Rowset["teaching"])]
  BY DatabaseIs, TableNames DEF Table
<1>2. <<k, s>> \in Rows(d, "teaching")
  BY <1>1, IdsAre DEF Rows
<1> QED  BY <1>2, RowsAre DEF ClassSubjectTeacher

\* create_exam_schedule.
LEMMA CreateScheduleServed ==
  ASSUME NEW d \in Database, NEW p \in Opt(Ids.packages), NEW y, NEW m, NEW k, NEW s,
         NEW slot \in Nat \X Nat, NEW proctor
  PROVE  CreateSchedule(d, p, y, m, k, s, slot, proctor) \subseteq Leaving(d, PlanSpares)
<1> DEFINE row == [package |-> p, year |-> y, semester |-> m, class |-> k, subject |-> s,
                   teacher |-> d.teaching[<<k, s>>].teacher, proctor |-> proctor, slot |-> slot,
                   status |-> "DRAFT"]
<1>1. SUFFICES ASSUME /\ Ordered(slot) /\ y \in Rows(d, "years") /\ m \in SemestersOf(d, y)
                      /\ k \in Rows(d, "classes") /\ s \in Rows(d, "subjects")
                      /\ d.teaching[<<k, s>>] # Null
                      /\ proctor # Null => proctor \in Rows(d, "accounts")
               PROVE  Insert(d, "schedules", row) \in Leaving(d, PlanSpares)
  BY DEF CreateSchedule, Given
<1>2. /\ y \in Ids.years /\ m \in Ids.semesters /\ k \in Ids.classes /\ s \in Ids.subjects
      /\ proctor \in Opt(Ids.accounts) /\ slot \in Slot
  BY <1>1, RowsAre DEF SemestersOf, Opt, Ordered, Slot
<1>3. d.teaching[<<k, s>>].teacher \in Ids.accounts
  BY <1>1, <1>2, TaughtRow
<1>4. row \in Schedule
  BY <1>2, <1>3 DEF Schedule, ScheduleStatus
<1> HIDE DEF row
<1> QED  BY <1>4, RowsetIs, LeavingInsert, Spares DEF Aside

\* update_exam_schedule.
LEMMA UpdateScheduleServed ==
  ASSUME NEW d \in Database, NEW e, NEW m, NEW k \in Opt(Ids.classes), NEW s \in Opt(Ids.subjects),
         NEW slot \in Opt(Nat \X Nat), NEW proctor \in Opt(Ids.accounts),
         NEW status \in Opt(ScheduleStatus)
  PROVE  UpdateSchedule(d, e, m, k, s, slot, proctor, status) \subseteq Leaving(d, PlanSpares)
<1> DEFINE old == d.schedules[e]
           Keep(x, col) == IF x = Null THEN old[col] ELSE x
           pair == <<Keep(k, "class"), Keep(s, "subject")>>
           placed == k # Null \/ s # Null
           row == [old EXCEPT !.semester = Keep(m, "semester"), !.class = pair[1],
                                !.subject = pair[2], !.slot = Keep(slot, "slot"),
                                !.proctor = Keep(proctor, "proctor"),
                                !.status = Keep(status, "status"),
                                !.teacher = IF placed THEN d.teaching[pair].teacher ELSE @]
<1>1. SUFFICES ASSUME /\ e \in Rows(d, "schedules") /\ Ordered(Keep(slot, "slot"))
                      /\ m # Null => m \in SemestersOf(d, old.year)
                      /\ placed => d.teaching[pair] # Null
               PROVE  Put(d, "schedules", e, row) \in Leaving(d, PlanSpares)
  BY DEF UpdateSchedule, Given
<1>2. old \in Schedule
  BY <1>1, RowsAre
<1>3. /\ Keep(m, "semester") \in Ids.semesters /\ Keep(k, "class") \in Ids.classes
      /\ Keep(s, "subject") \in Ids.subjects /\ Keep(proctor, "proctor") \in Opt(Ids.accounts)
      /\ Keep(status, "status") \in ScheduleStatus
  BY <1>1, <1>2, RowsAre DEF SemestersOf, Opt, Schedule
<1>4. Keep(slot, "slot") \in Slot
  BY <1>1, <1>2 DEF Opt, Schedule, Slot, Ordered
<1>5. placed => d.teaching[pair].teacher \in Ids.accounts
  BY <1>1, <1>3, TaughtRow
<1>6. row \in Schedule
  <2> DEFINE kept(x, col) == Keep(x, col)
  <2> HIDE DEF Keep, placed
  <2> QED  BY <1>2, <1>3, <1>4, <1>5 DEF Schedule
<1> HIDE DEF row
<1> QED  BY <1>6, RowsetIs, LeavingPut, Spares DEF Aside, Opt

\* assign_proctor.
LEMMA AssignProctorServed ==
  ASSUME NEW d \in Database, NEW e, NEW a
  PROVE  AssignProctor(d, e, a) \subseteq Leaving(d, PlanSpares)
<1>1. a = Null \/ a \in Rows(d, "accounts") => a \in Opt(Ids.accounts)
  BY RowsAre DEF Opt
<1> QED  BY <1>1, ProctorSet, Spares DEF AssignProctor, Given

\* delete_exam_schedule.
LEMMA DeleteScheduleServed ==
  ASSUME NEW d \in Database, NEW e
  PROVE  DeleteSchedule(d, e) \subseteq Leaving(d, PlanSpares)
<1>1. e \in Rows(d, "schedules") => Set2(d, {e}, "status", "CANCELLED", "package", Null) \in Leaving(d, PlanSpares)
  BY CancelServed, Spares
<1>2. Drop(Drop(d, "snapshots", SnapshotsOf(d, e)), "schedules", {e}) \in Leaving(d, PlanSpares)
  BY LeavingStays, DropOn, Spares DEF Aside
<1> QED  BY <1>1, <1>2 DEF DeleteSchedule, Given

\* create_schedule_package.
LEMMA CreateSchedulePackageServed ==
  ASSUME NEW d \in Database, NEW y
  PROVE  CreateSchedulePackage(d, y) \subseteq Leaving(d, PlanSpares)
<1>1. y \in Rows(d, "years") => [year |-> y, closed |-> FALSE] \in Rowset["packages"]
  BY RowsAre, RowsetIs DEF SchedulePackage
<1> QED  BY <1>1, LeavingInsert, Spares DEF CreateSchedulePackage, Given, Aside

\* delete_schedule_package.
LEMMA DeleteSchedulePackageServed ==
  ASSUME NEW d \in Database, NEW p
  PROVE  DeleteSchedulePackage(d, p) \subseteq Leaving(d, PlanSpares)
<1> DEFINE held == {e \in SchedulesIn(d, p) : Held(d, e)}
           gone == SchedulesIn(d, p) \ held
           kept == Set2(d, held, "status", "CANCELLED", "package", Null)
           emptied == Drop(Drop(kept, "snapshots", UNION {SnapshotsOf(d, e) : e \in gone}),
                           "sessions", UNION {SessionsOf(d, e) : e \in gone})
<1>1. kept \in Leaving(d, PlanSpares)
  BY CancelServed, Spares DEF SchedulesIn
<1>2. emptied \in Leaving(d, PlanSpares)
  <2> HIDE DEF kept
  <2> QED  BY <1>1, DropOn, Spares DEF Aside
<1>3. Drop(Drop(emptied, "schedules", gone), "packages", {p}) \in Leaving(d, PlanSpares)
  <2> HIDE DEF emptied, gone
  <2> QED  BY <1>2, DropOn, Spares DEF Aside
<1> QED  BY <1>3 DEF DeleteSchedulePackage, Given

\* A package is closed with its schedules.
LEMMA ClosedServed ==
  ASSUME NEW d \in Database, NEW p \in Rows(d, "packages")
  PROVE  Closed(d, p) \in Leaving(d, PlanSpares)
<1> DEFINE v == Set(d, "packages", {p}, "closed", TRUE)
           over == {e \in SchedulesIn(d, p) : d.schedules[e].status # "CANCELLED"}
<1>1. [d.packages[p] EXCEPT !["closed"] = TRUE] \in SchedulePackage
  BY RowsAre DEF SchedulePackage
<1>2. v \in Leaving(d, PlanSpares) /\ SameBut(d, v, {"packages"})
  BY <1>1, SetOn, LeavingStays, RowsetIs, Spares DEF Aside
<1>3. over \subseteq Rows(v, "schedules")
  <2>1. Rows(v, "schedules") = Rows(d, "schedules")
    <3> HIDE DEF v
    <3> QED  BY <1>2, RowsSame, TableNames, LeavingServes
  <2> QED  BY <2>1 DEF SchedulesIn
<1>4. Set(v, "schedules", over, "status", "COMPLETED") \in Leaving(d, PlanSpares)
  <2> HIDE DEF v, over
  <2> QED  BY <1>2, <1>3, StatusSet, Spares DEF ScheduleStatus
<1> QED  BY <1>4 DEF Closed

\* A package is closed by the administrator, or by whoever looks at it in time.
LEMMA ClosePackageServed ==
  ASSUME NEW d \in Database, NEW p, NEW n
  PROVE  ClosePackage(d, p) \subseteq Leaving(d, PlanSpares) /\ AutoClose(d, p, n) \subseteq Leaving(d, PlanSpares)
  BY ClosedServed DEF ClosePackage, AutoClose, Given

\* import of schedules.
LEMMA ImportSchedulesServed ==
  ASSUME NEW d \in Database, NEW p, NEW file, IsFiniteSet(file),
         \A x \in file : x[3] \in Nat \X Nat
  PROVE  ImportSchedules(d, p, file) \subseteq Leaving(d, PlanSpares)
<1> DEFINE y == d.packages[p].year
           service == [x \in file |-> [v \in Database |->
        UNION {CreateSchedule(v, p, y, m, k, s, Stored(x[3]), a) :
                 m \in ImportSemesters(d, y), k \in ClassNamed(d, y, x[1]),
                 s \in SubjectCoded(d, x[2]),
                 a \in IF x[4] = Null THEN {Null} ELSE TeacherCoded(d, x[4])}]]
<1>5. \/ ImportSchedules(d, p, file) = {}
      \/ p \in Rows(d, "packages") /\ ImportSchedules(d, p, file) = Each(service, d)
  BY DEF ImportSchedules
<1>1. SUFFICES ASSUME p \in Rows(d, "packages")
               PROVE  Each(service, d) \subseteq Leaving(d, PlanSpares)
  <2> HIDE DEF service
  <2> QED  BY <1>5
<1>2. p \in Opt(Ids.packages)
  BY <1>1, RowsAre DEF Opt
<1>3. \A x \in file : Stored(x[3]) \in Nat \X Nat
  BY InputsAssumption DEF Stored
<1>4. \A x \in DOMAIN service : \A v \in Database : service[x][v] \subseteq Leaving(v, PlanSpares)
  <2> TAKE x \in DOMAIN service
  <2> TAKE v \in Database
  <2>1. \A m, k, s, a : CreateSchedule(v, p, y, m, k, s, Stored(x[3]), a) \subseteq Leaving(v, PlanSpares)
    BY <1>2, <1>3, CreateScheduleServed
  <2> QED  BY <2>1
<1>6. IsFiniteSet(DOMAIN service)
  OBVIOUS
<1> HIDE DEF service
<1> QED  BY <1>4, <1>6, BulkLeaving

\* create_immutable_snapshot.
LEMMA CreateSnapshotServed ==
  ASSUME NEW d \in Database, NEW a, NEW e, NEW b
  PROVE  CreateSnapshot(d, a, e, b) \subseteq Leaving(d, PlanSpares)
<1> DEFINE v == Set(d, "schedules", {e}, "status", "READY")
           row == [schedule |-> e, package |-> b, teacher |-> a, class |-> d.schedules[e].class,
                   subject |-> d.schedules[e].subject, questions |-> Frozen(d, b)]
<1>1. SUFFICES ASSUME /\ e \in Rows(d, "schedules") /\ d.schedules[e].teacher = a
                      /\ b \in Rows(d, "banks")
               PROVE  Insert(v, "snapshots", row) \in Leaving(d, PlanSpares)
  BY DEF CreateSnapshot, Given
<1>2. Frozen(d, b) \subseteq Ids.questions
  BY RowsAre DEF Frozen, ItemsOf, Item
<1>3. row \in Snapshot
  BY <1>1, <1>2, RowsAre DEF Snapshot, Schedule
<1>4. v \in Leaving(d, PlanSpares)
  BY <1>1, StatusSet, LeavingStays, Spares DEF ScheduleStatus
<1> HIDE DEF v, row
<1> QED  BY <1>3, <1>4, InsertOn, RowsetIs, Spares DEF Aside

\* unassign_teacher_assignment.
LEMMA UnassignSnapshotServed ==
  ASSUME NEW d \in Database, NEW a, NEW e
  PROVE  UnassignSnapshot(d, a, e) \subseteq Leaving(d, PlanSpares)
<1> DEFINE v == Drop(d, "snapshots", SnapshotsOf(d, e))
<1>1. SUFFICES ASSUME e \in Rows(d, "schedules")
               PROVE  Set(v, "schedules", {e}, "status", "DRAFT") \in Leaving(d, PlanSpares)
  BY DEF UnassignSnapshot, Given
<1>2. v \in Leaving(d, PlanSpares) /\ SameBut(d, v, {"snapshots"})
  BY LeavingStays, DropOn, Spares DEF Aside
<1>3. {e} \subseteq Rows(v, "schedules")
  BY <1>1, <1>2, RowsSame, TableNames, LeavingServes
<1> HIDE DEF v
<1> QED  BY <1>2, <1>3, StatusSet, Spares DEF ScheduleStatus

\* The first poll opens the session of a schedule.
LEMMA OpenSessionServed ==
  ASSUME NEW d \in Database, NEW e \in Rows(d, "schedules"), NEW n
  PROVE  OpenSession(d, e, n) \subseteq Leaving(d, PlanSpares)
<1>1. [schedule |-> e, slot |-> d.schedules[e].slot,
       status |-> IF Begun(d, e, n) THEN "ACTIVE" ELSE "PLANNED"] \in Session
  BY RowsAre, IdsAre DEF Session, Schedule, SessionStatus
<1> QED  BY <1>1, RowsetIs, LeavingInsert, Spares DEF OpenSession, Given, Aside

\* list_my_schedules.
LEMMA StudentPollServed ==
  ASSUME NEW d \in Database, NEW a, NEW e, NEW n
  PROVE  StudentPoll(d, a, e, n) \subseteq Leaving(d, PlanSpares)
<1>1. e \in MySchedules(d, a) => e \in Rows(d, "schedules")
  BY DEF MySchedules
<1>2. ASSUME NEW i \in SessionsOf(d, e)
      PROVE  Set(d, "sessions", {i}, "status", "ACTIVE") \in Leaving(d, PlanSpares)
  <2>1. i \in Rows(d, "sessions")
    BY DEF SessionsOf
  <2>2. [d.sessions[i] EXCEPT !["status"] = "ACTIVE"] \in Session
    BY <2>1, RowsAre DEF Session, SessionStatus
  <2> QED  BY <2>1, <2>2, SetOne, LeavingStays, RowsetIs, Spares DEF Aside
<1> QED  BY <1>1, <1>2, OpenSessionServed DEF StudentPoll

\* list_proctor_assignments.
LEMMA ProctorPollServed ==
  ASSUME NEW d \in Database, NEW a, NEW e, NEW n
  PROVE  ProctorPoll(d, a, e, n) \subseteq Leaving(d, PlanSpares)
  BY OpenSessionServed DEF ProctorPoll, Startable, InStatus

-----------------------------------------------------------------------------
(* Questions and the packages of the bank.                                 *)

\* The greatest of finitely many numbers is one of them.
LEMMA MaxIsMember ==
  ASSUME NEW S \in SUBSET Int, IsFiniteSet(S), S # {}
  PROVE  Max(S) \in S
<1> DEFINE Above(x) == {y \in S : y >= x}
           Sizes == {Cardinality(Above(x)) : x \in S}
<1>1. \A x \in S : IsFiniteSet(Above(x)) /\ Cardinality(Above(x)) \in Nat
  BY FS_Subset, FS_CardinalityType
<1>6. Sizes \subseteq Nat /\ Sizes # {}
  BY <1>1
<1>2. PICK m \in Sizes : \A k \in Sizes : ~(<<k, m>> \in OpToRel(<, Nat))
  BY <1>6, WFMin, NatLessThanWellFounded
<1>3. PICK x \in S : m = Cardinality(Above(x))
  BY <1>2
<1>4. ASSUME NEW y \in S, y > x PROVE FALSE
  <2>4. \A z \in S : z \in Int /\ x \in Int /\ y \in Int
    OBVIOUS
  <2>5. \A z \in S : z >= y => z >= x
    BY <1>4, <2>4
  <2>6. x >= x /\ ~(x >= y)
    BY <1>4, <2>4
  <2>1. Above(y) \subseteq Above(x) /\ x \in Above(x) /\ x \notin Above(y)
    BY <2>5, <2>6
  <2>2. Cardinality(Above(y)) < Cardinality(Above(x))
    <3> HIDE DEF Above
    <3>1. Cardinality(Above(y)) <= Cardinality(Above(x)) /\ Cardinality(Above(y)) # Cardinality(Above(x))
      BY <1>1, <2>1, FS_Subset
    <3>2. Cardinality(Above(y)) \in Nat /\ Cardinality(Above(x)) \in Nat
      BY <1>1
    <3> QED  BY <3>1, <3>2
  <2>3. <<Cardinality(Above(y)), m>> \in OpToRel(<, Nat)
    <3> HIDE DEF Above
    <3>1. Cardinality(Above(y)) \in Nat /\ m \in Nat /\ Cardinality(Above(y)) < m
      BY <1>1, <1>3, <2>2
    <3> QED  BY <3>1 DEF OpToRel
  <2> QED  BY <1>2, <2>3
<1>5. \A y \in S : x >= y
  BY <1>4
<1> QED  BY <1>5 DEF Max

\* A table aside may be written as a whole.
LEMMA AsideTable ==
  ASSUME NEW T \in SUBSET Tables, NEW d \in Database, NEW v \in Leaving(d, T), NEW t \in Aside, t \notin T,
         NEW f \in Table(t)
  PROVE  /\ [v EXCEPT ![t] = f] \in Leaving(d, T)
         /\ SameBut(v, [v EXCEPT ![t] = f], {t})
<1> DEFINE w == [v EXCEPT ![t] = f]
<1>1. v \in Database /\ t \in Tables
  BY LeavingServes, AsideTables
<1>2. w = [o \in Tables |-> w[o]] /\ w[t] = f /\ SameBut(v, w, {t})
  BY <1>1, DatabaseIs DEF SameBut
<1>3. \A o \in Tables : w[o] \in Table(o)
  BY <1>1, <1>2, DatabaseIs DEF SameBut
<1>4. w \in Database
  <2> HIDE DEF w
  <2> QED  BY <1>2, <1>3, DatabaseIs
<1>5. w \in Leaving(v, T)
  BY <1>1, <1>2, <1>4, LeavingAside
<1> QED  BY <1>2, <1>5, LeavingTrans

\* A teacher makes a question.
LEMMA CreateQuestionServed ==
  ASSUME NEW d \in Database, NEW a \in Ids.accounts, NEW type \in QuestionType,
         NEW content \in STRING
  PROVE  CreateQuestion(d, a, type, content) \subseteq Leaving(d, BankSpares)
<1>1. [owner |-> a, type |-> type, content |-> content] \in Question
  BY DEF Question
<1> QED  BY <1>1, LeavingInsert, RowsetIs, Spares DEF CreateQuestion, Given, Aside

\* A teacher edits a question.
LEMMA UpdateQuestionServed ==
  ASSUME NEW d \in Database, NEW a, NEW q, NEW content \in STRING
  PROVE  UpdateQuestion(d, a, q, content) \subseteq Leaving(d, BankSpares)
<1>1. SUFFICES ASSUME q \in Rows(d, "questions")
               PROVE  Set(d, "questions", {q}, "content", content) \in Leaving(d, BankSpares)
  BY DEF UpdateQuestion, Given, Owns
<1>2. [d.questions[q] EXCEPT !["content"] = content] \in Question
  BY <1>1, RowsAre DEF Question
<1> QED  BY <1>1, <1>2, SetOne, LeavingStays, RowsetIs, Spares DEF Aside

\* A teacher deletes a question.
LEMMA DeleteQuestionServed ==
  ASSUME NEW d \in Database, NEW a, NEW q
  PROVE  DeleteQuestion(d, a, q) \subseteq Leaving(d, BankSpares)
  BY LeavingDrop, Spares DEF DeleteQuestion, Given, Aside

\* QuestionBankImportService.
LEMMA ImportQuestionsServed ==
  ASSUME NEW d \in Database, NEW a \in Ids.accounts, NEW file, IsFiniteSet(file),
         \A r \in file : r.content \in STRING
  PROVE  ImportQuestions(d, a, file) \subseteq Leaving(d, BankSpares)
<1> DEFINE known(r) == \E q \in Rows(d, "questions") : Owns(d, a, q) /\ SameQuestion(d.questions[q], r)
           service == [r \in {r \in file : ~known(r)} |-> [v \in Database |->
                         CreateQuestion(v, a, r.type, r.content)]]
<1>1. \/ ImportQuestions(d, a, file) = {}
      \/ (\A r \in file : ValidRow(r)) /\ ImportQuestions(d, a, file) = Each(service, d)
  BY DEF ImportQuestions
<1>2. SUFFICES ASSUME \A r \in file : ValidRow(r)
               PROVE  Each(service, d) \subseteq Leaving(d, BankSpares)
  <2> HIDE DEF service
  <2> QED  BY <1>1
<1>3. \A r \in file : r.type \in QuestionType
  BY <1>2 DEF ValidRow, ValidPG, ValidIS, ValidES, QuestionType
<1>4. \A r \in DOMAIN service : \A v \in Database : service[r][v] \subseteq Leaving(v, BankSpares)
  <2> HIDE DEF known
  <2> QED  BY <1>3, CreateQuestionServed
<1>5. DOMAIN service \subseteq file
  <2> HIDE DEF known
  <2> QED  OBVIOUS
<1>6. IsFiniteSet(DOMAIN service)
  <2> HIDE DEF service
  <2> QED  BY <1>5, FS_Subset
<1> HIDE DEF service
<1> QED  BY <1>4, <1>6, BulkLeaving

\* create_package.
LEMMA CreatePackageServed ==
  ASSUME NEW d \in Database, NEW a \in Ids.accounts, NEW target \in [QuestionType -> Nat]
  PROVE  CreatePackage(d, a, target) \subseteq Leaving(d, BankSpares)
<1>1. [owner |-> a, target |-> target, status |-> "INCOMPLETE"] \in Bank
  BY DEF Bank
<1> QED  BY <1>1, LeavingInsert, RowsetIs, Spares DEF CreatePackage, Given, Aside

\* A package changes its status.
LEMMA BankStatusSet ==
  ASSUME NEW T \in SUBSET Tables, "banks" \notin T, NEW d \in Database, NEW v \in Leaving(d, T), NEW b \in Rows(v, "banks"),
         NEW x \in {"INCOMPLETE", "READY"}
  PROVE  Set(v, "banks", {b}, "status", x) \in Leaving(d, T)
<1>1. [v.banks[b] EXCEPT !["status"] = x] \in Bank
  BY RowsAre, LeavingServes DEF Bank
<1> QED  BY <1>1, SetOne, RowsetIs DEF Aside

\* A package is rated anew.
LEMMA RatedServed ==
  ASSUME NEW d \in Database, NEW v \in Leaving(d, BankSpares), NEW b \in Rows(v, "banks")
  PROVE  Rated(v, b) \in Leaving(d, BankSpares)
  BY BankStatusSet, Spares DEF Rated

\* A change of items leaves the packages.
LEMMA BanksSame ==
  ASSUME NEW d \in Database, NEW v \in Leaving(d, BankSpares), SameBut(d, v, {"items"})
  PROVE  Rows(v, "banks") = Rows(d, "banks")
  BY RowsSame, LeavingServes, TableNames

\* The last order of a package is a number.
LEMMA MaxOrderTyped ==
  ASSUME NEW d \in Database, NEW b
  PROVE  MaxOrder(d, b) \in Int
<1> DEFINE orders == {d.items[i].order : i \in ItemsOf(d, b)}
<1>1. IsFiniteSet(ItemsOf(d, b))
  <2>1. ItemsOf(d, b) \subseteq Ids["items"]
    BY RowsAre DEF ItemsOf
  <2> QED  BY <2>1, IdsFinite, TableNames
<1>2. IsFiniteSet(orders)
  <2>1. [i \in ItemsOf(d, b) |-> d.items[i].order] \in Surjection(ItemsOf(d, b), orders)
    BY DEF Surjection
  <2> QED  BY <1>1, <2>1, FS_Surjection
<1>3. orders \subseteq Int
  BY RowsAre DEF ItemsOf, Item
<1>4. CASE ItemsOf(d, b) = {}
  BY <1>4 DEF MaxOrder
<1>5. CASE ItemsOf(d, b) # {}
  <2>1. orders # {}
    BY <1>5
  <2>2. Max(orders) \in Int
    <3> HIDE DEF orders
    <3> QED  BY <1>2, <1>3, <2>1, MaxIsMember
  <2> QED  BY <1>5, <2>2 DEF MaxOrder
<1> QED  BY <1>4, <1>5

\* A question is added to a package.
LEMMA AddQuestionServed ==
  ASSUME NEW d \in Database, NEW a, NEW b, NEW q
  PROVE  AddQuestion(d, a, b, q) \subseteq Leaving(d, BankSpares)
<1> DEFINE row == [package |-> b, question |-> q, order |-> MaxOrder(d, b) + 1]
           v == Insert(d, "items", row)
<1>1. SUFFICES ASSUME b \in Rows(d, "banks"), q \in Rows(d, "questions")
               PROVE  Rated(v, b) \in Leaving(d, BankSpares)
  BY DEF AddQuestion, Given, OwnsPackage, Owns
<1>2. MaxOrder(d, b) \in Int
  BY MaxOrderTyped
<1>3. row \in Item
  BY <1>1, <1>2, RowsAre DEF Item
<1>4. v \in Leaving(d, BankSpares) /\ SameBut(d, v, {"items"})
  <2> HIDE DEF row
  <2> QED  BY <1>3, InsertOn, LeavingStays, RowsetIs, Spares DEF Aside
<1> HIDE DEF v
<1> QED  BY <1>1, <1>4, BanksSame, RatedServed

\* The questions of a package are put in another order.
LEMMA ReorderServed ==
  ASSUME NEW d \in Database, NEW a, NEW b, NEW orders,
         \A q \in DOMAIN orders : orders[q] \in Int
  PROVE  ReorderQuestions(d, a, b, orders) \subseteq Leaving(d, BankSpares)
<1> DEFINE new(i) == IF i \in ItemsOf(d, b)
                     THEN [d.items[i] EXCEPT !.order = orders[d.items[i].question]] ELSE d.items[i]
           f == [i \in Ids.items |-> new(i)]
<1>1. d["items"] \in [Ids["items"] -> Opt(Rowset["items"])]
  BY DatabaseIs, TableNames DEF Table
<1>2. SUFFICES ASSUME DOMAIN orders = {d.items[i].question : i \in ItemsOf(d, b)}
               PROVE  [d EXCEPT !.items = f] \in Leaving(d, BankSpares)
  BY <1>1 DEF ReorderQuestions, Given
<1>3. \A i \in ItemsOf(d, b) : [d.items[i] EXCEPT !.order = orders[d.items[i].question]] \in Item
  <2>1. \A i \in ItemsOf(d, b) : d.items[i] \in Item /\ orders[d.items[i].question] \in Int
    BY <1>2, RowsAre DEF ItemsOf
  <2> QED  BY <2>1 DEF Item
<1>4. \A i \in Ids.items : new(i) \in Opt(Rowset["items"])
  BY <1>1, <1>3, RowsetIs DEF Opt
<1>5. f \in Table("items")
  <2> HIDE DEF new
  <2> QED  BY <1>4 DEF Table
<1> HIDE DEF f
<1> QED  BY <1>5, AsideTable, LeavingStays, Spares DEF Aside

\* A question is removed from a package and the others numbered anew.
LEMMA RemoveQuestionServed ==
  ASSUME NEW d \in Database, NEW a, NEW b, NEW q
  PROVE  RemoveQuestion(d, a, b, q) \subseteq Leaving(d, BankSpares)
<1> DEFINE v == Drop(d, "items", Entry(d, b, q))
           Rank(o) == Cardinality({i \in ItemsOf(v, b) : v.items[i].order <= o})
           new(i) == IF i \in ItemsOf(v, b)
                     THEN [v.items[i] EXCEPT !.order = Rank(v.items[i].order)] ELSE v.items[i]
           f == [i \in Ids.items |-> new(i)]
           w == [v EXCEPT !.items = f]
<1>1. v \in Leaving(d, BankSpares) /\ v \in Database /\ SameBut(d, v, {"items"})
  BY DropOn, LeavingStays, LeavingServes, Spares DEF Aside
<1>2. v["items"] \in [Ids["items"] -> Opt(Rowset["items"])]
  BY <1>1, DatabaseIs, TableNames DEF Table
<1>3. SUFFICES ASSUME b \in Rows(d, "banks")
               PROVE  Rated(w, b) \in Leaving(d, BankSpares)
  <2>1. w = [v EXCEPT !.items = [i \in DOMAIN @ |->
              IF i \in ItemsOf(v, b)
              THEN [@[i] EXCEPT !.order = Rank(v.items[i].order)] ELSE @[i]]]
    <3> HIDE DEF v, Rank
    <3> QED  BY <1>2
  <2> QED  BY <2>1 DEF RemoveQuestion, Given, OwnsPackage
<1>4. \A o : Rank(o) \in Int
  <2> TAKE o
  <2>1. {i \in ItemsOf(v, b) : v.items[i].order <= o} \subseteq Ids["items"]
    BY <1>1, RowsAre DEF ItemsOf
  <2>2. IsFiniteSet({i \in ItemsOf(v, b) : v.items[i].order <= o})
    BY <2>1, IdsFinite, TableNames
  <2> QED  BY <2>2, FS_CardinalityType
<1> HIDE DEF Rank
<1>5. \A i \in ItemsOf(v, b) : v.items[i] \in Item
  BY <1>1, RowsAre DEF ItemsOf
<1> HIDE DEF v
<1>6. \A i \in ItemsOf(v, b) : [v.items[i] EXCEPT !.order = Rank(v.items[i].order)] \in Item
  BY <1>4, <1>5 DEF Item
<1>7. \A i \in Ids.items : new(i) \in Opt(Rowset["items"])
  BY <1>2, <1>6, RowsetIs DEF Opt
<1>8. f \in Table("items")
  <2> HIDE DEF new
  <2> QED  BY <1>7 DEF Table
<1>9. w \in Leaving(d, BankSpares) /\ SameBut(v, w, {"items"})
  <2> HIDE DEF f
  <2> QED  BY <1>1, <1>8, AsideTable, Spares DEF Aside
<1> HIDE DEF w
<1>10. SameBut(d, w, {"items"})
  BY <1>1, <1>9 DEF SameBut
<1> QED  BY <1>3, <1>9, <1>10, BanksSame, RatedServed

\* A question of a package is replaced.
LEMMA ReplaceQuestionServed ==
  ASSUME NEW d \in Database, NEW a, NEW b, NEW old, NEW new
  PROVE  ReplaceQuestion(d, a, b, old, new) \subseteq Leaving(d, BankSpares)
<1> DEFINE v == Set(d, "items", Entry(d, b, old), "question", new)
<1>1. SUFFICES ASSUME b \in Rows(d, "banks"), new \in Rows(d, "questions")
               PROVE  Rated(v, b) \in Leaving(d, BankSpares)
  BY DEF ReplaceQuestion, Given, OwnsPackage, Owns
<1>2. \A i \in Entry(d, b, old) : i \in Rows(d, "items") /\ [d.items[i] EXCEPT !["question"] = new] \in Item
  BY <1>1, RowsAre DEF Entry, ItemsOf, Item
<1>3. v \in Leaving(d, BankSpares) /\ SameBut(d, v, {"items"})
  BY <1>2, SetOn, LeavingStays, RowsetIs, Spares DEF Aside
<1> HIDE DEF v
<1> QED  BY <1>1, <1>3, BanksSame, RatedServed

\* publish_package.
LEMMA PublishPackageServed ==
  ASSUME NEW d \in Database, NEW a, NEW b
  PROVE  PublishPackage(d, a, b) \subseteq Leaving(d, BankSpares)
  BY BankStatusSet, LeavingStays, Spares DEF PublishPackage, Given, OwnsPackage

\* A package was frozen for schedules that are there, by the key of snapshots.
LEMMA UsedForRows ==
  ASSUME NEW d \in Database, KeysHold(d), NEW b
  PROVE  UsedFor(d, b) \subseteq Rows(d, "schedules")
<1>1. d["schedules"] \in [Ids["schedules"] -> Opt(Rowset["schedules"])]
  BY DatabaseIs, TableNames DEF Table
<1>2. ASSUME NEW i \in Rows(d, "snapshots")
      PROVE  d.snapshots[i].schedule \in Rows(d, "schedules")
  <2>1. d.snapshots[i].schedule \in Ids.schedules
    BY RowsAre DEF Snapshot
  <2>2. <<"snapshots", "schedule", "schedules", "RESTRICT">> \in ForeignKeys
    BY DEF ForeignKeys
  <2>3. ~Dangles(d, <<"snapshots", "schedule", "schedules", "RESTRICT">>, i)
    BY <2>2 DEF KeysHold, Dangling
  <2>4. d.snapshots[i].schedule # Null
    BY <2>1, IdsAssumption, TableNames
  <2> QED  BY <1>1, <2>1, <2>3, <2>4 DEF Dangles, Rows
<1> QED  BY <1>2 DEF UsedFor, Uses

\* revert_to_draft.
LEMMA RevertPackageServed ==
  ASSUME NEW d \in Database, KeysHold(d), NEW a, NEW b
  PROVE  RevertPackage(d, a, b) \subseteq Leaving(d, RoomTables)
<1> DEFINE v == Set(d, "schedules", UsedFor(d, b), "status", "DRAFT")
<1>1. SUFFICES ASSUME b \in Rows(d, "banks")
               PROVE  Set(v, "banks", {b}, "status", "INCOMPLETE") \in Leaving(d, RoomTables)
  BY DEF RevertPackage, Given, Unheld, OwnsPackage
<1>2. v \in Leaving(d, RoomTables) /\ SameBut(d, v, {"schedules"})
  BY UsedForRows, StatusSet, LeavingStays, Spares DEF ScheduleStatus
<1> HIDE DEF v
<1>3. b \in Rows(v, "banks")
  BY <1>1, <1>2, RowsSame, TableNames, LeavingServes
<1> QED  BY <1>2, <1>3, BankStatusSet, Spares

\* delete_package.
LEMMA DeletePackageServed ==
  ASSUME NEW d \in Database, KeysHold(d), NEW a, NEW b
  PROVE  DeletePackage(d, a, b) \subseteq Leaving(d, RoomTables)
<1> DEFINE v == Set(d, "schedules", UsedFor(d, b), "status", "DRAFT")
           cleared == Drop(Drop(v, "snapshots", Uses(d, b)), "items", ItemsOf(d, b))
<1>1. v \in Leaving(d, RoomTables)
  BY UsedForRows, StatusSet, LeavingStays, Spares DEF ScheduleStatus
<1>2. Drop(cleared, "banks", {b}) \in Leaving(d, RoomTables)
  <2> HIDE DEF v
  <2> QED  BY <1>1, DropOn, Spares DEF Aside
<1> QED  BY <1>2 DEF DeletePackage, Given

-----------------------------------------------------------------------------
(* The day of the exam: codes, check-ins and reports.                      *)

\* get_qr_checkin_token.
LEMMA IssueCodeServed ==
  ASSUME NEW d \in Database, NEW u, NEW e, NEW pin, NEW n \in Nat
  PROVE  IssueCode(d, u, e, pin, n) \subseteq Leaving(d, ExamTables)
<1>1. e \in Rows(d, "schedules") => [schedule |-> e, expires |-> n + CodeLife] \in Pin
  BY RowsAre, IdsAre, InputsAssumption DEF Pin
<1> QED  BY <1>1, PutOn, LeavingStays, RowsetIs, Spares DEF IssueCode, Given, Aside

\* A schedule gets its report.
LEMMA WithReportServed ==
  ASSUME NEW d \in Database, NEW e \in Nat, ReportOf(d, e) # {} \/ Free(d, "reports") # {}
  PROVE  /\ WithReport(d, e) \in Leaving(d, RoomSpares)
         /\ ReportOf(WithReport(d, e), e) # {}
         /\ SameBut(d, WithReport(d, e), {"reports"})
<1> DEFINE row == [schedule |-> e, status |-> "DRAFT", submitted |-> Null]
           v == Insert(d, "reports", row)
<1>1. CASE ReportOf(d, e) # {}
  BY <1>1, LeavingStays DEF WithReport, SameBut
<1>2. CASE ReportOf(d, e) = {}
  <2>1. row \in Report
    BY DEF Report, BAUStatus, Opt
  <2>2. "reports" \in Tables /\ Ids["reports"] \subseteq Nat /\ Free(d, "reports") # {}
    BY <1>2, TableNames, IdsAre
  <2>3. PICK n \in Ids["reports"] : v["reports"] = [i \in Ids["reports"] |-> IF i = n THEN row ELSE d["reports"][i]]
    <3> HIDE DEF row
    <3> QED  BY <2>2, InsertIs
  <2>4. v.reports[n] = row /\ n \in DOMAIN v.reports
    BY <2>3
  <2>5. row # Null
    BY <2>1, RowsetIs, IdsAssumption, TableNames
  <2>6. n \in ReportOf(v, e)
    <3>1. row.schedule = e
      OBVIOUS
    <3> HIDE DEF v, row
    <3> QED  BY <2>4, <2>5, <3>1 DEF ReportOf, Rows
  <2>7. v \in Leaving(d, RoomSpares) /\ SameBut(d, v, {"reports"})
    <3> HIDE DEF row
    <3> QED  BY <2>1, InsertOn, LeavingStays, RowsetIs, Spares DEF Aside
  <2>8. WithReport(d, e) = v
    BY <1>2 DEF WithReport
  <2> HIDE DEF v
  <2> QED  BY <2>6, <2>7, <2>8
<1> QED  BY <1>1, <1>2

\* An attendance is noted.
LEMMA MarkServed ==
  ASSUME NEW d \in Database, NEW v \in Leaving(d, RoomSpares), NEW r \in Ids.reports, NEW a \in Nat,
         NEW st \in AttendanceStatus
  PROVE  Mark(v, r, a, st) \in Leaving(d, RoomSpares)
<1>1. [report |-> r, student |-> a, status |-> st] \in Attendance
  BY DEF Attendance
<1> QED  BY <1>1, PutOn, RowsetIs, Spares DEF Mark, Aside

\* auto_mark_student_present.
LEMMA MarkPresentServed ==
  ASSUME NEW d \in Database, NEW e \in Nat, NEW a \in Nat
  PROVE  MarkPresent(d, e, a) \subseteq Leaving(d, RoomSpares)
<1> DEFINE v == WithReport(d, e)
           r == CHOOSE r \in ReportOf(v, e) : TRUE
<1>1. SUFFICES ASSUME ReportOf(d, e) # {} \/ Free(d, "reports") # {}
               PROVE  Mark(v, r, a, "HADIR") \in Leaving(d, RoomSpares)
  BY DEF MarkPresent, Given
<1>2. v \in Leaving(d, RoomSpares) /\ v \in Database /\ ReportOf(v, e) # {}
  BY <1>1, WithReportServed, LeavingServes
<1> HIDE DEF v
<1>3. r \in Ids.reports
  BY <1>2, RowsAre DEF ReportOf
<1> HIDE DEF r
<1> QED  BY <1>2, <1>3, MarkServed, Spares DEF AttendanceStatus

\* A report is completed from check-ins and attempts.
LEMMA SyncedServed ==
  ASSUME NEW d \in Database, NEW v \in Leaving(d, RoomSpares), NEW r \in Ids.reports, NEW e
  PROVE  Synced(v, r, e) \in Leaving(d, RoomSpares)
<1> DEFINE Default(a) == IF a \in Present(v, e) THEN "HADIR" ELSE "ALPA"
           Stale(x) == \/ v.attendance[x] = Null
                       \/ v.attendance[x].status = "ALPA" /\ x[2] \in Present(v, e)
           new(x) == IF x[1] = r /\ x[2] \in ClassList(v, e) /\ Stale(x)
                     THEN [report |-> r, student |-> x[2], status |-> Default(x[2])]
                     ELSE v.attendance[x]
           f == [x \in Ids.attendance |-> new(x)]
<1>1. v \in Database /\ v["attendance"] \in [Ids["attendance"] -> Opt(Rowset["attendance"])]
  BY LeavingServes, DatabaseIs, TableNames DEF Table
<1>2. Synced(v, r, e) = [v EXCEPT !.attendance = f]
  BY <1>1 DEF Synced
<1>3. ClassList(v, e) \subseteq Nat
  BY <1>1, RowsAre, IdsAre DEF ClassList, InStatus, Enrolment
<1>4. \A x : x[2] \in ClassList(v, e) =>
        [report |-> r, student |-> x[2], status |-> Default(x[2])] \in Attendance
  BY <1>3 DEF Attendance, AttendanceStatus
<1>5. \A x \in Ids.attendance : new(x) \in Opt(Rowset["attendance"])
  <2> HIDE DEF Default, Stale
  <2> QED  BY <1>1, <1>4, RowsetIs DEF Opt
<1>6. f \in Table("attendance")
  <2> HIDE DEF new
  <2> QED  BY <1>5 DEF Table
<1> HIDE DEF f
<1> QED  BY <1>2, <1>6, AsideTable, Spares DEF Aside

\* A report is submitted.
LEMMA SubmittedServed ==
  ASSUME NEW d \in Database, NEW v \in Leaving(d, RoomSpares), NEW r \in Rows(v, "reports"), NEW n \in Nat
  PROVE  Submitted(v, r, n) \in Leaving(d, RoomSpares)
<1>1. [v.reports[r] EXCEPT !.status = "SUBMITTED", !.submitted = n] \in Report
  BY RowsAre, LeavingServes DEF Report, BAUStatus, Opt
<1> QED  BY <1>1, PutOn, RowsetIs, Spares DEF Submitted, Aside

\* get_or_create_bau.
LEMMA OpenReportServed ==
  ASSUME NEW d \in Database, NEW u, NEW e \in Nat, NEW n \in Nat
  PROVE  OpenReport(d, u, e, n) \subseteq Leaving(d, RoomSpares)
<1> DEFINE v == WithReport(d, e)
           r == CHOOSE r \in ReportOf(v, e) : TRUE
           known == e \in Rows(d, "schedules")
           due == known /\ v.reports[r].status = "DRAFT" /\ n >= d.schedules[e].slot[2] + Day
           sent == IF due THEN Submitted(v, r, n) ELSE v
<1>1. SUFFICES ASSUME ReportOf(d, e) # {} \/ Free(d, "reports") # {}
               PROVE  (IF known THEN Synced(sent, r, e) ELSE sent) \in Leaving(d, RoomSpares)
  BY DEF OpenReport, Given
<1>2. v \in Leaving(d, RoomSpares) /\ v \in Database /\ ReportOf(v, e) # {}
  BY <1>1, WithReportServed, LeavingServes
<1> HIDE DEF v
<1>3. r \in Rows(v, "reports") /\ r \in Ids.reports
  BY <1>2, RowsAre DEF ReportOf
<1> HIDE DEF r, due, known
<1>4. sent \in Leaving(d, RoomSpares)
  BY <1>2, <1>3, SubmittedServed, Spares
<1> HIDE DEF sent
<1> QED  BY <1>3, <1>4, SyncedServed

\* update_attendance.
LEMMA UpdateAttendanceServed ==
  ASSUME NEW d \in Database, NEW u, NEW r, NEW a \in Nat, NEW st \in AttendanceStatus, NEW n
  PROVE  UpdateAttendance(d, u, r, a, st, n) \subseteq Leaving(d, RoomSpares)
<1>1. r \in Rows(d, "reports") => r \in Ids.reports
  BY RowsAre
<1> QED  BY <1>1, MarkServed, LeavingStays, Spares DEF UpdateAttendance, Given, Editable

\* submit_bau.
LEMMA SubmitReportServed ==
  ASSUME NEW d \in Database, NEW u, NEW r, NEW n \in Nat
  PROVE  SubmitReport(d, u, r, n) \subseteq Leaving(d, RoomSpares)
  BY SubmittedServed, LeavingStays, Spares DEF SubmitReport, Given, Editable

\* A report changes its status.
LEMMA ReportStatusSet ==
  ASSUME NEW d \in Database, NEW r \in Rows(d, "reports"), NEW x \in BAUStatus
  PROVE  Set(d, "reports", {r}, "status", x) \in Leaving(d, RoomSpares)
<1>1. [d.reports[r] EXCEPT !["status"] = x] \in Report
  BY RowsAre DEF Report
<1> QED  BY <1>1, SetOne, LeavingStays, RowsetIs, Spares DEF Aside

\* A correction is asked for, and approved or refused.
LEMMA CorrectionServed ==
  ASSUME NEW d \in Database, NEW u, NEW r, NEW ok
  PROVE  RequestCorrection(d, u, r) \subseteq Leaving(d, RoomSpares) /\ ResolveCorrection(d, r, ok) \subseteq Leaving(d, RoomSpares)
  BY ReportStatusSet DEF RequestCorrection, ResolveCorrection, Given, InStatus, BAUStatus

\* The row that Insert makes, beside those there were.
LEMMA NewRow ==
  ASSUME NEW d \in Database, NEW t \in Tables, Ids[t] \subseteq Nat, Free(d, t) # {},
         NEW row \in Rowset[t]
  PROVE  LET v == Insert(d, t, row)
             n == New(d, t)
         IN /\ n \in Ids[t] \ Rows(d, t)
            /\ Rows(v, t) = Rows(d, t) \cup {n}
            /\ v[t][n] = row
            /\ \A i \in Rows(d, t) : v[t][i] = d[t][i]
<1>1. d[t] \in [Ids[t] -> Opt(Rowset[t])]
  BY DatabaseIs DEF Table
<1>2. New(d, t) \in Ids[t] /\ d[t][New(d, t)] = Null
  BY NewIsFree DEF Free
<1>3. Insert(d, t, row)[t] = [i \in Ids[t] |-> IF i = New(d, t) THEN row ELSE d[t][i]]
  BY PutIs DEF Insert
<1>4. Rows(Insert(d, t, row), t) = Rows(d, t) \cup {New(d, t)}
  BY <1>2, PutRows DEF Insert
<1> QED  BY <1>1, <1>2, <1>3, <1>4 DEF Rows

\* student_checkin: who checks in is a student.
LEMMA CheckInServed ==
  ASSUME NEW d \in Database, NEW a \in Students(d), NEW e, NEW n
  PROVE  CheckIn(d, a, e, n) \subseteq Leaving(d, ExamTables)
<1> DEFINE row == [schedule |-> e, student |-> a]
           v == Insert(d, "checkins", row)
<1>1. SUFFICES ASSUME e \in Rows(d, "schedules"), Free(d, "checkins") # {}
               PROVE  v \in Leaving(d, ExamTables)
  BY DEF CheckIn, Given, Eligible
<1>2. a \in Nat
  BY RowsAre, IdsAre DEF Students
<1>3. row \in Rowset["checkins"] /\ "checkins" \in Tables /\ Ids["checkins"] \subseteq Nat
  BY <1>1, <1>2, RowsAre, RowsetIs, TableNames, IdsAre DEF Checkin
<1>4. v \in Database /\ SameBut(d, v, {"checkins"})
  <2> HIDE DEF row
  <2> QED  BY <1>3, InsertTyped, InsertSame
<1>5. \A i \in Rows(v, "checkins") : \/ v.checkins[i] = row
                                     \/ i \in Rows(d, "checkins") /\ v.checkins[i] = d.checkins[i]
  <2> HIDE DEF row
  <2> QED  BY <1>1, <1>3, NewRow
<1>6. row.student = a
  OBVIOUS
<1> HIDE DEF v, row
<1>7. /\ v.years = d.years /\ v.semesters = d.semesters /\ v.enrolments = d.enrolments
      /\ v.teaching = d.teaching /\ v.classSubjects = d.classSubjects
      /\ v.attempts = d.attempts /\ v.accounts = d.accounts /\ v.classes = d.classes
  BY <1>4, TableNames DEF SameBut
<1>8. Students(v) = Students(d) /\ Rows(v, "classes") = Rows(d, "classes")
      /\ Rows(v, "attempts") = Rows(d, "attempts")
  BY <1>7 DEF Students, Rows
<1>9. TracesFit(d) => TracesFit(v)
  BY <1>5, <1>6, <1>7, <1>8 DEF TracesFit
<1>10. v \in Served(d)
  BY <1>4, <1>7, <1>8, <1>9, PeriodsFrame, EnrolmentsFrame, LessonsFrame, HistoryFrame
     DEF Served, Kept
<1>11. {"checkins"} \cap ExamTables = {}
  BY Spares
<1> QED  BY <1>4, <1>10, <1>11, LeavingBut, Spares

\* Check-ins may be forgotten.
LEMMA ClearServed ==
  ASSUME NEW d \in Database, NEW gone
  PROVE  Drop(d, "checkins", gone) \in Leaving(d, ExamTables)
<1> DEFINE v == Drop(d, "checkins", gone)
<1>1. v \in Database /\ SameBut(d, v, {"checkins"})
  BY DropTyped, DropSame, TableNames
<1>2. v["checkins"] = [i \in Ids["checkins"] |-> IF i \in gone THEN Null ELSE d["checkins"][i]]
  BY DropIs, TableNames
<1>3. d["checkins"] \in [Ids["checkins"] -> Opt(Rowset["checkins"])]
  BY DatabaseIs, TableNames DEF Table
<1>4. \A i \in Rows(v, "checkins") : i \in Rows(d, "checkins") /\ v.checkins[i] = d.checkins[i]
  BY <1>2, <1>3 DEF Rows
<1> HIDE DEF v
<1>7. /\ v.years = d.years /\ v.semesters = d.semesters /\ v.enrolments = d.enrolments
      /\ v.teaching = d.teaching /\ v.classSubjects = d.classSubjects
      /\ v.attempts = d.attempts /\ v.accounts = d.accounts /\ v.classes = d.classes
  BY <1>1, TableNames DEF SameBut
<1>8. Students(v) = Students(d) /\ Rows(v, "classes") = Rows(d, "classes")
  BY <1>7 DEF Students, Rows
<1>9. v \in Served(d)
  BY <1>1, <1>4, <1>7, <1>8, PeriodsFrame, EnrolmentsFrame, LessonsFrame, TracesFrame, HistoryFrame
     DEF Served, Kept
<1>10. {"checkins"} \cap ExamTables = {}
  BY Spares
<1>11. v \in Leaving(d, ExamTables)
  BY <1>1, <1>9, <1>10, LeavingBut, Spares
<1> QED  BY <1>11 DEF v

-----------------------------------------------------------------------------
(* Years and semesters.                                                    *)

\* A service that writes years and semesters alone has them to keep.
LEMMA PeriodsServed ==
  ASSUME NEW d \in Database, NEW v \in Database, SameBut(d, v, {"years", "semesters"}),
         PeriodsFit(d) => PeriodsFit(v)
  PROVE  v \in Leaving(d, ExamTables)
<1>7. /\ v.enrolments = d.enrolments
      /\ v.teaching = d.teaching /\ v.classSubjects = d.classSubjects
      /\ v.attempts = d.attempts /\ v.accounts = d.accounts /\ v.classes = d.classes
      /\ v.checkins = d.checkins
  BY TableNames DEF SameBut
<1>8. Students(v) = Students(d) /\ Rows(v, "classes") = Rows(d, "classes")
      /\ \A i \in Rows(v, "checkins") : i \in Rows(d, "checkins") /\ v.checkins[i] = d.checkins[i]
  BY <1>7 DEF Students, Rows
<1>9. v \in Served(d)
  BY <1>7, <1>8, EnrolmentsFrame, LessonsFrame, TracesFrame, HistoryFrame DEF Served, Kept
<1>10. {"years", "semesters"} \cap ExamTables = {}
  BY Spares
<1> QED  BY <1>9, <1>10, LeavingBut, Spares

\* v is d with the status of some years, or semesters, set to x.
YearsAt(d, v, hit, x) ==
  /\ v \in Database /\ SameBut(d, v, {"years"}) /\ Rows(v, "years") = Rows(d, "years")
  /\ \A y \in Rows(d, "years") : v.years[y].status = IF y \in hit THEN x ELSE d.years[y].status

\* The same of semesters, which stay in their years.
SemestersAt(d, v, hit, x) ==
  /\ v \in Database /\ SameBut(d, v, {"semesters"}) /\ Rows(v, "semesters") = Rows(d, "semesters")
  /\ \A s \in Rows(d, "semesters") :
       /\ v.semesters[s].status = IF s \in hit THEN x ELSE d.semesters[s].status
       /\ v.semesters[s].year = d.semesters[s].year

\* v is d with a year moved to a status and its semesters after it.
MovedAt(d, v, y, at, from, to) ==
  /\ v \in Database /\ SameBut(d, v, {"years", "semesters"})
  /\ Rows(v, "years") = Rows(d, "years") /\ Rows(v, "semesters") = Rows(d, "semesters")
  /\ \A z \in Rows(d, "years") : v.years[z].status = IF z = y THEN at ELSE d.years[z].status
  /\ \A s \in Rows(d, "semesters") :
       /\ v.semesters[s].year = d.semesters[s].year
       /\ v.semesters[s].status = IF d.semesters[s].year = y /\ d.semesters[s].status \in from
                                  THEN to ELSE d.semesters[s].status

\* Years change their status.
LEMMA YearsMoved ==
  ASSUME NEW d \in Database, NEW hit \in SUBSET Rows(d, "years"), NEW x \in YearStatus
  PROVE  YearsAt(d, Set(d, "years", hit, "status", x), hit, x)
<1> DEFINE v == Set(d, "years", hit, "status", x)
<1>1. \A y \in hit : [d.years[y] EXCEPT !["status"] = x] \in Year
  BY RowsAre DEF Year
<1>2. \A y \in hit : [d["years"][y] EXCEPT !["status"] = x] \in Rowset["years"]
  BY <1>1, RowsetIs
<1>3. v \in Database
  BY <1>2, SetTyped, TableNames DEF Opt
<1>4. Rows(v, "years") = Rows(d, "years")
  BY <1>2, SetRows, TableNames
<1>5. v["years"] = [i \in Ids["years"] |->
                      IF i \in hit THEN [d["years"][i] EXCEPT !["status"] = x] ELSE d["years"][i]]
  BY SetIs, TableNames
<1>7. SameBut(d, v, {"years"})
  BY SetSame, TableNames
<1> HIDE DEF v
<1>6. \A y \in Rows(d, "years") : v.years[y].status = IF y \in hit THEN x ELSE d.years[y].status
  BY <1>5, RowsAre DEF Year
<1>8. YearsAt(d, v, hit, x)
  BY <1>3, <1>4, <1>6, <1>7 DEF YearsAt
<1> QED  BY <1>8 DEF v

\* Semesters change their status.
LEMMA SemestersMoved ==
  ASSUME NEW d \in Database, NEW hit \in SUBSET Rows(d, "semesters"), NEW x \in YearStatus
  PROVE  SemestersAt(d, Set(d, "semesters", hit, "status", x), hit, x)
<1> DEFINE v == Set(d, "semesters", hit, "status", x)
<1>1. \A y \in hit : [d.semesters[y] EXCEPT !["status"] = x] \in Semester
  BY RowsAre DEF Semester
<1>2. \A y \in hit : [d["semesters"][y] EXCEPT !["status"] = x] \in Rowset["semesters"]
  BY <1>1, RowsetIs
<1>3. v \in Database
  BY <1>2, SetTyped, TableNames DEF Opt
<1>4. Rows(v, "semesters") = Rows(d, "semesters")
  BY <1>2, SetRows, TableNames
<1>5. v["semesters"] = [i \in Ids["semesters"] |->
         IF i \in hit THEN [d["semesters"][i] EXCEPT !["status"] = x] ELSE d["semesters"][i]]
  BY SetIs, TableNames
<1>7. SameBut(d, v, {"semesters"})
  BY SetSame, TableNames
<1> HIDE DEF v
<1>6. \A y \in Rows(d, "semesters") :
              /\ v.semesters[y].status = IF y \in hit THEN x ELSE d.semesters[y].status
              /\ v.semesters[y].year = d.semesters[y].year
  BY <1>5, RowsAre DEF Semester
<1>8. SemestersAt(d, v, hit, x)
  BY <1>3, <1>4, <1>6, <1>7 DEF SemestersAt
<1> QED  BY <1>8 DEF v

\* Where no year begins to run and no semester to be active, they fit as before.
LEMMA PeriodsShrink ==
  ASSUME NEW d \in Database, NEW v \in Database, PeriodsFit(d),
         RunningYears(v) \subseteq RunningYears(d),
         \A s \in InStatus(v, "semesters", {"ACTIVE"}) :
           /\ s \in InStatus(d, "semesters", {"ACTIVE"})
           /\ v.semesters[s].year = d.semesters[s].year
           /\ d.semesters[s].year \in ActiveYears(d) => d.semesters[s].year \in ActiveYears(v)
  PROVE  PeriodsFit(v)
  BY DEF PeriodsFit, ActiveSemesters

\* A table that is not written stays.
LEMMA SameTable ==
  ASSUME NEW d, NEW v, NEW S, SameBut(d, v, S), NEW t \in Tables \ S
  PROVE  v[t] = d[t]
  BY DEF SameBut

\* create_academic_year: a new year is only planned.
LEMMA CreateYearServed ==
  ASSUME NEW d \in Database, NEW span \in Nat \X Nat
  PROVE  CreateYear(d, span) \subseteq Leaving(d, ExamTables)
<1> DEFINE row == [span |-> span, status |-> "PLANNED"]
           v == Insert(d, "years", row)
           n == New(d, "years")
<1>1. SUFFICES ASSUME span[1] < span[2], Free(d, "years") # {}
               PROVE  v \in Leaving(d, ExamTables)
  BY DEF CreateYear, Given
<1>2. row \in Year /\ row.status = "PLANNED"
  BY <1>1 DEF Year, YearStatus, Slot
<1> HIDE DEF row
<1>3. v \in Database /\ SameBut(d, v, {"years"})
  BY <1>2, RowsetIs, InsertTyped, InsertSame, TableNames
<1>4. /\ n \notin Rows(d, "years") /\ Rows(v, "years") = Rows(d, "years") \cup {n}
      /\ v["years"][n] = row /\ \A i \in Rows(d, "years") : v["years"][i] = d["years"][i]
  BY <1>1, <1>2, RowsetIs, IdsAre, TableNames, NewRow
<1> HIDE DEF v, n
<1>5. v.semesters = d.semesters
  BY <1>3, TableNames DEF SameBut
<1>6. RunningYears(v) = RunningYears(d) /\ ActiveYears(v) = ActiveYears(d)
  BY <1>2, <1>4 DEF RunningYears, ActiveYears, InStatus
<1>7. InStatus(v, "semesters", {"ACTIVE"}) = InStatus(d, "semesters", {"ACTIVE"})
  BY <1>5 DEF InStatus, Rows
<1>8. PeriodsFit(d) => PeriodsFit(v)
  BY <1>3, <1>5, <1>6, <1>7, PeriodsShrink
<1>9. SameBut(d, v, {"years", "semesters"})
  BY <1>3 DEF SameBut
<1> QED  BY <1>3, <1>8, <1>9, PeriodsServed

\* delete_academic_year, of a year that is only planned.
LEMMA DeleteYearServed ==
  ASSUME NEW d \in Database, NEW y
  PROVE  DeleteYear(d, y) \subseteq Leaving(d, ExamTables)
<1> DEFINE w == Drop(d, "semesters", SemestersOf(d, y))
           v == Drop(w, "years", {y})
<1>1. SUFFICES ASSUME y \in InStatus(d, "years", {"PLANNED"})
               PROVE  v \in Leaving(d, ExamTables)
  BY DEF DeleteYear, Given
<1>2. /\ w \in Database /\ SameBut(d, w, {"semesters"})
      /\ w["semesters"] = [i \in Ids["semesters"] |->
                             IF i \in SemestersOf(d, y) THEN Null ELSE d["semesters"][i]]
  BY DropTyped, DropSame, DropIs, TableNames
<1> HIDE DEF w
<1>3. /\ v \in Database /\ SameBut(w, v, {"years"})
      /\ v["years"] = [i \in Ids["years"] |-> IF i \in {y} THEN Null ELSE w["years"][i]]
  BY <1>2, DropTyped, DropSame, DropIs, TableNames
<1> HIDE DEF v
<1>4. /\ w.years = d.years /\ v.semesters = w.semesters
      /\ SameBut(d, v, {"years", "semesters"})
  BY <1>2, <1>3, TableNames DEF SameBut
<1>5. d["years"] \in [Ids["years"] -> Opt(Rowset["years"])]
      /\ d["semesters"] \in [Ids["semesters"] -> Opt(Rowset["semesters"])]
  BY DatabaseIs, TableNames DEF Table
<1>6. Rows(v, "years") = Rows(d, "years") \ {y} /\ \A z \in Rows(v, "years") : v.years[z] = d.years[z]
  BY <1>3, <1>4, <1>5 DEF Rows
<1>7. \A s \in Rows(v, "semesters") : s \in Rows(d, "semesters") /\ v.semesters[s] = d.semesters[s]
  BY <1>2, <1>4, <1>5 DEF Rows
<1>8. RunningYears(v) = RunningYears(d) /\ ActiveYears(v) = ActiveYears(d)
  BY <1>1, <1>6 DEF RunningYears, ActiveYears, InStatus
<1>9. PeriodsFit(d) => PeriodsFit(v)
  BY <1>3, <1>7, <1>8, PeriodsShrink DEF InStatus
<1> QED  BY <1>3, <1>4, <1>9, PeriodsServed

\* A year goes to a status, and its semesters after it.
LEMMA Moved ==
  ASSUME NEW d \in Database, NEW y \in Rows(d, "years"), NEW to \in YearStatus, NEW from,
         NEW at \in YearStatus
  PROVE  MovedAt(d, Move(Set(d, "years", {y}, "status", at), y, from, to), y, at, from, to)
<1> DEFINE w == Set(d, "years", {y}, "status", at)
           hit == {s \in SemestersOf(w, y) : w.semesters[s].status \in from}
           v == Set(w, "semesters", hit, "status", to)
<1>1. YearsAt(d, w, {y}, at)
  BY YearsMoved
<1> HIDE DEF w
<1>3. w \in Database /\ hit \in SUBSET Rows(w, "semesters")
  BY <1>1 DEF SemestersOf, YearsAt
<1>4. SemestersAt(w, v, hit, to)
  <2> HIDE DEF hit
  <2> QED  BY <1>3, SemestersMoved
<1> HIDE DEF v
<1>5. w.semesters = d.semesters /\ v.years = w.years /\ SameBut(d, v, {"years", "semesters"})
  BY <1>1, <1>4, TableNames DEF SameBut, YearsAt, SemestersAt
<1>6. Rows(w, "semesters") = Rows(d, "semesters") /\ Rows(v, "years") = Rows(w, "years")
  BY <1>5 DEF Rows
<1>7. \A s \in Rows(d, "semesters") :
         s \in hit <=> d.semesters[s].year = y /\ d.semesters[s].status \in from
  BY <1>5, <1>6 DEF SemestersOf
<1>8. MovedAt(d, v, y, at, from, to)
  <2> HIDE DEF hit
  <2> QED  BY <1>1, <1>4, <1>5, <1>6, <1>7 DEF YearsAt, SemestersAt, MovedAt
<1> QED  BY <1>8 DEF v, w, Move

\* close_academic_year.
LEMMA CloseYearServed ==
  ASSUME NEW d \in Database, NEW y
  PROVE  CloseYear(d, y) \subseteq Leaving(d, ExamTables)
<1> DEFINE v == Move(Set(d, "years", {y}, "status", "PENDING_ARCHIVE"), y, {"ACTIVE"}, "PENDING_ARCHIVE")
<1>1. SUFFICES ASSUME y \in ActiveYears(d)
               PROVE  v \in Leaving(d, ExamTables)
  BY DEF CloseYear, Given
<1>2. y \in Rows(d, "years") /\ d.years[y].status = "ACTIVE"
  BY <1>1 DEF ActiveYears, InStatus
<1>3. MovedAt(d, v, y, "PENDING_ARCHIVE", {"ACTIVE"}, "PENDING_ARCHIVE")
  BY <1>2, Moved DEF YearStatus
<1> HIDE DEF v
<1>4. RunningYears(v) = RunningYears(d)
  BY <1>2, <1>3 DEF RunningYears, InStatus, MovedAt
<1>5. \A s \in InStatus(v, "semesters", {"ACTIVE"}) :
           /\ s \in InStatus(d, "semesters", {"ACTIVE"})
           /\ v.semesters[s].year = d.semesters[s].year
           /\ d.semesters[s].year # y
  BY <1>3 DEF InStatus, MovedAt
<1>6. \A z \in ActiveYears(d) : z # y => z \in ActiveYears(v)
  BY <1>3 DEF ActiveYears, InStatus, MovedAt
<1>8. v \in Database /\ SameBut(d, v, {"years", "semesters"})
  BY <1>3 DEF MovedAt
<1>7. PeriodsFit(d) => PeriodsFit(v)
  BY <1>4, <1>5, <1>6, <1>8, PeriodsShrink
<1> QED  BY <1>7, <1>8, PeriodsServed

\* finalize_archive.
LEMMA FinalizeArchiveServed ==
  ASSUME NEW d \in Database, NEW y
  PROVE  FinalizeArchive(d, y) \subseteq Leaving(d, ExamTables)
<1> DEFINE v == Move(Set(d, "years", {y}, "status", "ARCHIVED"), y, {"PENDING_ARCHIVE"}, "ARCHIVED")
<1>1. SUFFICES ASSUME y \in InStatus(d, "years", {"PENDING_ARCHIVE"})
               PROVE  v \in Leaving(d, ExamTables)
  BY DEF FinalizeArchive, Archived, Given
<1>2. y \in Rows(d, "years") /\ d.years[y].status = "PENDING_ARCHIVE"
  BY <1>1 DEF InStatus
<1>3. MovedAt(d, v, y, "ARCHIVED", {"PENDING_ARCHIVE"}, "ARCHIVED")
  BY <1>2, Moved DEF YearStatus
<1> HIDE DEF v
<1>4. RunningYears(v) \subseteq RunningYears(d)
  BY <1>2, <1>3 DEF RunningYears, InStatus, MovedAt
<1>5. \A s \in InStatus(v, "semesters", {"ACTIVE"}) :
           /\ s \in InStatus(d, "semesters", {"ACTIVE"})
           /\ v.semesters[s].year = d.semesters[s].year
  BY <1>3 DEF InStatus, MovedAt
<1>6. \A z \in ActiveYears(d) : z \in ActiveYears(v)
  BY <1>2, <1>3 DEF ActiveYears, InStatus, MovedAt
<1>8. v \in Database /\ SameBut(d, v, {"years", "semesters"})
  BY <1>3 DEF MovedAt
<1>7. PeriodsFit(d) => PeriodsFit(v)
  BY <1>4, <1>5, <1>6, <1>8, PeriodsShrink
<1> QED  BY <1>7, <1>8, PeriodsServed

\* When no year is running, one and its first semester may be opened.
LEMMA OpenedServed ==
  ASSUME NEW d \in Database, NEW y \in Rows(d, "years")
  PROVE  /\ Opened(d, y) \in Database /\ SameBut(d, Opened(d, y), {"years", "semesters"})
         /\ PeriodsFit(d) /\ RunningYears(d) = {} => PeriodsFit(Opened(d, y))
<1> DEFINE first == {s \in SemestersOf(d, y) : \A o \in SemestersOf(d, y) : s <= o}
           w == Set(d, "years", {y}, "status", "ACTIVE")
           v == Set(w, "semesters", first, "status", "ACTIVE")
<1>1. YearsAt(d, w, {y}, "ACTIVE")
  BY YearsMoved DEF YearStatus
<1> HIDE DEF w
<1>2. w \in Database /\ SameBut(d, w, {"years"}) /\ w.semesters = d.semesters
  BY <1>1, TableNames DEF YearsAt, SameBut
<1>3. first \in SUBSET Rows(w, "semesters")
  BY <1>2 DEF SemestersOf, Rows
<1>4. \A s, o \in first : s = o
  <2>1. \A s \in first : s \in Nat
    BY RowsAre, IdsAre DEF SemestersOf
  <2>2. \A s, o \in first : s <= o /\ o <= s
    OBVIOUS
  <2> HIDE DEF first
  <2> QED  BY <2>1, <2>2
<1>9. \A s \in first : s \in Rows(d, "semesters") /\ d.semesters[s].year = y
  BY DEF SemestersOf
<1> HIDE DEF first
<1>5. SemestersAt(w, v, first, "ACTIVE")
  BY <1>2, <1>3, SemestersMoved DEF YearStatus
<1> HIDE DEF v
<1>6. v \in Database /\ SameBut(d, v, {"years", "semesters"}) /\ v.years = w.years
  BY <1>2, <1>5, TableNames DEF SemestersAt, SameBut
<1>7. ASSUME PeriodsFit(d), RunningYears(d) = {}
      PROVE  PeriodsFit(v)
  <2>1. InStatus(d, "semesters", {"ACTIVE"}) = {}
    BY <1>7 DEF PeriodsFit, ActiveSemesters, ActiveYears, RunningYears, InStatus
  <2>2. InStatus(v, "semesters", {"ACTIVE"}) \subseteq first
    BY <1>2, <1>5, <2>1 DEF SemestersAt, InStatus, Rows
  <2>3. RunningYears(v) \subseteq {y} /\ y \in ActiveYears(v)
    BY <1>1, <1>6, <1>7 DEF YearsAt, RunningYears, ActiveYears, InStatus, Rows
  <2>4. \A s \in first : v.semesters[s].year = y
    BY <1>2, <1>3, <1>5, <1>9 DEF SemestersAt, SemestersOf
  <2> QED  BY <1>4, <2>2, <2>3, <2>4 DEF PeriodsFit, ActiveSemesters
<1> QED  BY <1>6, <1>7 DEF Opened, v, w, first

\* rollover: the old year is closed or archived before the new one opens.
LEMMA RolloverServed ==
  ASSUME NEW d \in Database, NEW new
  PROVE  Rollover(d, new) \subseteq Leaving(d, ExamTables)
<1> DEFINE all == {"ACTIVE", "PENDING_ARCHIVE"}
<1>1. SUFFICES ASSUME new \in InStatus(d, "years", {"PLANNED"})
               PROVE  Rollover(d, new) \subseteq Leaving(d, ExamTables)
  BY DEF Rollover
<1>2. new \in Rows(d, "years")
  BY <1>1 DEF InStatus
<1>3. RunningYears(d) = {} => Opened(d, new) \in Leaving(d, ExamTables)
  BY <1>2, OpenedServed, PeriodsServed
<1>4. ASSUME NEW y \in RunningYears(d)
      PROVE  Opened(Archived(d, y, all), new) \in Leaving(d, ExamTables)
  <2> DEFINE w == Archived(d, y, all)
             v == Opened(w, new)
  <2>1. y \in Rows(d, "years") /\ d.years[y].status \in all
    BY DEF RunningYears, InStatus
  <2>2. MovedAt(d, w, y, "ARCHIVED", all, "ARCHIVED")
    <3> HIDE DEF all
    <3> QED  BY <2>1, Moved DEF Archived, YearStatus
  <2> HIDE DEF w
  <2>3. /\ w \in Database /\ new \in Rows(w, "years")
        /\ SameBut(d, w, {"years", "semesters"})
    BY <1>2, <2>2 DEF MovedAt
  <2>4. PeriodsFit(d) => PeriodsFit(w) /\ RunningYears(w) = {}
    <3>1. SUFFICES ASSUME PeriodsFit(d)
                   PROVE  PeriodsFit(w) /\ RunningYears(w) = {}
      OBVIOUS
    <3>2. \A z \in RunningYears(d) : z = y
      BY <3>1 DEF PeriodsFit
    <3>3. RunningYears(w) = {}
      BY <2>2, <3>2 DEF RunningYears, InStatus, MovedAt
    <3>4. \A s \in InStatus(d, "semesters", {"ACTIVE"}) : d.semesters[s].year = y
      BY <3>1, <3>2 DEF PeriodsFit, ActiveSemesters, ActiveYears, RunningYears, InStatus
    <3>5. InStatus(w, "semesters", {"ACTIVE"}) = {}
      BY <2>2, <3>4 DEF InStatus, MovedAt
    <3> QED  BY <3>3, <3>5 DEF PeriodsFit
  <2>5. v \in Database /\ SameBut(w, v, {"years", "semesters"}) /\ (PeriodsFit(d) => PeriodsFit(v))
    BY <2>3, <2>4, OpenedServed
  <2> HIDE DEF v
  <2>6. SameBut(d, v, {"years", "semesters"})
    BY <2>3, <2>5 DEF SameBut
  <2>7. v \in Leaving(d, ExamTables)
    BY <2>5, <2>6, PeriodsServed
  <2> QED  BY <2>7 DEF v, w
<1> QED  BY <1>3, <1>4 DEF Rollover

\* create_semester.
LEMMA CreateSemesterServed ==
  ASSUME NEW d \in Database, NEW y
  PROVE  CreateSemester(d, y) \subseteq Leaving(d, ExamTables)
<1> DEFINE row == [year |-> y, status |-> "PLANNED"]
           v == Insert(d, "semesters", row)
           n == New(d, "semesters")
<1>1. SUFFICES ASSUME y \in Rows(d, "years"), Free(d, "semesters") # {}
               PROVE  v \in Leaving(d, ExamTables)
  BY DEF CreateSemester, Given
<1>2. row \in Semester /\ row.status = "PLANNED"
  BY <1>1, RowsAre DEF Semester, YearStatus
<1> HIDE DEF row
<1>3. v \in Database /\ SameBut(d, v, {"semesters"})
  BY <1>2, RowsetIs, InsertTyped, InsertSame, TableNames
<1>4. /\ n \notin Rows(d, "semesters") /\ Rows(v, "semesters") = Rows(d, "semesters") \cup {n}
      /\ v["semesters"][n] = row
      /\ \A i \in Rows(d, "semesters") : v["semesters"][i] = d["semesters"][i]
  BY <1>1, <1>2, RowsetIs, IdsAre, TableNames, NewRow
<1> HIDE DEF v, n
<1>5. v.years = d.years /\ SameBut(d, v, {"years", "semesters"})
  BY <1>3, TableNames DEF SameBut
<1>6. RunningYears(v) = RunningYears(d) /\ ActiveYears(v) = ActiveYears(d)
  BY <1>5 DEF RunningYears, ActiveYears, InStatus, Rows
<1>7. \A s \in InStatus(v, "semesters", {"ACTIVE"}) :
        s \in InStatus(d, "semesters", {"ACTIVE"}) /\ v.semesters[s].year = d.semesters[s].year
  BY <1>2, <1>4 DEF InStatus
<1>8. PeriodsFit(d) => PeriodsFit(v)
  BY <1>3, <1>6, <1>7, PeriodsShrink
<1> QED  BY <1>3, <1>5, <1>8, PeriodsServed

\* activate_semester, of the active year, ends the others.
LEMMA ActivateSemesterServed ==
  ASSUME NEW d \in Database, NEW s
  PROVE  ActivateSemester(d, s) \subseteq Leaving(d, ExamTables)
<1> DEFINE y == d.semesters[s].year
           Activated(gone) ==
             Set(Set(d, "semesters", gone \cap SemestersOf(d, y), "status", "ARCHIVED"),
                 "semesters", {s}, "status", "ACTIVE")
<1>1. SUFFICES ASSUME s \in Rows(d, "semesters"), y \in ActiveYears(d)
               PROVE  ActivateSemester(d, s) \subseteq Leaving(d, ExamTables)
  BY DEF ActivateSemester
<1>2. ASSUME NEW gone, PeriodsFit(d) => ActiveSemesters(d) \subseteq gone
      PROVE  Activated(gone) \in Leaving(d, ExamTables)
  <2> DEFINE hit == gone \cap SemestersOf(d, y)
             w == Set(d, "semesters", hit, "status", "ARCHIVED")
             v == Set(w, "semesters", {s}, "status", "ACTIVE")
  <2>1. hit \in SUBSET Rows(d, "semesters")
    BY DEF SemestersOf
  <2>8. \A o \in Rows(d, "semesters") : o \in hit <=> o \in gone /\ d.semesters[o].year = y
    BY DEF SemestersOf
  <2> HIDE DEF hit
  <2>2. SemestersAt(d, w, hit, "ARCHIVED")
    BY <2>1, SemestersMoved DEF YearStatus
  <2> HIDE DEF w
  <2>3. w \in Database /\ {s} \in SUBSET Rows(w, "semesters")
    BY <1>1, <2>2 DEF SemestersAt
  <2>4. SemestersAt(w, v, {s}, "ACTIVE")
    BY <2>3, SemestersMoved DEF YearStatus
  <2> HIDE DEF v
  <2>5. v \in Database /\ SameBut(d, v, {"years", "semesters"}) /\ v.years = d.years
    BY <2>2, <2>4, TableNames DEF SemestersAt, SameBut
  <2>6. ASSUME PeriodsFit(d) PROVE PeriodsFit(v)
    <3>1. RunningYears(v) = RunningYears(d) /\ ActiveYears(v) = ActiveYears(d)
      BY <2>5 DEF RunningYears, ActiveYears, InStatus, Rows
    <3>2. \A o \in InStatus(d, "semesters", {"ACTIVE"}) : o \in gone /\ d.semesters[o].year = y
      BY <1>1, <1>2, <2>6 DEF PeriodsFit, ActiveSemesters, ActiveYears, RunningYears, InStatus
    <3>3. \A o \in InStatus(v, "semesters", {"ACTIVE"}) : o = s
      BY <2>2, <2>4, <2>8, <3>2 DEF SemestersAt, InStatus
    <3>4. v.semesters[s].year = y
      BY <1>1, <2>2, <2>4 DEF SemestersAt
    <3> QED  BY <1>1, <2>6, <3>1, <3>3, <3>4 DEF PeriodsFit, ActiveSemesters
  <2>7. v \in Leaving(d, ExamTables)
    BY <2>5, <2>6, PeriodsServed
  <2> QED  BY <2>7 DEF v, w, hit
<1>3. ASSUME NEW o \in ActiveSemesters(d)
      PROVE  Activated({o}) \in Leaving(d, ExamTables)
  <2>1. PeriodsFit(d) => ActiveSemesters(d) \subseteq {o}
    BY DEF PeriodsFit, ActiveSemesters
  <2> HIDE DEF Activated
  <2> QED  BY <1>2, <2>1
<1> QED  BY <1>2, <1>3, LeavingStays DEF ActivateSemester

-----------------------------------------------------------------------------
(* Classes and enrolments.                                                 *)

\* A class may go when nobody is or was enrolled in it.
LEMMA ClassesServed ==
  ASSUME NEW d \in Database, NEW v \in Database, SameBut(d, v, {"classes"}),
         \A n \in Rows(d, "enrolments") :
           d.enrolments[n].class \in Rows(d, "classes") => d.enrolments[n].class \in Rows(v, "classes")
  PROVE  v \in Leaving(d, ExamTables)
<1>1. /\ v.years = d.years /\ v.semesters = d.semesters /\ v.enrolments = d.enrolments
      /\ v.teaching = d.teaching /\ v.classSubjects = d.classSubjects
      /\ v.attempts = d.attempts /\ v.checkins = d.checkins /\ v.accounts = d.accounts
  BY TableNames DEF SameBut
<1>2. Students(d) = Students(v)
      /\ \A i \in Rows(v, "checkins") : i \in Rows(d, "checkins") /\ v.checkins[i] = d.checkins[i]
  BY <1>1 DEF Students, Rows
<1>3. HistoryKept(d, v)
  BY <1>1 DEF HistoryKept, Rows
<1>10. v \in Served(d)
  BY <1>1, <1>2, <1>3, PeriodsFrame, EnrolmentsFrame, LessonsFrame, TracesFrame DEF Served, Kept
<1>11. {"classes"} \cap ExamTables = {}
  BY Spares
<1> QED  BY <1>10, <1>11, LeavingBut, Spares

\* What writes accounts alone has the traces to keep.
LEMMA AccountsKept ==
  ASSUME NEW d \in Database, NEW v \in Database, SameBut(d, v, {"accounts"}),
         TracesFit(d) => TracesFit(v)
  PROVE  Kept(d, v)
<1>1. /\ v.years = d.years /\ v.semesters = d.semesters /\ v.enrolments = d.enrolments
      /\ v.teaching = d.teaching /\ v.classSubjects = d.classSubjects /\ v.classes = d.classes
  BY TableNames DEF SameBut
<1>2. Rows(d, "classes") \subseteq Rows(v, "classes")
  BY <1>1 DEF Rows
<1> QED  BY <1>1, <1>2, PeriodsFrame, EnrolmentsFrame, LessonsFrame, HistoryFrame DEF Kept

\* It does when no student goes.
LEMMA AccountsGrow ==
  ASSUME NEW d \in Database, NEW v \in Database, SameBut(d, v, {"accounts"}),
         Students(d) \subseteq Students(v)
  PROVE  v \in Leaving(d, ExamTables)
<1>1. v.attempts = d.attempts /\ v.checkins = d.checkins
  BY TableNames DEF SameBut
<1>2. \A i \in Rows(v, "checkins") : i \in Rows(d, "checkins") /\ v.checkins[i] = d.checkins[i]
  BY <1>1 DEF Rows
<1>3. v \in Served(d)
  BY <1>1, <1>2, AccountsKept, TracesFrame DEF Served
<1>4. {"accounts"} \cap ExamTables = {}
  BY Spares
<1> QED  BY <1>3, <1>4, LeavingBut, Spares

\* A service that writes lessons alone has them to keep.
LEMMA LessonsServed ==
  ASSUME NEW d \in Database, NEW v \in Database, SameBut(d, v, {"teaching", "classSubjects"}),
         LessonsFit(d) => LessonsFit(v)
  PROVE  v \in Leaving(d, ExamTables)
<1>1. /\ v.years = d.years /\ v.semesters = d.semesters /\ v.enrolments = d.enrolments
      /\ v.attempts = d.attempts /\ v.checkins = d.checkins /\ v.accounts = d.accounts
      /\ v.classes = d.classes
  BY TableNames DEF SameBut
<1>2. Students(d) = Students(v) /\ Rows(d, "classes") \subseteq Rows(v, "classes")
      /\ \A i \in Rows(v, "checkins") : i \in Rows(d, "checkins") /\ v.checkins[i] = d.checkins[i]
  BY <1>1 DEF Students, Rows
<1>10. v \in Served(d)
  BY <1>1, <1>2, PeriodsFrame, EnrolmentsFrame, TracesFrame, HistoryFrame DEF Served, Kept
<1>11. {"teaching", "classSubjects"} \cap ExamTables = {}
  BY Spares
<1> QED  BY <1>10, <1>11, LeavingBut, Spares

\* A service that writes enrolments alone has them to keep, and their students
\* and classes.
LEMMA EnrolmentsServed ==
  ASSUME NEW d \in Database, NEW v \in Database, SameBut(d, v, {"enrolments"}),
         EnrolmentsFit(d) => EnrolmentsFit(v),
         \A n \in Rows(d, "enrolments") :
            /\ n \in Rows(v, "enrolments")
            /\ v.enrolments[n].student = d.enrolments[n].student
            /\ v.enrolments[n].class = d.enrolments[n].class
  PROVE  v \in Leaving(d, ExamTables)
<1>1. /\ v.years = d.years /\ v.semesters = d.semesters
      /\ v.teaching = d.teaching /\ v.classSubjects = d.classSubjects
      /\ v.attempts = d.attempts /\ v.checkins = d.checkins /\ v.accounts = d.accounts
      /\ v.classes = d.classes
  BY TableNames DEF SameBut
<1>2. Students(d) = Students(v) /\ Rows(d, "classes") = Rows(v, "classes")
      /\ \A i \in Rows(v, "checkins") : i \in Rows(d, "checkins") /\ v.checkins[i] = d.checkins[i]
  BY <1>1 DEF Students, Rows
<1>3. HistoryKept(d, v)
  BY <1>2 DEF HistoryKept
<1>10. v \in Served(d)
  BY <1>1, <1>2, <1>3, PeriodsFrame, LessonsFrame, TracesFrame DEF Served, Kept
<1>11. {"enrolments"} \cap ExamTables = {}
  BY Spares
<1> QED  BY <1>10, <1>11, LeavingBut, Spares

\* create_class.
LEMMA CreateClassServed ==
  ASSUME NEW d \in Database, NEW y, NEW n \in STRING
  PROVE  CreateClass(d, y, n) \subseteq Leaving(d, ExamTables)
<1> DEFINE row == [year |-> y, name |-> n, active |-> TRUE]
           v == Insert(d, "classes", row)
<1>1. SUFFICES ASSUME y \in Rows(d, "years"), Free(d, "classes") # {}
               PROVE  v \in Leaving(d, ExamTables)
  BY DEF CreateClass, Given
<1>2. row \in Rowset["classes"]
  BY <1>1, RowsAre, RowsetIs DEF Class
<1> HIDE DEF row
<1>3. v \in Database /\ SameBut(d, v, {"classes"})
  BY <1>2, InsertTyped, InsertSame, TableNames
<1>4. Rows(d, "classes") \subseteq Rows(v, "classes")
  BY <1>1, <1>2, NewRow, TableNames, IdsAre
<1> HIDE DEF v
<1> QED  BY <1>3, <1>4, ClassesServed

\* update_class.
LEMMA UpdateClassServed ==
  ASSUME NEW d \in Database, NEW k, NEW n \in STRING, NEW on \in BOOLEAN
  PROVE  UpdateClass(d, k, n, on) \subseteq Leaving(d, ExamTables)
<1> DEFINE row == [d.classes[k] EXCEPT !.name = n, !.active = on]
           v == Put(d, "classes", k, row)
<1>1. SUFFICES ASSUME k \in Rows(d, "classes")
               PROVE  v \in Leaving(d, ExamTables)
  BY DEF UpdateClass, Given
<1>2. row \in Class
  BY <1>1, RowsAre DEF Class
<1>3. row \in Rowset["classes"] /\ k \in Ids["classes"]
  BY <1>1, <1>2, RowsAre, RowsetIs
<1> HIDE DEF row
<1>4. v \in Database /\ SameBut(d, v, {"classes"})
  BY <1>3, PutTyped, PutSame, TableNames DEF Opt
<1>5. Rows(d, "classes") \subseteq Rows(v, "classes")
  BY <1>3, PutRows, TableNames
<1> HIDE DEF v
<1> QED  BY <1>4, <1>5, ClassesServed

\* delete_class: what HasHistoricalRecords finds is switched off.
LEMMA DeleteClassServed ==
  ASSUME NEW d \in Database, NEW k
  PROVE  DeleteClass(d, k) \subseteq Leaving(d, ExamTables)
<1>1. SUFFICES ASSUME k \in Rows(d, "classes")
               PROVE  DeleteClass(d, k) \subseteq Leaving(d, ExamTables)
  BY DEF DeleteClass, Given
<1>2. ASSUME NEW on \in BOOLEAN
      PROVE  Set(d, "classes", {k}, "active", on) \in Leaving(d, ExamTables)
  <2> DEFINE v == Set(d, "classes", {k}, "active", on)
  <2>1. [d.classes[k] EXCEPT !["active"] = on] \in Class
    BY <1>1, RowsAre DEF Class
  <2>2. \A i \in {k} : [d["classes"][i] EXCEPT !["active"] = on] \in Rowset["classes"]
    BY <2>1, RowsetIs
  <2>3. v \in Database /\ SameBut(d, v, {"classes"})
    BY <2>2, SetTyped, SetSame, TableNames DEF Opt
  <2>6. {k} \subseteq Rows(d, "classes") /\ "classes" \in Tables
    BY <1>1, TableNames
  <2>4. Rows(v, "classes") = Rows(d, "classes")
    BY <2>2, <2>6, SetRows
  <2> HIDE DEF v
  <2>5. v \in Leaving(d, ExamTables)
    BY <2>3, <2>4, ClassesServed
  <2> QED  BY <2>5 DEF v
<1>3. ~HasHistoricalRecords(d, k) => Drop(d, "classes", {k}) \in Leaving(d, ExamTables)
  <2> DEFINE v == Drop(d, "classes", {k})
  <2>1. v \in Database /\ SameBut(d, v, {"classes"}) /\ Rows(v, "classes") = Rows(d, "classes") \ {k}
    BY DropTyped, DropSame, DropRows, TableNames
  <2> HIDE DEF v
  <2>2. ~HasHistoricalRecords(d, k) => \A n \in Rows(d, "enrolments") : d.enrolments[n].class # k
    BY DEF HasHistoricalRecords
  <2>3. ~HasHistoricalRecords(d, k) => v \in Leaving(d, ExamTables)
    BY <2>1, <2>2, ClassesServed
  <2> QED  BY <2>3 DEF v
<1> QED  BY <1>2, <1>3 DEF DeleteClass, Given

\* A column of accounts other than the role is written.
LEMMA AccountSet ==
  ASSUME NEW d \in Database, NEW hit \in SUBSET Rows(d, "accounts"), NEW col, NEW x,
         \/ col = "className" /\ x \in Opt(STRING)
         \/ col = "active" /\ x \in BOOLEAN
  PROVE  Set(d, "accounts", hit, col, x) \in Leaving(d, ExamTables)
<1> DEFINE v == Set(d, "accounts", hit, col, x)
<1>1. \A i \in hit : [d.accounts[i] EXCEPT ![col] = x] \in Account
                     /\ [d.accounts[i] EXCEPT ![col] = x].role = d.accounts[i].role
  BY RowsAre DEF Account
<1>2. \A i \in hit : [d["accounts"][i] EXCEPT ![col] = x] \in Rowset["accounts"]
  BY <1>1, RowsetIs
<1>3. v \in Database /\ SameBut(d, v, {"accounts"})
  BY <1>2, SetTyped, SetSame, TableNames DEF Opt
<1>4. Rows(v, "accounts") = Rows(d, "accounts")
  BY <1>2, SetRows, TableNames
<1>5. v["accounts"] = [i \in Ids["accounts"] |->
         IF i \in hit THEN [d["accounts"][i] EXCEPT ![col] = x] ELSE d["accounts"][i]]
  BY SetIs, TableNames
<1> HIDE DEF v
<1>6. \A i \in Rows(d, "accounts") : v.accounts[i].role = d.accounts[i].role
  BY <1>1, <1>5, RowsAre
<1>7. Students(v) = Students(d)
  BY <1>4, <1>6 DEF Students
<1>8. v \in Leaving(d, ExamTables)
  BY <1>3, <1>7, AccountsGrow
<1> QED  BY <1>8 DEF v

\* v is d with the status of some enrolments set to x.
EnrolmentsAt(d, v, hit, x) ==
  /\ v \in Database /\ SameBut(d, v, {"enrolments"}) /\ Rows(v, "enrolments") = Rows(d, "enrolments")
  /\ \A s \in Rows(d, "enrolments") :
       /\ v.enrolments[s].status = IF s \in hit THEN x ELSE d.enrolments[s].status
       /\ v.enrolments[s].year = d.enrolments[s].year
       /\ v.enrolments[s].student = d.enrolments[s].student
       /\ v.enrolments[s].class = d.enrolments[s].class

\* Enrolments change their status.
LEMMA EnrolmentsMoved ==
  ASSUME NEW d \in Database, NEW hit \in SUBSET Rows(d, "enrolments"), NEW x \in EnrolmentStatus
  PROVE  EnrolmentsAt(d, Set(d, "enrolments", hit, "status", x), hit, x)
<1> DEFINE v == Set(d, "enrolments", hit, "status", x)
<1>1. \A y \in hit : [d.enrolments[y] EXCEPT !["status"] = x] \in Enrolment
  BY RowsAre DEF Enrolment
<1>2. \A y \in hit : [d["enrolments"][y] EXCEPT !["status"] = x] \in Rowset["enrolments"]
  BY <1>1, RowsetIs
<1>3. v \in Database
  BY <1>2, SetTyped, TableNames DEF Opt
<1>4. Rows(v, "enrolments") = Rows(d, "enrolments")
  BY <1>2, SetRows, TableNames
<1>5. v["enrolments"] = [i \in Ids["enrolments"] |->
         IF i \in hit THEN [d["enrolments"][i] EXCEPT !["status"] = x] ELSE d["enrolments"][i]]
  BY SetIs, TableNames
<1>7. SameBut(d, v, {"enrolments"})
  BY SetSame, TableNames
<1> HIDE DEF v
<1>6. \A s \in Rows(d, "enrolments") :
       /\ v.enrolments[s].status = IF s \in hit THEN x ELSE d.enrolments[s].status
       /\ v.enrolments[s].year = d.enrolments[s].year
       /\ v.enrolments[s].student = d.enrolments[s].student
       /\ v.enrolments[s].class = d.enrolments[s].class
  BY <1>5, RowsAre DEF Enrolment
<1>8. EnrolmentsAt(d, v, hit, x)
  BY <1>3, <1>4, <1>6, <1>7 DEF EnrolmentsAt
<1> QED  BY <1>8 DEF v

\* A transfer ends the one active enrolment of the year and begins another.
LEMMA EnrolledServed ==
  ASSUME NEW d \in Database, NEW a \in Rows(d, "accounts"), NEW k \in Rows(d, "classes"),
         NEW old \in SUBSET ActiveEnrolments(d, a, d.classes[k].year),
         EnrolmentsFit(d) => old = ActiveEnrolments(d, a, d.classes[k].year),
         Free(d, "enrolments") # {}
  PROVE  Enrolled(d, a, k, old) \in Leaving(d, ExamTables)
<1> DEFINE y == d.classes[k].year
           left == Set(d, "enrolments", old, "status", "TRANSFERRED")
           row == [student |-> a, class |-> k, year |-> y, status |-> "ACTIVE"]
           joined == Insert(left, "enrolments", row)
           n == New(left, "enrolments")
<1>1. y \in Ids.years /\ d.classes[k].name \in Opt(STRING)
  BY RowsAre DEF Class, Opt
<1>2. old \in SUBSET Rows(d, "enrolments")
  BY DEF ActiveEnrolments, InStatus
<1>3. EnrolmentsAt(d, left, old, "TRANSFERRED")
  BY <1>2, EnrolmentsMoved DEF EnrolmentStatus
<1> HIDE DEF left
<1>4. left \in Database /\ SameBut(d, left, {"enrolments"})
  BY <1>3 DEF EnrolmentsAt
<1>5. row \in Rowset["enrolments"] /\ row.student = a /\ row.year = y /\ row.status = "ACTIVE"
  BY <1>1, RowsAre, RowsetIs DEF Enrolment, EnrolmentStatus
<1> HIDE DEF row
<1>6. Free(left, "enrolments") # {}
  <2>1. \A i \in Ids["enrolments"] : d["enrolments"][i] = Null => left["enrolments"][i] = Null
    BY <1>3, RowTyped, TableNames DEF EnrolmentsAt, Rows
  <2> QED  BY <2>1 DEF Free
<1>7. joined \in Database /\ SameBut(left, joined, {"enrolments"})
  BY <1>4, <1>5, InsertTyped, InsertSame, TableNames
<1>8. /\ n \notin Rows(left, "enrolments") /\ Rows(joined, "enrolments") = Rows(left, "enrolments") \cup {n}
      /\ joined["enrolments"][n] = row
      /\ \A i \in Rows(left, "enrolments") : joined["enrolments"][i] = left["enrolments"][i]
  BY <1>4, <1>5, <1>6, IdsAre, TableNames, NewRow
<1> HIDE DEF joined, n
<1>9. SameBut(d, joined, {"enrolments"})
  BY <1>4, <1>7 DEF SameBut
<1>10. \A m \in Rows(d, "enrolments") :
            /\ m \in Rows(joined, "enrolments")
            /\ joined.enrolments[m].student = d.enrolments[m].student
            /\ joined.enrolments[m].class = d.enrolments[m].class
  BY <1>3, <1>8 DEF EnrolmentsAt
<1>11. ASSUME EnrolmentsFit(d)
       PROVE  EnrolmentsFit(joined)
  <2>1. \A m \in InStatus(joined, "enrolments", {"ACTIVE"}) : m # n =>
          /\ m \in InStatus(d, "enrolments", {"ACTIVE"}) /\ m \notin old
          /\ joined.enrolments[m].student = d.enrolments[m].student
          /\ joined.enrolments[m].year = d.enrolments[m].year
    BY <1>3, <1>8 DEF EnrolmentsAt, InStatus
  <2>2. \A m \in InStatus(joined, "enrolments", {"ACTIVE"}) : m # n =>
          ~(joined.enrolments[m].student = a /\ joined.enrolments[m].year = y)
    BY <1>11, <2>1 DEF ActiveEnrolments
  <2>3. joined.enrolments[n].student = a /\ joined.enrolments[n].year = y
    BY <1>5, <1>8
  <2> QED  BY <1>11, <2>1, <2>2, <2>3 DEF EnrolmentsFit
<1>12. joined \in Leaving(d, ExamTables)
  BY <1>7, <1>9, <1>10, <1>11, EnrolmentsServed
<1>13. {a} \in SUBSET Rows(joined, "accounts")
  BY <1>7, <1>9, RowsSame, TableNames
<1>14. Set(joined, "accounts", {a}, "className", d.classes[k].name) \in Leaving(joined, ExamTables)
  BY <1>1, <1>7, <1>13, AccountSet
<1>15. Set(joined, "accounts", {a}, "className", d.classes[k].name) \in Leaving(d, ExamTables)
  BY <1>12, <1>14, LeavingTrans
<1> QED  BY <1>15 DEF Enrolled, joined, left, row

\* enroll_student: whichever enrolment the query finds, if they fit there is no
\* other.
LEMMA EnrollStudentServed ==
  ASSUME NEW d \in Database, NEW a, NEW k
  PROVE  EnrollStudent(d, a, k) \subseteq Leaving(d, ExamTables)
<1> DEFINE found == ActiveEnrolments(d, a, d.classes[k].year)
<1>1. SUFFICES ASSUME k \in Rows(d, "classes"), a \in Rows(d, "accounts")
               PROVE  EnrollStudent(d, a, k) \subseteq Leaving(d, ExamTables)
  BY DEF EnrollStudent
<1>2. Free(d, "enrolments") # {} /\ found = {} => Enrolled(d, a, k, {}) \in Leaving(d, ExamTables)
  BY <1>1, EnrolledServed
<1>3. ASSUME NEW e \in found, Free(d, "enrolments") # {}
      PROVE  Enrolled(d, a, k, {e}) \in Leaving(d, ExamTables)
  <2>1. EnrolmentsFit(d) => {e} = found
    BY DEF EnrolmentsFit, ActiveEnrolments
  <2> QED  BY <1>1, <1>3, <2>1, EnrolledServed
<1> QED  BY <1>1, <1>2, <1>3, LeavingStays DEF EnrollStudent

\* remove_student.
LEMMA RemoveStudentServed ==
  ASSUME NEW d \in Database, NEW a, NEW k
  PROVE  RemoveStudent(d, a, k) \subseteq Leaving(d, ExamTables)
<1> DEFINE found == ActiveEnrolments(d, a, d.classes[k].year)
           Left(e) == Set(Set(d, "enrolments", {e}, "status", "DROPPED"),
                          "accounts", {a} \cap Rows(d, "accounts"), "className", Null)
<1>1. ASSUME NEW e \in found
      PROVE  Left(e) \in Leaving(d, ExamTables)
  <2> DEFINE v == Set(d, "enrolments", {e}, "status", "DROPPED")
  <2>1. {e} \in SUBSET Rows(d, "enrolments")
    BY DEF ActiveEnrolments, InStatus
  <2>2. EnrolmentsAt(d, v, {e}, "DROPPED")
    BY <2>1, EnrolmentsMoved DEF EnrolmentStatus
  <2> HIDE DEF v
  <2>3. v \in Database /\ SameBut(d, v, {"enrolments"})
    BY <2>2 DEF EnrolmentsAt
  <2>4. EnrolmentsFit(d) => EnrolmentsFit(v)
    BY <2>2 DEF EnrolmentsAt, EnrolmentsFit, InStatus
  <2>5. v \in Leaving(d, ExamTables)
    BY <2>2, <2>3, <2>4, EnrolmentsServed DEF EnrolmentsAt
  <2>6. {a} \cap Rows(d, "accounts") \in SUBSET Rows(v, "accounts")
    BY <2>3, RowsSame, TableNames
  <2>7. Set(v, "accounts", {a} \cap Rows(d, "accounts"), "className", Null) \in Leaving(v, ExamTables)
    BY <2>3, <2>6, AccountSet DEF Opt
  <2>8. Set(v, "accounts", {a} \cap Rows(d, "accounts"), "className", Null) \in Leaving(d, ExamTables)
    BY <2>5, <2>7, LeavingTrans
  <2> QED  BY <2>8 DEF v
<1> HIDE DEF Left
<1>2. RemoveStudent(d, a, k) \subseteq {d} \cup {Left(e) : e \in found}
  BY DEF RemoveStudent, Left
<1> QED  BY <1>1, <1>2, LeavingStays

-----------------------------------------------------------------------------
(* Subjects of a class and their teachers.                                 *)

\* A class gets a subject, if it has not got it.
LEMMA PairedServed ==
  ASSUME NEW d \in Database, NEW k \in Ids.classes, NEW s \in Ids.subjects
  PROVE  LET v == Paired(d, "classSubjects", <<k, s>>, [class |-> k, subject |-> s])
         IN /\ v \in Leaving(d, ExamTables) /\ v.teaching = d.teaching /\ v.classes = d.classes
            /\ Rows(v, "classSubjects") = Rows(d, "classSubjects") \cup {<<k, s>>}
<1> DEFINE row == [class |-> k, subject |-> s]
           w == Put(d, "classSubjects", <<k, s>>, row)
           v == Paired(d, "classSubjects", <<k, s>>, row)
<1>1. row \in ClassSubject /\ row.class = k /\ row.subject = s
  BY DEF ClassSubject
<1> HIDE DEF row
<1>2. row \in Rowset["classSubjects"] /\ <<k, s>> \in Ids["classSubjects"]
  BY <1>1, RowsetIs, IdsAre
<1>3. w \in Database /\ SameBut(d, w, {"classSubjects"})
  BY <1>2, PutTyped, PutSame, TableNames DEF Opt
<1>4. Rows(w, "classSubjects") = Rows(d, "classSubjects") \cup {<<k, s>>}
  BY <1>2, PutRows, TableNames
<1>5. w["classSubjects"] = [j \in Ids["classSubjects"] |->
                              IF j = <<k, s>> THEN row ELSE d["classSubjects"][j]]
  BY PutIs, TableNames
<1> HIDE DEF w
<1>6. w.teaching = d.teaching /\ w.classes = d.classes /\ SameBut(d, w, {"teaching", "classSubjects"})
  BY <1>3, TableNames DEF SameBut
<1>7. ASSUME LessonsFit(d) PROVE LessonsFit(w)
  <2>1. Rows(w, "teaching") = Rows(d, "teaching")
    BY <1>6 DEF Rows
  <2>2. \A x \in Rows(w, "classSubjects") :
          x = <<w.classSubjects[x].class, w.classSubjects[x].subject>>
    <3>1. TAKE x \in Rows(w, "classSubjects")
    <3>2. CASE x = <<k, s>>
      BY <1>1, <1>2, <1>5, <3>2
    <3>3. CASE x # <<k, s>>
      <4>1. x \in Rows(d, "classSubjects") /\ x \in Ids["classSubjects"]
        BY <1>4, <3>3, RowsAre
      <4>2. w["classSubjects"][x] = d["classSubjects"][x]
        BY <1>5, <3>3, <4>1
      <4> QED  BY <1>7, <4>1, <4>2 DEF LessonsFit
    <3> QED  BY <3>2, <3>3
  <2> QED  BY <1>4, <1>6, <1>7, <2>1, <2>2 DEF LessonsFit
<1>8. w \in Leaving(d, ExamTables)
  BY <1>3, <1>6, <1>7, LessonsServed
<1>9. CASE d["classSubjects"][<<k, s>>] = Null
  BY <1>4, <1>6, <1>8, <1>9 DEF Paired, w, row
<1>10. CASE d["classSubjects"][<<k, s>>] # Null
  <2>1. <<k, s>> \in Rows(d, "classSubjects")
    BY <1>2, <1>10, RowTyped, TableNames
  <2>2. Paired(d, "classSubjects", <<k, s>>, row) = d
    BY <1>10 DEF Paired
  <2> QED  BY <2>1, <2>2, LeavingStays DEF row
<1> QED  BY <1>9, <1>10

\* assign_subject.
LEMMA AssignSubjectServed ==
  ASSUME NEW d \in Database, NEW k, NEW s
  PROVE  AssignSubject(d, k, s) \subseteq Leaving(d, ExamTables)
<1>1. k \in Rows(d, "classes") /\ s \in Rows(d, "subjects") => k \in Ids.classes /\ s \in Ids.subjects
  BY RowsAre
<1> QED  BY <1>1, PairedServed DEF AssignSubject, Given

\* A teacher may be taken from a lesson.
LEMMA DropLessons ==
  ASSUME NEW d \in Database, NEW gone
  PROVE  Drop(d, "teaching", gone) \in Leaving(d, ExamTables)
<1> DEFINE v == Drop(d, "teaching", gone)
<1>1. v \in Database /\ SameBut(d, v, {"teaching"}) /\ Rows(v, "teaching") = Rows(d, "teaching") \ gone
  BY DropTyped, DropSame, DropRows, TableNames
<1>2. v["teaching"] = [i \in Ids["teaching"] |-> IF i \in gone THEN Null ELSE d["teaching"][i]]
  BY DropIs, TableNames
<1> HIDE DEF v
<1>3. v.classSubjects = d.classSubjects /\ SameBut(d, v, {"teaching", "classSubjects"})
  BY <1>1, TableNames DEF SameBut
<1>4. \A x \in Rows(v, "teaching") : x \in Rows(d, "teaching") /\ v.teaching[x] = d.teaching[x]
  BY <1>1, <1>2, RowsAre
<1>5. Rows(v, "classSubjects") = Rows(d, "classSubjects")
  BY <1>3 DEF Rows
<1>6. LessonsFit(d) => LessonsFit(v)
  BY <1>3, <1>4, <1>5 DEF LessonsFit
<1>7. v \in Leaving(d, ExamTables)
  BY <1>1, <1>3, <1>6, LessonsServed
<1> QED  BY <1>7 DEF v

\* remove_subject takes the teacher first.
LEMMA RemoveSubjectServed ==
  ASSUME NEW d \in Database, NEW k, NEW s
  PROVE  RemoveSubject(d, k, s) \subseteq Leaving(d, ExamTables)
<1> DEFINE gone == {<<k, s>>}
           w == Drop(d, "teaching", gone)
           v == Drop(w, "classSubjects", gone)
<1> HIDE DEF gone
<1>1. w \in Leaving(d, ExamTables) /\ w \in Database /\ Rows(w, "teaching") = Rows(d, "teaching") \ gone
  BY DropLessons, DropRows, TableNames, LeavingServes
<1> HIDE DEF w
<1>2. /\ v \in Database /\ SameBut(w, v, {"classSubjects"})
      /\ Rows(v, "classSubjects") = Rows(w, "classSubjects") \ gone
      /\ v["classSubjects"] = [i \in Ids["classSubjects"] |->
                                 IF i \in gone THEN Null ELSE w["classSubjects"][i]]
  BY <1>1, DropTyped, DropSame, DropRows, DropIs, TableNames
<1> HIDE DEF v
<1>3. v.teaching = w.teaching /\ SameBut(w, v, {"teaching", "classSubjects"})
  BY <1>2, TableNames DEF SameBut
<1>4. \A x \in Rows(v, "classSubjects") :
         x \in Rows(w, "classSubjects") /\ v.classSubjects[x] = w.classSubjects[x]
  BY <1>1, <1>2, RowsAre
<1>5. Rows(v, "teaching") = Rows(w, "teaching")
  BY <1>3 DEF Rows
<1>6. LessonsFit(w) => LessonsFit(v)
  BY <1>1, <1>2, <1>3, <1>4, <1>5 DEF LessonsFit
<1>7. v \in Leaving(w, ExamTables)
  BY <1>1, <1>2, <1>3, <1>6, LessonsServed
<1>8. v \in Leaving(d, ExamTables)
  BY <1>1, <1>7, LeavingTrans
<1> QED  BY <1>8 DEF RemoveSubject, Given, v, w, gone

\* Who teaches a subject in a class gives it the subject.
LEMMA AssignedServed ==
  ASSUME NEW d \in Database, NEW k \in Ids.classes, NEW s \in Ids.subjects, NEW a \in Ids.accounts
  PROVE  Assigned(d, k, s, a) \in Leaving(d, ExamTables)
<1> DEFINE w == Paired(d, "classSubjects", <<k, s>>, [class |-> k, subject |-> s])
           row == [class |-> k, subject |-> s, teacher |-> a]
           v == Put(w, "teaching", <<k, s>>, row)
<1>1. w \in Leaving(d, ExamTables) /\ w \in Database /\ <<k, s>> \in Rows(w, "classSubjects")
  BY PairedServed, LeavingServes
<1> HIDE DEF w
<1>2. row \in ClassSubjectTeacher /\ row.class = k /\ row.subject = s
  BY DEF ClassSubjectTeacher
<1> HIDE DEF row
<1>3. row \in Rowset["teaching"] /\ <<k, s>> \in Ids["teaching"]
  BY <1>2, RowsetIs, IdsAre
<1>4. v \in Database /\ SameBut(w, v, {"teaching"})
  BY <1>1, <1>3, PutTyped, PutSame, TableNames DEF Opt
<1>5. Rows(v, "teaching") = Rows(w, "teaching") \cup {<<k, s>>}
  BY <1>1, <1>3, PutRows, TableNames
<1>6. v["teaching"] = [j \in Ids["teaching"] |-> IF j = <<k, s>> THEN row ELSE w["teaching"][j]]
  BY <1>1, PutIs, TableNames
<1> HIDE DEF v
<1>7. v.classSubjects = w.classSubjects /\ SameBut(w, v, {"teaching", "classSubjects"})
  BY <1>4, TableNames DEF SameBut
<1>8. Rows(v, "classSubjects") = Rows(w, "classSubjects")
  BY <1>7 DEF Rows
<1>9. ASSUME LessonsFit(w) PROVE LessonsFit(v)
  <2>1. \A x \in Rows(v, "teaching") : x = <<v.teaching[x].class, v.teaching[x].subject>>
    <3>1. TAKE x \in Rows(v, "teaching")
    <3>2. CASE x = <<k, s>>
      BY <1>2, <1>3, <1>6, <3>2
    <3>3. CASE x # <<k, s>>
      <4>1. x \in Rows(w, "teaching") /\ x \in Ids["teaching"]
        BY <1>1, <1>5, <3>3, RowsAre
      <4>2. v["teaching"][x] = w["teaching"][x]
        BY <1>6, <3>3, <4>1
      <4> QED  BY <1>9, <4>1, <4>2 DEF LessonsFit
    <3> QED  BY <3>2, <3>3
  <2> QED  BY <1>1, <1>5, <1>7, <1>8, <1>9, <2>1 DEF LessonsFit
<1>10. v \in Leaving(w, ExamTables)
  BY <1>1, <1>4, <1>7, <1>9, LessonsServed
<1>11. v \in Leaving(d, ExamTables)
  BY <1>1, <1>10, LeavingTrans
<1> QED  BY <1>11 DEF Assigned, v, w, row

\* assign_teacher.
LEMMA AssignTeacherServed ==
  ASSUME NEW d \in Database, NEW k, NEW s, NEW a
  PROVE  AssignTeacher(d, k, s, a) \subseteq Leaving(d, ExamTables)
<1>1. k \in Rows(d, "classes") /\ s \in Rows(d, "subjects") /\ a \in Rows(d, "accounts")
        => k \in Ids.classes /\ s \in Ids.subjects /\ a \in Ids.accounts
  BY RowsAre
<1> QED  BY <1>1, AssignedServed DEF AssignTeacher, Given

\* import_classes_xlsx.
LEMMA ImportClassServed ==
  ASSUME NEW d \in Database, NEW y, NEW n, NEW students, NEW lessons,
         IsFiniteSet(students), IsFiniteSet(lessons)
  PROVE  ImportClass(d, y, n, students, lessons) \subseteq Leaving(d, ExamTables)
<1> DEFINE classes == ClassNamed(d, y, n)
           join == [x \in students |-> [v \in Database |->
                      UNION {EnrollStudent(v, a, k) : a \in Known(d, x), k \in classes}]]
           teach == [l \in lessons |-> [v \in Database |->
                      {Assigned(v, k, s, a) : k \in classes, s \in SubjectCoded(d, l[1]),
                                              a \in Coded(d, l[2])}]]
<1>1. \/ ImportClass(d, y, n, students, lessons) = {}
      \/ ImportClass(d, y, n, students, lessons) = UNION {Each(teach, v) : v \in Each(join, d)}
  BY DEF ImportClass
<1>2. IsFiniteSet(DOMAIN join) /\ IsFiniteSet(DOMAIN teach)
  OBVIOUS
<1>3. \A x \in DOMAIN join : \A v \in Database : join[x][v] \subseteq Leaving(v, ExamTables)
  BY EnrollStudentServed
<1>4. \A l \in DOMAIN teach : \A v \in Database : teach[l][v] \subseteq Leaving(v, ExamTables)
  <2>1. \A k \in classes : k \in Ids.classes
    BY RowsAre DEF ClassNamed
  <2>2. \A l \in lessons : \A s \in SubjectCoded(d, l[1]) : s \in Ids.subjects
    BY RowsAre DEF SubjectCoded
  <2>3. \A l \in lessons : \A a \in Coded(d, l[2]) : a \in Ids.accounts
    BY RowsAre DEF Coded, Teachers
  <2> HIDE DEF classes
  <2> QED  BY <2>1, <2>2, <2>3, AssignedServed
<1> HIDE DEF join, teach
<1>5. Each(join, d) \subseteq Leaving(d, ExamTables)
  BY <1>2, <1>3, BulkLeaving
<1>6. \A v \in Each(join, d) : Each(teach, v) \subseteq Leaving(d, ExamTables)
  <2> TAKE v \in Each(join, d)
  <2>1. v \in Leaving(d, ExamTables) /\ v \in Database
    BY <1>5, LeavingServes
  <2>2. Each(teach, v) \subseteq Leaving(v, ExamTables)
    BY <1>2, <1>4, <2>1, BulkLeaving
  <2> QED  BY <2>1, <2>2, LeavingTrans
<1> QED  BY <1>1, <1>6

-----------------------------------------------------------------------------
(* Students and teachers.                                                  *)

\* An account is made.
LEMMA NewAccountServed ==
  ASSUME NEW d \in Database, NEW x \in Account, Free(d, "accounts") # {}
  PROVE  Insert(d, "accounts", x) \in Leaving(d, ExamTables)
<1> DEFINE v == Insert(d, "accounts", x)
<1>1. x \in Rowset["accounts"] /\ "accounts" \in Tables /\ Ids["accounts"] \subseteq Nat
  BY RowsetIs, TableNames, IdsAre
<1>2. v \in Database /\ SameBut(d, v, {"accounts"})
  BY <1>1, InsertTyped, InsertSame
<1>3. /\ Rows(d, "accounts") \subseteq Rows(v, "accounts")
      /\ \A i \in Rows(d, "accounts") : v["accounts"][i] = d["accounts"][i]
  BY <1>1, NewRow
<1> HIDE DEF v
<1>4. Students(d) \subseteq Students(v)
  BY <1>3 DEF Students
<1>5. v \in Leaving(d, ExamTables)
  BY <1>2, <1>4, AccountsGrow
<1> QED  BY <1>5 DEF v

\* An account is written, but for its role.
LEMMA PutAccountServed ==
  ASSUME NEW d \in Database, NEW a \in Rows(d, "accounts"), NEW x \in Account,
         x.role = d.accounts[a].role
  PROVE  Put(d, "accounts", a, x) \in Leaving(d, ExamTables)
<1> DEFINE v == Put(d, "accounts", a, x)
<1>1. x \in Rowset["accounts"] /\ a \in Ids["accounts"] /\ "accounts" \in Tables
  BY RowsetIs, RowsAre, TableNames
<1>2. v \in Database /\ SameBut(d, v, {"accounts"})
  BY <1>1, PutTyped, PutSame DEF Opt
<1>3. Rows(v, "accounts") = Rows(d, "accounts") \cup {a}
  BY <1>1, PutRows
<1>4. v["accounts"] = [j \in Ids["accounts"] |-> IF j = a THEN x ELSE d["accounts"][j]]
  BY <1>1, PutIs
<1> HIDE DEF v
<1>5. \A i \in Rows(d, "accounts") : v.accounts[i].role = d.accounts[i].role
  BY <1>4, RowsAre
<1>6. Students(d) \subseteq Students(v)
  BY <1>3, <1>5 DEF Students
<1>7. v \in Leaving(d, ExamTables)
  BY <1>2, <1>6, AccountsGrow
<1> QED  BY <1>7 DEF v

\* An account is deleted: everybody else keeps his.
LEMMA DropAccount ==
  ASSUME NEW d \in Database, NEW a
  PROVE  LET v == Drop(d, "accounts", {a})
         IN v \in Database /\ SameBut(d, v, {"accounts"}) /\ Students(v) = Students(d) \ {a}
<1> DEFINE v == Drop(d, "accounts", {a})
<1>1. v \in Database /\ SameBut(d, v, {"accounts"}) /\ Rows(v, "accounts") = Rows(d, "accounts") \ {a}
  BY DropTyped, DropSame, DropRows, TableNames
<1>2. v["accounts"] = [i \in Ids["accounts"] |-> IF i \in {a} THEN Null ELSE d["accounts"][i]]
  BY DropIs, TableNames
<1> HIDE DEF v
<1>3. \A i \in Rows(v, "accounts") : v.accounts[i] = d.accounts[i]
  BY <1>1, <1>2, RowsAre
<1>4. Students(v) = Students(d) \ {a}
  BY <1>1, <1>3 DEF Students
<1> QED  BY <1>1, <1>4 DEF v

\* Nothing else depends on the account of one who is no student.
LEMMA DropTeacherServed ==
  ASSUME NEW d \in Database, NEW a, a \notin Students(d)
  PROVE  Drop(d, "accounts", {a}) \in Leaving(d, ExamTables)
<1> DEFINE v == Drop(d, "accounts", {a})
<1>1. v \in Database /\ SameBut(d, v, {"accounts"}) /\ Students(v) = Students(d) \ {a}
  BY DropAccount
<1> HIDE DEF v
<1>2. v \in Leaving(d, ExamTables)
  BY <1>1, AccountsGrow
<1> QED  BY <1>2 DEF v

\* An account is made and enrolled.
LEMMA RegisteredServed ==
  ASSUME NEW d \in Database, NEW x \in Account, NEW k
  PROVE  Registered(d, x, k) \subseteq Leaving(d, ExamTables)
<1> DEFINE v == Insert(d, "accounts", x)
<1>1. SUFFICES ASSUME Free(d, "accounts") # {}
               PROVE  v \in Leaving(d, ExamTables) /\ \A a : EnrollStudent(v, a, k) \subseteq Leaving(d, ExamTables)
  BY DEF Registered
<1>2. v \in Leaving(d, ExamTables) /\ v \in Database
  BY <1>1, NewAccountServed, LeavingServes
<1> HIDE DEF v
<1> QED  BY <1>2, EnrollStudentServed, LeavingTrans

\* The account of a new student is one.
LEMMA NewStudentTyped ==
  ASSUME NEW nisn \in STRING, NEW nis \in Opt(STRING), NEW name \in Opt(STRING),
         StudentName(nisn, nis) \in STRING
  PROVE  NewStudent(nisn, nis, name) \in Account
  BY DEF NewStudent, Account, Opt

\* create_student.
LEMMA CreateStudentServed ==
  ASSUME NEW d \in Database, NEW nisn \in STRING, NEW nis \in Opt(STRING), NEW name \in Opt(STRING),
         StudentName(nisn, nis) \in STRING
  PROVE  CreateStudent(d, nisn, nis, name) \subseteq Leaving(d, ExamTables)
<1>1. \A k : Registered(d, NewStudent(nisn, nis, name), k) \subseteq Leaving(d, ExamTables)
  BY NewStudentTyped, RegisteredServed
<1> QED  BY <1>1 DEF CreateStudent

\* update_student, with the transfer a class name brings.
LEMMA UpdateStudentServed ==
  ASSUME NEW d \in Database, NEW a, NEW nisn \in Opt(STRING), NEW nis \in Opt(STRING),
         NEW name \in Opt(STRING), NEW on \in BOOLEAN
  PROVE  UpdateStudent(d, a, nisn, nis, name, on) \subseteq Leaving(d, ExamTables)
<1> DEFINE moved == name \notin {Null, d.accounts[a].className}
           row == [d.accounts[a] EXCEPT !.nisn = nisn, !.nis = nis, !.active = on,
                                        !.className = IF moved THEN @ ELSE name]
           v == Put(d, "accounts", a, row)
<1>1. SUFFICES ASSUME a \in Rows(d, "accounts")
               PROVE  v \in Leaving(d, ExamTables) /\ \A k : EnrollStudent(v, a, k) \subseteq Leaving(d, ExamTables)
  BY DEF UpdateStudent, Students
<1>2. row \in Account /\ row.role = d.accounts[a].role
  <2> HIDE DEF moved
  <2>1. d.accounts[a] \in Account
    BY <1>1, RowsAre
  <2> QED  BY <2>1 DEF Account
<1> HIDE DEF row
<1>3. v \in Leaving(d, ExamTables) /\ v \in Database
  BY <1>1, <1>2, PutAccountServed, LeavingServes
<1> HIDE DEF v
<1> QED  BY <1>3, EnrollStudentServed, LeavingTrans

\* delete_student: what fits stays so, and only one without attempts and
\* check-ins goes.
LEMMA DeleteStudentServed ==
  ASSUME NEW d \in Database, NEW a, NEW v \in DeleteStudent(d, a)
  PROVE  /\ v \in Database /\ SameBut(d, v, {"accounts"}) /\ Kept(d, v)
         /\ Students(v) = Students(d) \ {a} /\ AttemptsOf(d, a) = {} /\ CheckinsOf(d, a) = {}
<1>1. v = Drop(d, "accounts", {a}) /\ AttemptsOf(d, a) = {} /\ CheckinsOf(d, a) = {}
  BY DEF DeleteStudent, Given
<1>2. v \in Database /\ SameBut(d, v, {"accounts"}) /\ Students(v) = Students(d) \ {a}
  BY <1>1, DropAccount
<1>3. v.attempts = d.attempts /\ v.checkins = d.checkins
  BY <1>2, TableNames DEF SameBut
<1>4. ASSUME TracesFit(d) PROVE TracesFit(v)
  <2>1. ASSUME NEW t \in {"attempts", "checkins"}, NEW i \in Rows(v, t)
        PROVE  v[t][i].student \in Students(v)
    <3>1. v[t] = d[t] /\ i \in Rows(d, t)
      BY <1>3 DEF Rows
    <3>2. d[t][i].student \in Students(d)
      BY <1>4, <3>1 DEF TracesFit
    <3>3. d[t][i].student # a
      BY <1>1, <3>1 DEF AttemptsOf, CheckinsOf
    <3> QED  BY <1>2, <3>1, <3>2, <3>3
  <2> QED  BY <2>1 DEF TracesFit
<1>5. Kept(d, v)
  BY <1>2, <1>4, AccountsKept
<1> QED  BY <1>1, <1>2, <1>5

\* toggle_active.
LEMMA ToggleActiveServed ==
  ASSUME NEW d \in Database, NEW a
  PROVE  ToggleActive(d, a) \subseteq Leaving(d, ExamTables)
<1>1. ASSUME NEW on \in BOOLEAN, a \in Rows(d, "accounts")
      PROVE  Set(d, "accounts", {a}, "active", on) \in Leaving(d, ExamTables)
  BY <1>1, AccountSet
<1>2. \A on \in BOOLEAN : a \in Rows(d, "accounts")
                           => Set(d, "accounts", {a}, "active", on) \in Leaving(d, ExamTables)
  BY <1>1
<1>3. a \in Rows(d, "accounts") => d.accounts[a].active \in BOOLEAN
  BY RowsAre DEF Account
<1>4. a \in Rows(d, "accounts")
        => Set(d, "accounts", {a}, "active", ~d.accounts[a].active) \in Leaving(d, ExamTables)
  BY <1>2, <1>3, Zenon
<1> QED  BY <1>4 DEF ToggleActive, Given

\* clear-sessions.
LEMMA ClearStudentSessionsServed ==
  ASSUME NEW d \in Database, NEW a
  PROVE  ClearStudentSessions(d, a) \subseteq Leaving(d, ExamTables)
  BY ClearServed DEF ClearStudentSessions, Given

\* import of students.
LEMMA ImportStudentsServed ==
  ASSUME NEW d \in Database, NEW y, NEW file, IsFiniteSet(file),
         \A x \in file : /\ x[1] \in STRING /\ x[2] \in Opt(STRING) /\ x[3] \in Opt(STRING)
                         /\ StudentName(x[1], x[2]) \in STRING
  PROVE  ImportStudents(d, y, file) \subseteq Leaving(d, ExamTables)
<1> DEFINE register == [x \in file |-> [v \in Database |->
        UNION {Registered(v, NewStudent(x[1], x[2], x[3]), k) : k \in Joins(d, y, x)}]]
<1>1. ImportStudents(d, y, file) \subseteq Each(register, d)
  BY DEF ImportStudents
<1>2. \A x \in file : NewStudent(x[1], x[2], x[3]) \in Account
  BY NewStudentTyped
<1>3. \A x \in DOMAIN register : \A v \in Database : register[x][v] \subseteq Leaving(v, ExamTables)
  BY <1>2, RegisteredServed
<1>4. IsFiniteSet(DOMAIN register)
  OBVIOUS
<1> HIDE DEF register
<1> QED  BY <1>1, <1>3, <1>4, BulkLeaving

\* create_teacher.
LEMMA CreateTeacherServed ==
  ASSUME NEW d \in Database, NEW nip, TeacherName(nip) \in STRING, NEW n \in STRING
  PROVE  CreateTeacher(d, nip, n) \subseteq Leaving(d, ExamTables)
<1>1. NewTeacher(nip, n) \in Account
  BY DEF NewTeacher, Account, Opt
<1> QED  BY <1>1, NewAccountServed DEF CreateTeacher, Given

\* update_teacher.
LEMMA UpdateTeacherServed ==
  ASSUME NEW d \in Database, NEW a, NEW n \in STRING, NEW on \in BOOLEAN
  PROVE  UpdateTeacher(d, a, n, on) \subseteq Leaving(d, ExamTables)
<1> DEFINE row == [d.accounts[a] EXCEPT !.code = n, !.active = on]
<1>1. SUFFICES ASSUME a \in Rows(d, "accounts")
               PROVE  Put(d, "accounts", a, row) \in Leaving(d, ExamTables)
  BY DEF UpdateTeacher, Given, Teachers
<1>2. row \in Account /\ row.role = d.accounts[a].role
  <2>1. d.accounts[a] \in Account
    BY <1>1, RowsAre
  <2> QED  BY <2>1 DEF Account, Opt
<1> HIDE DEF row
<1> QED  BY <1>1, <1>2, PutAccountServed

\* delete_teacher, with all that is his.
LEMMA DeleteTeacherServed ==
  ASSUME NEW d \in Database, NEW a
  PROVE  DeleteTeacher(d, a) \subseteq Leaving(d, BankSpares)
<1> DEFINE Of(t, col) == {i \in Rows(d, t) : d[t][i][col] = a}
           own == {i \in Rows(d, "items") : \/ d.items[i].package \in Of("banks", "owner")
                                       \/ d.items[i].question \in Of("questions", "owner")}
           u == Drop(d, "competency", Of("competency", "teacher"))
           w == Drop(u, "teaching", Of("teaching", "teacher"))
           v == Drop(Drop(Drop(w, "items", own), "banks", Of("banks", "owner")),
                     "questions", Of("questions", "owner"))
<1>1. SUFFICES ASSUME a \in Teachers(d)
               PROVE  Drop(v, "accounts", {a}) \in Leaving(d, BankSpares)
  BY DEF DeleteTeacher, Given
<1> HIDE DEF Of, own
<1>2. u \in Leaving(d, BankSpares) /\ SameBut(d, u, {"competency"})
  BY DropOn, LeavingStays, Spares DEF Aside
<1> HIDE DEF u
<1>3. w \in Leaving(d, BankSpares) /\ w \in Database /\ SameBut(u, w, {"teaching"})
  BY <1>2, DropLessons, DropSame, TableNames, LeavingTrans, LeavingServes, LeavingLess
<1> HIDE DEF w
<1>4. v \in Leaving(d, BankSpares) /\ v \in Database /\ v.accounts = w.accounts
  <2> DEFINE v1 == Drop(w, "items", own)
             v2 == Drop(v1, "banks", Of("banks", "owner"))
  <2>1. v1 \in Leaving(d, BankSpares) /\ SameBut(w, v1, {"items"})
    BY <1>3, DropOn, Spares DEF Aside
  <2> HIDE DEF v1
  <2>2. v2 \in Leaving(d, BankSpares) /\ SameBut(v1, v2, {"banks"})
    BY <2>1, DropOn, Spares DEF Aside
  <2> HIDE DEF v2
  <2>3. LET x == Drop(v2, "questions", Of("questions", "owner"))
        IN x \in Leaving(d, BankSpares) /\ SameBut(v2, x, {"questions"})
    BY <2>2, DropOn, Spares DEF Aside
  <2>4. v = Drop(v2, "questions", Of("questions", "owner"))
    BY DEF v1, v2
  <2> HIDE DEF v
  <2>5. SameBut(v2, v, {"questions"}) /\ v \in Leaving(d, BankSpares)
    BY <2>3, <2>4
  <2> QED  BY <2>1, <2>2, <2>5, TableNames, LeavingServes DEF SameBut
<1> HIDE DEF v
<1>5. v.accounts = d.accounts
  BY <1>2, <1>3, <1>4, TableNames DEF SameBut
<1>6. a \notin Students(v)
  BY <1>1, <1>5 DEF Teachers, Students
<1>7. Drop(v, "accounts", {a}) \in Leaving(v, BankSpares)
  BY <1>4, <1>6, DropTeacherServed, LeavingLess
<1> QED  BY <1>4, <1>7, LeavingTrans

\* import of teachers.
LEMMA ImportTeachersServed ==
  ASSUME NEW d \in Database, NEW file, IsFiniteSet(file),
         \A x \in file : TeacherName(x[1]) \in STRING /\ x[2] \in STRING
  PROVE  ImportTeachers(d, file) \subseteq Leaving(d, ExamTables)
<1> DEFINE service == [x \in file |-> [v \in Database |-> CreateTeacher(v, x[1], x[2])]]
<1>1. \A x \in DOMAIN service : \A v \in Database : service[x][v] \subseteq Leaving(v, ExamTables)
  BY CreateTeacherServed
<1>2. ImportTeachers(d, file) = Each(service, d)
  BY DEF ImportTeachers
<1>3. IsFiniteSet(DOMAIN service)
  OBVIOUS
<1> HIDE DEF service
<1> QED  BY <1>1, <1>2, <1>3, BulkLeaving
=============================================================================
