------------------------------- MODULE Members --------------------------------
(***************************************************************************)
(* SchoolStudentService and SchoolStaffService: the accounts of the        *)
(* students and teachers of a school.  A student signs in under his NIS,   *)
(* or his NISN when he has none, a teacher under his NIP.  What a student  *)
(* took part in keeps his account, what a teacher is responsible for his.  *)
(***************************************************************************)
EXTENDS ClassStructure

Named(d, u) == {a \in Rows(d, "accounts") : d.accounts[a].username = u}
StudentName(nisn, nis) == (IF nis = Null THEN nisn ELSE nis) \o "@siswa"

\* The classes a class name can stand for: of the year the query finds active.
ClassesRunning(d, n) == UNION {ClassNamed(d, y, n) : y \in ActiveYears(d)}

\* The account x, enrolled in the class k if there is one.
Registered(d, x, k) ==
  LET v == Insert(d, "accounts", x)
  IN IF Free(d, "accounts") = {} THEN {}
     ELSE IF k = Null THEN {v} ELSE EnrollStudent(v, New(d, "accounts"), k)

NewStudent(nisn, nis, name) ==
  [role |-> "STUDENT", username |-> StudentName(nisn, nis), code |-> Null,
   nisn |-> nisn, nis |-> nis, className |-> name, active |-> TRUE]

\* Only the name to sign in with is tested, so a NISN may be given twice.
CreateStudent(d, nisn, nis, name) ==
  IF Named(d, StudentName(nisn, nis)) # {} THEN {}
  ELSE UNION {Registered(d, NewStudent(nisn, nis, name), k) :
                k \in IF name = Null THEN {Null} ELSE ClassesRunning(d, name)}

\* The name to sign in with stays what it was.  A class name taken away
\* leaves the enrolment.
UpdateStudent(d, a, nisn, nis, name, active) ==
  IF a \notin Students(d) THEN {}
  ELSE LET moved == name \notin {Null, d.accounts[a].className}
           v == Put(d, "accounts", a,
                    [d.accounts[a] EXCEPT !.nisn = nisn, !.nis = nis, !.active = active,
                                          !.className = IF moved THEN @ ELSE name])
       IN IF moved THEN UNION {EnrollStudent(v, a, k) : k \in ClassesRunning(d, name)} ELSE {v}

AttemptsOf(d, a) == {i \in Rows(d, "attempts") : d.attempts[i].student = a}
CheckinsOf(d, a) == {i \in Rows(d, "checkins") : d.checkins[i].student = a}

\* Mutant of DeleteStudent: having come to an exam does not count.
DeleteUnlessSat(d, a) ==
  Given(a \in Students(d) /\ AttemptsOf(d, a) = {}, Drop(d, "accounts", {a}))

DeleteStudent(d, a) ==
  Given(a \in Students(d) /\ AttemptsOf(d, a) = {} /\ CheckinsOf(d, a) = {},
        Drop(d, "accounts", {a}))

ToggleActive(d, a) ==
  Given(a \in Rows(d, "accounts"), Set(d, "accounts", {a}, "active", ~d.accounts[a].active))

\* clear-sessions: what the student has checked in to is forgotten.  (It also
\* invalidates his device sessions, which is ClearSessions of ExamAttempt, and
\* revokes his user sessions, which is ClearSessions of UserSessions.)
ClearStudentSessions(d, a) ==
  Given(a \in Students(d), Drop(d, "checkins", CheckinsOf(d, a)))

\* A file of <<nisn, nis, class name>>: no number twice, in the file or among
\* the students, and every class is one of the year.
NumbersFree(d, x) ==
  /\ \A a \in Students(d) : /\ d.accounts[a].nisn # x[1]
                            /\ x[2] # Null => d.accounts[a].nis # x[2]
  /\ Named(d, StudentName(x[1], x[2])) = {}

GivenOnce(file) ==
  \A x, z \in file : (\/ x[1] = z[1]
                      \/ x[2] # Null /\ x[2] = z[2]
                      \/ StudentName(x[1], x[2]) = StudentName(z[1], z[2])) => x = z

\* The classes to enrol the student of a row in, if any is named.
Joins(d, y, x) == IF x[3] = Null THEN {Null} ELSE ClassNamed(d, y, x[3])

ImportStudents(d, y, file) ==
  LET register == [x \in file |-> [v \in Database |->
        UNION {Registered(v, NewStudent(x[1], x[2], x[3]), k) : k \in Joins(d, y, x)}]]
  IN IF /\ y \in Rows(d, "years") /\ GivenOnce(file)
        /\ \A x \in file : NumbersFree(d, x) /\ Joins(d, y, x) # {}
     THEN Each(register, d) ELSE {}

-----------------------------------------------------------------------------
TeacherCoded(d, n) == {a \in Teachers(d) : d.accounts[a].code = n}

NewTeacher(nip, n) ==
  [role |-> "TEACHER", username |-> TeacherName(nip), code |-> n,
   nisn |-> Null, nis |-> Null, className |-> Null, active |-> TRUE]

CreateTeacher(d, nip, n) ==
  Given(/\ Named(d, TeacherName(nip)) = {} /\ TeacherCoded(d, n) = {}
        /\ Free(d, "accounts") # {},
        Insert(d, "accounts", NewTeacher(nip, n)))

UpdateTeacher(d, a, n, active) ==
  Given(a \in Teachers(d) /\ TeacherCoded(d, n) \subseteq {a},
        Put(d, "accounts", a, [d.accounts[a] EXCEPT !.code = n, !.active = active]))

\* Everything of his goes, down to the items that others made of his
\* questions; he stays as long as a schedule names him its teacher.
DeleteTeacher(d, a) ==
  LET Of(t, col) == {i \in Rows(d, t) : d[t][i][col] = a}
      own == {i \in Rows(d, "items") : \/ d.items[i].package \in Of("banks", "owner")
                                       \/ d.items[i].question \in Of("questions", "owner")}
      freed == Drop(Drop(d, "competency", Of("competency", "teacher")),
                    "teaching", Of("teaching", "teacher"))
      emptied == Drop(Drop(Drop(freed, "items", own), "banks", Of("banks", "owner")),
                      "questions", Of("questions", "owner"))
  IN Given(a \in Teachers(d) /\ Of("schedules", "teacher") = {}, Drop(emptied, "accounts", {a}))

ImportTeachers(d, file) ==
  Each([x \in file |-> [v \in Database |-> CreateTeacher(v, x[1], x[2])]], d)
=============================================================================
