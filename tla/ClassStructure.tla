---------------------------- MODULE ClassStructure ----------------------------
(***************************************************************************)
(* ClassService, SubjectService and ClassStructureService: the classes and *)
(* subjects of a school, who is enrolled in a class, which subjects it has *)
(* and who teaches them.  A class or a subject with a history is switched  *)
(* off instead of deleted.                                                 *)
(***************************************************************************)
EXTENDS AcademicYear, FiniteSetsExt

ClassNamed(d, y, n) == {k \in Rows(d, "classes") : d.classes[k].year = y /\ d.classes[k].name = n}
SubjectCoded(d, n) == {s \in Rows(d, "subjects") : d.subjects[s].code = n}
Students(d) == {a \in Rows(d, "accounts") : d.accounts[a].role = "STUDENT"}
Teachers(d) == {a \in Rows(d, "accounts") : d.accounts[a].role = "TEACHER"}

\* A request over several things does them one after the other, each on what
\* the one before has left; one that is refused refuses all.  service[x] takes
\* a database to those that doing x may leave.
Each(service, d) ==
  LET One(x, views) == UNION {service[x][v] : v \in views} IN FoldSet(One, {d}, DOMAIN service)

-----------------------------------------------------------------------------
CreateClass(d, y, n) ==
  Given(y \in Rows(d, "years") /\ ClassNamed(d, y, n) = {} /\ Free(d, "classes") # {},
        Insert(d, "classes", [year |-> y, name |-> n, active |-> TRUE]))

UpdateClass(d, k, n, active) ==
  Given(k \in Rows(d, "classes") /\ ClassNamed(d, d.classes[k].year, n) \subseteq {k},
        Put(d, "classes", k, [d.classes[k] EXCEPT !.name = n, !.active = active]))

\* Mutant of HasHistoricalRecords: who is or was in the class does not count.
HasSchedules(d, k) == \E i \in Rows(d, "schedules") : d.schedules[i].class = k

HasHistoricalRecords(d, k) ==
  \E t \in {"enrolments", "schedules", "classSubjects"} : \E i \in Rows(d, t) : d[t][i].class = k

\* A hard deletion takes along the enrolments and teaching assignments.
DeleteClass(d, k) ==
  Given(k \in Rows(d, "classes"),
        IF HasHistoricalRecords(d, k) THEN Set(d, "classes", {k}, "active", FALSE)
        ELSE Drop(d, "classes", {k}))

-----------------------------------------------------------------------------
ActiveEnrolments(d, a, y) ==
  {e \in InStatus(d, "enrolments", {"ACTIVE"}) :
     d.enrolments[e].student = a /\ d.enrolments[e].year = y}

\* Mutant of Enrolled: the enrolment in the other class goes on.
EnrolledBeside(d, a, k, old) ==
  Insert(d, "enrolments",
         [student |-> a, class |-> k, year |-> d.classes[k].year, status |-> "ACTIVE"])

\* A transfer ends the enrolment the query finds and begins another.
Enrolled(d, a, k, old) ==
  LET left == Set(d, "enrolments", old, "status", "TRANSFERRED")
      joined == Insert(left, "enrolments",
                       [student |-> a, class |-> k, year |-> d.classes[k].year, status |-> "ACTIVE"])
  IN Set(joined, "accounts", {a}, "className", d.classes[k].name)

EnrollStudent(d, a, k) ==
  IF ~(k \in Rows(d, "classes") /\ a \in Rows(d, "accounts")) THEN {}
  ELSE LET found == ActiveEnrolments(d, a, d.classes[k].year)
       IN {d : e \in {e \in found : d.enrolments[e].class = k}}
          \cup (IF Free(d, "enrolments") = {} THEN {}
                ELSE IF found = {} THEN {Enrolled(d, a, k, {})}
                ELSE {Enrolled(d, a, k, {e}) : e \in {e \in found : d.enrolments[e].class # k}})

\* Nothing happens to a student who is not in the class.
RemoveStudent(d, a, k) ==
  LET found == ActiveEnrolments(d, a, d.classes[k].year)
      Left(e) == Set(Set(d, "enrolments", {e}, "status", "DROPPED"),
                     "accounts", {a} \cap Rows(d, "accounts"), "className", Null)
  IN IF k \notin Rows(d, "classes") THEN {}
     ELSE IF found = {} THEN {d}
     ELSE {IF d.enrolments[e].class = k THEN Left(e) ELSE d : e \in found}

-----------------------------------------------------------------------------
\* assign: the row of the pair, which may be there already.
Paired(d, t, pair, row) == IF d[t][pair] = Null THEN Put(d, t, pair, row) ELSE d

AssignSubject(d, k, s) ==
  Given(k \in Rows(d, "classes") /\ s \in Rows(d, "subjects"),
        Paired(d, "classSubjects", <<k, s>>, [class |-> k, subject |-> s]))

\* Mutant of RemoveSubject: whoever teaches it is left.
RemoveSubjectAlone(d, k, s) ==
  Given(k \in Rows(d, "classes"), Drop(d, "classSubjects", {<<k, s>>}))

\* Whoever teaches the subject there goes with it.
RemoveSubject(d, k, s) ==
  Given(k \in Rows(d, "classes") /\ s \in Rows(d, "subjects"),
        Drop(Drop(d, "teaching", {<<k, s>>}), "classSubjects", {<<k, s>>}))

Competent(d, a, s) == d.competency[<<a, s>>] # Null

Assigned(d, k, s, a) ==
  Put(Paired(d, "classSubjects", <<k, s>>, [class |-> k, subject |-> s]),
      "teaching", <<k, s>>, [class |-> k, subject |-> s, teacher |-> a])

AssignTeacher(d, k, s, a) ==
  Given(/\ k \in Rows(d, "classes") /\ s \in Rows(d, "subjects") /\ a \in Rows(d, "accounts")
        /\ Competent(d, a, s),
        Assigned(d, k, s, a))

\* import_classes_xlsx: a class of the year with its students and with
\* subjects and their teachers, all valid or none imported.  A student is
\* found by any of the numbers, a teacher by code, NIP or username.
TeacherName(nip) == nip \o "@guru"
Known(d, n) ==
  {a \in Students(d) : n \in {d.accounts[a].nisn, d.accounts[a].nis, d.accounts[a].username}}
Coded(d, n) ==
  {a \in Teachers(d) : n = d.accounts[a].code \/ d.accounts[a].username \in {n, TeacherName(n)}}

LessonsValid(d, lessons) ==
  /\ \A l \in lessons : /\ SubjectCoded(d, l[1]) # {} /\ Coded(d, l[2]) # {}
                        /\ \A s \in SubjectCoded(d, l[1]), a \in Coded(d, l[2]) : Competent(d, a, s)
  /\ \A l, m \in lessons : l[1] = m[1] => l = m

ClassFileValid(d, y, n, students) ==
  /\ y \in Rows(d, "years") /\ ClassNamed(d, y, n) # {}
  /\ \A x \in students : Known(d, x) # {}

ImportClass(d, y, n, students, lessons) ==
  LET classes == ClassNamed(d, y, n)
      join == [x \in students |-> [v \in Database |->
                 UNION {EnrollStudent(v, a, k) : a \in Known(d, x), k \in classes}]]
      teach == [l \in lessons |-> [v \in Database |->
                 {Assigned(v, k, s, a) : k \in classes, s \in SubjectCoded(d, l[1]),
                                         a \in Coded(d, l[2])}]]
  IN IF ClassFileValid(d, y, n, students) /\ LessonsValid(d, lessons)
     THEN UNION {Each(teach, v) : v \in Each(join, d)} ELSE {}

-----------------------------------------------------------------------------
CreateSubject(d, n) ==
  Given(SubjectCoded(d, n) = {} /\ Free(d, "subjects") # {},
        Insert(d, "subjects", [code |-> n, active |-> TRUE]))

\* The code is immutable.
UpdateSubject(d, s, n, active) ==
  Given(s \in Rows(d, "subjects") /\ d.subjects[s].code = n,
        Set(d, "subjects", {s}, "active", active))

SubjectInUse(d, s) ==
  \E t \in {"competency", "classSubjects", "schedules"} : \E i \in Rows(d, t) : d[t][i].subject = s

DeleteSubject(d, s) ==
  Given(s \in Rows(d, "subjects"),
        IF SubjectInUse(d, s) THEN Set(d, "subjects", {s}, "active", FALSE)
        ELSE Drop(d, "subjects", {s}))

\* In bulk, what does not exist is passed over.
DeleteSubjects(d, S) ==
  Each([s \in S \cap Rows(d, "subjects") |-> [v \in Database |-> DeleteSubject(v, s)]], d)
SwitchSubjects(d, S, active) == {Set(d, "subjects", S \cap Rows(d, "subjects"), "active", active)}

ImportSubjects(d, codes) ==
  Each([n \in codes |-> [v \in Database |-> CreateSubject(v, n)]], d)

AssignCompetency(d, a, s) ==
  Given(a \in Rows(d, "accounts") /\ s \in Rows(d, "subjects"),
        Paired(d, "competency", <<a, s>>, [teacher |-> a, subject |-> s]))

\* What the teacher teaches already stays.
UnassignCompetency(d, a, s) == {Drop(d, "competency", {<<a, s>>})}
=============================================================================
