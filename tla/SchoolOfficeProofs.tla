------------------------- MODULE SchoolOfficeProofs -------------------------
(***************************************************************************)
(* What the office guarantees, for any school, any number of clerks and    *)
(* whatever their requests are and overtake.                               *)
(*                                                                         *)
(* A request reads, decides, and writes much later.  If nobody committed   *)
(* in between, its writes turn the database into the one its service       *)
(* wanted; if somebody did, they leave rows of the right types but may     *)
(* break what the service relied on, and the tables it wrote are counted   *)
(* as raced.  The invariant says which records fit and what every request  *)
(* in flight would make of the database.                                   *)
(***************************************************************************)
EXTENDS SchoolExamsProofs

-----------------------------------------------------------------------------
(* Every request leaves what a service may leave.                          *)

\* bulk_enroll_students keeps what enroll_student keeps.
LEMMA BulkEnrollServed ==
  ASSUME NEW d \in Database, NEW k, NEW S, IsFiniteSet(S)
  PROVE  Each([a \in S |-> [v \in Database |-> EnrollStudent(v, a, k)]], d) \subseteq Leaving(d, ExamTables)
<1> DEFINE service == [a \in S |-> [v \in Database |-> EnrollStudent(v, a, k)]]
<1>1. \A a \in DOMAIN service : \A v \in Database : service[a][v] \subseteq Leaving(v, ExamTables)
  BY EnrollStudentServed
<1>2. IsFiniteSet(DOMAIN service)
  OBVIOUS
<1>3. Each(service, d) \subseteq Leaving(d, ExamTables)
  <2> HIDE DEF service
  <2> QED  BY <1>1, <1>2, BulkLeaving
<1> QED  BY <1>3

\* bulk_remove_students keeps what remove_student keeps.
LEMMA BulkRemoveServed ==
  ASSUME NEW d \in Database, NEW k, NEW S, IsFiniteSet(S)
  PROVE  Each([a \in S |-> [v \in Database |-> RemoveStudent(v, a, k)]], d) \subseteq Leaving(d, ExamTables)
<1> DEFINE service == [a \in S |-> [v \in Database |-> RemoveStudent(v, a, k)]]
<1>1. \A a \in DOMAIN service : \A v \in Database : service[a][v] \subseteq Leaving(v, ExamTables)
  BY RemoveStudentServed
<1>2. IsFiniteSet(DOMAIN service)
  OBVIOUS
<1>3. Each(service, d) \subseteq Leaving(d, ExamTables)
  <2> HIDE DEF service
  <2> QED  BY <1>1, <1>2, BulkLeaving
<1> QED  BY <1>3

\* Several subjects assigned to a class at once.
LEMMA BulkAssignServed ==
  ASSUME NEW d \in Database, NEW k, NEW S, IsFiniteSet(S)
  PROVE  Each([s \in S |-> [v \in Database |-> AssignSubject(v, k, s)]], d) \subseteq Leaving(d, ExamTables)
<1> DEFINE service == [s \in S |-> [v \in Database |-> AssignSubject(v, k, s)]]
<1>1. \A s \in DOMAIN service : \A v \in Database : service[s][v] \subseteq Leaving(v, ExamTables)
  BY AssignSubjectServed
<1>2. IsFiniteSet(DOMAIN service)
  OBVIOUS
<1>3. Each(service, d) \subseteq Leaving(d, ExamTables)
  <2> HIDE DEF service
  <2> QED  BY <1>1, <1>2, BulkLeaving
<1> QED  BY <1>3

\* Several subjects taken from a class at once.
LEMMA BulkUnassignServed ==
  ASSUME NEW d \in Database, NEW k, NEW S, IsFiniteSet(S)
  PROVE  Each([s \in S |-> [v \in Database |-> RemoveSubject(v, k, s)]], d) \subseteq Leaving(d, ExamTables)
<1> DEFINE service == [s \in S |-> [v \in Database |-> RemoveSubject(v, k, s)]]
<1>1. \A s \in DOMAIN service : \A v \in Database : service[s][v] \subseteq Leaving(v, ExamTables)
  BY RemoveSubjectServed
<1>2. IsFiniteSet(DOMAIN service)
  OBVIOUS
<1>3. Each(service, d) \subseteq Leaving(d, ExamTables)
  <2> HIDE DEF service
  <2> QED  BY <1>1, <1>2, BulkLeaving
<1> QED  BY <1>3

\* What a request can count on when it begins.
Sound == db \in Database /\ Consistent(db) /\ now \in Nat

\* It begins with what a service leaves.
Serves(c) == \E v \in Answered(db, now) : Begin(c, v)

\* A sound database has all its keys.
LEMMA SoundAside ==
  ASSUME Sound
  PROVE  /\ db \in Database /\ KeysHold(db) /\ UniquesHold(db) /\ now \in Nat
         /\ Leaving(db, ExamTables) \subseteq Answered(db, now)
  BY AsideAnswers DEF Sound, Consistent

\* Two of the ids of a table.
LEMMA TwoFinite ==
  ASSUME NEW t \in Tables, NEW S \in Two(Ids[t])
  PROVE  IsFiniteSet(S) /\ S \in SUBSET Ids[t]
  BY IdsFinite DEF Two

\* What the forms let through.
LEMMA Inputs ==
  /\ \A s \in Spans \cup Slots : s \in Nat \X Nat
  /\ \A n \in ClassNames \cup SubjectCodes \cup Numbers \cup TeacherCodes \cup Contents : n \in STRING
  /\ \A n \in Numbers : StudentName(n, Null) \in STRING /\ TeacherName(n) \in STRING
  /\ Targets \subseteq [QuestionType -> Nat] /\ Statuses \subseteq ScheduleStatus
  BY InputsAssumption

\* The name of a student is a string, with or without a NIS.
LEMMA Names ==
  ASSUME NEW f \in Numbers, NEW n \in Opt(Numbers)
  PROVE  StudentName(f, n) \in STRING
<1>1. CASE n = Null
  BY <1>1, Inputs
<1>2. CASE n # Null
  <2>1. n \in Numbers /\ StudentName(n, Null) \in STRING
    BY <1>2, Inputs DEF Opt
  <2>2. StudentName(f, n) = StudentName(n, Null)
    BY <1>2 DEF StudentName
  <2> QED  BY <2>1, <2>2
<1> QED  BY <1>1, <1>2

\* A file has finitely many codes.
LEMMA CodesFinite ==
  ASSUME NEW S \in SUBSET SubjectCodes
  PROVE  IsFiniteSet(S) /\ S \in SUBSET STRING
  BY InputsAssumption, FS_Subset

\* A set of one or two is finite.
LEMMA PairFinite ==
  ASSUME NEW x, NEW y
  PROVE  IsFiniteSet({x}) /\ IsFiniteSet({x, y})
<1>1. {x, y} = {x} \cup {y}
  OBVIOUS
<1>2. IsFiniteSet({x}) /\ IsFiniteSet({y})
  BY FS_Singleton
<1>3. IsFiniteSet({x} \cup {y})
  BY <1>2, FS_Union
<1> QED  BY <1>1, <1>2, <1>3

\* The file of students.
LEMMA StudentFile ==
  ASSUME NEW f \in Numbers, NEW g \in Numbers, NEW n \in OptNumber, NEW k \in OptClass
  PROVE  /\ IsFiniteSet({<<f, n, k>>, <<g, Null, Null>>})
         /\ \A x \in {<<f, n, k>>, <<g, Null, Null>>} :
              /\ x[1] \in STRING /\ x[2] \in Opt(STRING) /\ x[3] \in Opt(STRING)
              /\ StudentName(x[1], x[2]) \in STRING
<1>1. IsFiniteSet({<<f, n, k>>, <<g, Null, Null>>})
  <2> DEFINE a == <<f, n, k>>
             b == <<g, Null, Null>>
  <2>1. IsFiniteSet({a, b})
    <3> HIDE DEF a, b
    <3> QED  BY PairFinite
  <2> QED  BY <2>1
<1>2. /\ StudentName(f, n) \in STRING /\ StudentName(g, Null) \in STRING
      /\ f \in STRING /\ g \in STRING /\ n \in Opt(STRING) /\ k \in Opt(STRING)
      /\ Null \in Opt(STRING)
  BY Names, Inputs DEF OptNumber, OptClass, Opt
<1>3. ASSUME NEW x \in {<<f, n, k>>, <<g, Null, Null>>}
      PROVE  /\ x[1] \in STRING /\ x[2] \in Opt(STRING) /\ x[3] \in Opt(STRING)
             /\ StudentName(x[1], x[2]) \in STRING
  <2>1. CASE x = <<f, n, k>>
    BY <1>2, <2>1
  <2>2. CASE x = <<g, Null, Null>>
    BY <1>2, <2>2
  <2> QED  BY <2>1, <2>2
<1> QED  BY <1>1, <1>3

\* The file of teachers.
LEMMA TeacherFile ==
  ASSUME NEW x \in Numbers, NEW n \in TeacherCodes
  PROVE  /\ IsFiniteSet({<<x, n>>})
         /\ \A z \in {<<x, n>>} : TeacherName(z[1]) \in STRING /\ z[2] \in STRING
<1>1. IsFiniteSet({<<x, n>>})
  <2> DEFINE a == <<x, n>>
  <2>1. IsFiniteSet({a})
    <3> HIDE DEF a
    <3> QED  BY PairFinite
  <2> QED  BY <2>1
<1>2. TeacherName(x) \in STRING /\ n \in STRING
  BY Inputs
<1>3. ASSUME NEW z \in {<<x, n>>}
      PROVE  TeacherName(z[1]) \in STRING /\ z[2] \in STRING
  <2>1. z[1] = x /\ z[2] = n
    OBVIOUS
  <2> QED  BY <1>2, <2>1
<1> QED  BY <1>1, <1>3

\* The file of schedules.
LEMMA ScheduleFile ==
  ASSUME NEW n, NEW s, NEW slot \in Slots, NEW a
  PROVE  /\ IsFiniteSet({<<n, s, slot, a>>})
         /\ \A x \in {<<n, s, slot, a>>} : x[3] \in Nat \X Nat
<1>1. IsFiniteSet({<<n, s, slot, a>>})
  <2> DEFINE r == <<n, s, slot, a>>
  <2>1. IsFiniteSet({r})
    <3> HIDE DEF r
    <3> QED  BY PairFinite
  <2> QED  BY <2>1
<1>2. slot \in Nat \X Nat
  BY Inputs
<1> QED  BY <1>1, <1>2

\* The file of questions.
LEMMA QuestionFile ==
  ASSUME NEW t, NEW x \in Contents, NEW n, NEW other
  PROVE  LET row == [type |-> t, content |-> x, key |-> x, options |-> <<x, other>>, ai |-> FALSE,
                     rubrics |-> n]
         IN  IsFiniteSet({row}) /\ \A r \in {row} : r.content \in STRING
<1> DEFINE row == [type |-> t, content |-> x, key |-> x, options |-> <<x, other>>, ai |-> FALSE,
                   rubrics |-> n]
<1>1. row.content \in STRING
  BY Inputs
<1> HIDE DEF row
<1>2. IsFiniteSet({row}) /\ \A r \in {row} : r.content \in STRING
  BY <1>1, PairFinite
<1> QED  BY <1>2 DEF row

\* Accounts, packages and reports have ids of theirs.
LEMMA RowsIn ==
  ASSUME NEW d \in Database
  PROVE  /\ Rows(d, "accounts") \subseteq Ids.accounts
         /\ Teachers(d) \subseteq Ids.accounts
         /\ Students(d) \subseteq Rows(d, "accounts")
         /\ Rows(d, "packages") \subseteq Ids.packages
         /\ Rows(d, "reports") \subseteq Ids.reports
  BY RowsAre DEF Teachers, Students

\* Requests on years and semesters leave what a service may leave.
LEMMA YearServes ==
  ASSUME Sound, NEW c, YearRequest(c)
  PROVE  Serves(c)
<1>1. ASSUME OnCreateYear(c) PROVE Serves(c)
  BY <1>1, CreateYearServed, Inputs, SoundAside DEF OnCreateYear, Serves
<1>2. ASSUME OnDeleteYear(c) PROVE Serves(c)
  BY <1>2, DeleteYearServed, SoundAside DEF OnDeleteYear, Serves
<1>3. ASSUME OnCloseYear(c) PROVE Serves(c)
  BY <1>3, CloseYearServed, SoundAside DEF OnCloseYear, Serves
<1>4. ASSUME OnFinalizeArchive(c) PROVE Serves(c)
  BY <1>4, FinalizeArchiveServed, SoundAside DEF OnFinalizeArchive, Serves
<1>5. ASSUME OnRollover(c) PROVE Serves(c)
  BY <1>5, RolloverServed, SoundAside DEF OnRollover, Serves
<1>6. ASSUME OnCreateSemester(c) PROVE Serves(c)
  BY <1>6, CreateSemesterServed, SoundAside DEF OnCreateSemester, Serves
<1>7. ASSUME OnActivateSemester(c) PROVE Serves(c)
  BY <1>7, ActivateSemesterServed, SoundAside DEF OnActivateSemester, Serves
<1> QED  BY <1>1, <1>2, <1>3, <1>4, <1>5, <1>6, <1>7 DEF YearRequest

\* Requests on classes do.
LEMMA ClassServes ==
  ASSUME Sound, NEW c, ClassRequest(c)
  PROVE  Serves(c)
<1>1. ASSUME OnCreateClass(c) PROVE Serves(c)
  BY <1>1, CreateClassServed, Inputs, SoundAside DEF OnCreateClass, Serves
<1>2. ASSUME OnUpdateClass(c) PROVE Serves(c)
  BY <1>2, UpdateClassServed, Inputs, SoundAside DEF OnUpdateClass, Serves
<1>3. ASSUME OnDeleteClass(c) PROVE Serves(c)
  BY <1>3, DeleteClassServed, SoundAside DEF OnDeleteClass, Serves
<1>4. ASSUME OnAssignSubject(c) PROVE Serves(c)
  BY <1>4, AssignSubjectServed, SoundAside DEF OnAssignSubject, Serves
<1>5. ASSUME OnBulkAssign(c) PROVE Serves(c)
  BY <1>5, BulkAssignServed, TwoFinite, TableNames, SoundAside DEF OnBulkAssign, Serves
<1>6. ASSUME OnBulkUnassign(c) PROVE Serves(c)
  BY <1>6, BulkUnassignServed, IdsFinite, TableNames, SoundAside DEF OnBulkUnassign, Serves
<1>7. ASSUME OnAssignTeacher(c) PROVE Serves(c)
  BY <1>7, AssignTeacherServed, SoundAside DEF OnAssignTeacher, Serves
<1>8. ASSUME OnImportClass(c) PROVE Serves(c)
  BY <1>8, ImportClassServed, FS_Singleton, SoundAside DEF OnImportClass, Serves
<1> QED  BY <1>1, <1>2, <1>3, <1>4, <1>5, <1>6, <1>7, <1>8 DEF ClassRequest

\* Requests on enrolments do.
LEMMA EnrolmentServes ==
  ASSUME Sound, NEW c, EnrolmentRequest(c)
  PROVE  Serves(c)
<1>1. ASSUME OnEnroll(c) PROVE Serves(c)
  BY <1>1, EnrollStudentServed, SoundAside DEF OnEnroll, Serves
<1>2. ASSUME OnBulkEnroll(c) PROVE Serves(c)
  BY <1>2, BulkEnrollServed, TwoFinite, TableNames, SoundAside DEF OnBulkEnroll, Serves
<1>3. ASSUME OnRemove(c) PROVE Serves(c)
  BY <1>3, RemoveStudentServed, SoundAside DEF OnRemove, Serves
<1>4. ASSUME OnBulkRemove(c) PROVE Serves(c)
  BY <1>4, BulkRemoveServed, TwoFinite, TableNames, SoundAside DEF OnBulkRemove, Serves
<1> QED  BY <1>1, <1>2, <1>3, <1>4 DEF EnrolmentRequest

\* Requests on subjects do.
LEMMA SubjectServes ==
  ASSUME Sound, NEW c, SubjectRequest(c)
  PROVE  Serves(c)
<1>1. ASSUME OnCreateSubject(c) PROVE Serves(c)
  BY <1>1, CreateSubjectServed, Inputs, SoundAside DEF OnCreateSubject, Serves
<1>2. ASSUME OnUpdateSubject(c) PROVE Serves(c)
  BY <1>2, UpdateSubjectServed, SoundAside DEF OnUpdateSubject, Serves
<1>3. ASSUME OnDeleteSubject(c) PROVE Serves(c)
  BY <1>3, DeleteSubjectServed, SoundAside DEF OnDeleteSubject, Serves
<1>4. ASSUME OnDeleteSubjects(c) PROVE Serves(c)
  BY <1>4, DeleteSubjectsServed, SoundAside DEF OnDeleteSubjects, Serves
<1>5. ASSUME OnSwitchSubjects(c) PROVE Serves(c)
  BY <1>5, SwitchSubjectsServed, SoundAside DEF OnSwitchSubjects, Serves
<1>6. ASSUME OnImportSubjects(c) PROVE Serves(c)
  BY <1>6, ImportSubjectsServed, CodesFinite, SoundAside DEF OnImportSubjects, Serves
<1>7. ASSUME OnAssignCompetency(c) PROVE Serves(c)
  BY <1>7, AssignCompetencyServed, SoundAside DEF OnAssignCompetency, Serves
<1>8. ASSUME OnUnassignCompetency(c) PROVE Serves(c)
  BY <1>8, UnassignCompetencyServed, SoundAside DEF OnUnassignCompetency, Serves
<1> QED  BY <1>1, <1>2, <1>3, <1>4, <1>5, <1>6, <1>7, <1>8 DEF SubjectRequest

\* Requests on students do.
LEMMA StudentServes ==
  ASSUME Sound, NEW c, StudentRequest(c)
  PROVE  Serves(c)
<1>1. ASSUME OnCreateStudent(c) PROVE Serves(c)
  BY <1>1, CreateStudentServed, Inputs, Names, SoundAside DEF OnCreateStudent, Serves, OptNumber,
         OptClass, Opt
<1>2. ASSUME OnUpdateStudent(c) PROVE Serves(c)
  BY <1>2, UpdateStudentServed, Inputs, RowsAre, SoundAside DEF OnUpdateStudent, Serves,
         OptNumber, OptClass, Opt, Students, Account
<1>3. ASSUME OnDeleteStudent(c) PROVE Serves(c)
  BY <1>3, DeleteStudentAnswers, SoundAside DEF OnDeleteStudent, Serves
<1>4. ASSUME OnToggleStudent(c) PROVE Serves(c)
  BY <1>4, ToggleActiveServed, SoundAside DEF OnToggleStudent, Serves
<1>5. ASSUME OnClearSessions(c) PROVE Serves(c)
  BY <1>5, ClearStudentSessionsServed, SoundAside DEF OnClearSessions, Serves
<1>6. ASSUME OnImportStudents(c) PROVE Serves(c)
  BY <1>6, ImportStudentsServed, StudentFile, SoundAside DEF OnImportStudents, Serves
<1> QED  BY <1>1, <1>2, <1>3, <1>4, <1>5, <1>6 DEF StudentRequest

\* Requests on teachers do.
LEMMA TeacherServes ==
  ASSUME Sound, NEW c, TeacherRequest(c)
  PROVE  Serves(c)
<1>1. ASSUME OnCreateTeacher(c) PROVE Serves(c)
  BY <1>1, CreateTeacherServed, Inputs, SoundAside DEF OnCreateTeacher, Serves
<1>2. ASSUME OnUpdateTeacher(c) PROVE Serves(c)
  BY <1>2, UpdateTeacherServed, Inputs, SoundAside DEF OnUpdateTeacher, Serves
<1>3. ASSUME OnDeleteTeacher(c) PROVE Serves(c)
  BY <1>3, DeleteTeacherAnswers, SoundAside DEF OnDeleteTeacher, Serves
<1>4. ASSUME OnToggleTeacher(c) PROVE Serves(c)
  BY <1>4, ToggleActiveServed, SoundAside DEF OnToggleTeacher, Serves
<1>5. ASSUME OnImportTeachers(c) PROVE Serves(c)
  BY <1>5, ImportTeachersServed, TeacherFile, SoundAside DEF OnImportTeachers, Serves
<1> QED  BY <1>1, <1>2, <1>3, <1>4, <1>5 DEF TeacherRequest

\* Requests on schedules do.
LEMMA ScheduleServes ==
  ASSUME Sound, NEW c, ScheduleRequest(c)
  PROVE  Serves(c)
<1>1. ASSUME OnCreateSchedule(c) PROVE Serves(c)
  BY <1>1, CreateScheduleAnswers, Inputs, RowsIn, SoundAside DEF OnCreateSchedule, Serves, Opt
<1>2. ASSUME OnUpdateSchedule(c) PROVE Serves(c)
  <2>1. PICK e \in Ids.schedules, m \in Opt(Rows(db, "semesters")), k \in Opt(Ids.classes),
             s \in Opt(Rows(db, "subjects")), slot \in OptSlot, a \in Opt(Teachers(db)),
             st \in Opt(Statuses) : \E v \in UpdateSchedule(db, e, m, k, s, slot, a, st) : Begin(c, v)
    BY <1>2 DEF OnUpdateSchedule
  <2>2. s \in Opt(Ids.subjects) /\ a \in Opt(Ids.accounts)
    BY RowsIn, RowsAre, SoundAside DEF Opt
  <2>3. slot \in Opt(Nat \X Nat) /\ st \in Opt(ScheduleStatus)
    BY Inputs DEF OptSlot, Opt
  <2>4. UpdateSchedule(db, e, m, k, s, slot, a, st) \subseteq Answered(db, now)
    BY <2>2, <2>3, UpdateScheduleAnswers, SoundAside
  <2> QED  BY <2>1, <2>4 DEF Serves
<1>3. ASSUME OnAssignProctor(c) PROVE Serves(c)
  BY <1>3, AssignProctorAnswers, SoundAside DEF OnAssignProctor, Serves
<1>4. ASSUME OnDeleteSchedule(c) PROVE Serves(c)
  BY <1>4, DeleteScheduleAnswers, SoundAside DEF OnDeleteSchedule, Serves
<1>5. ASSUME OnCreateSchedulePackage(c) PROVE Serves(c)
  BY <1>5, CreateSchedulePackageAnswers, SoundAside DEF OnCreateSchedulePackage, Serves
<1>6. ASSUME OnDeleteSchedulePackage(c) PROVE Serves(c)
  BY <1>6, DeleteSchedulePackageAnswers, SoundAside DEF OnDeleteSchedulePackage, Serves
<1>7. ASSUME OnLookAtPackage(c) PROVE Serves(c)
  BY <1>7, ClosePackageAnswers, SoundAside DEF OnLookAtPackage, Serves
<1>8. ASSUME OnClosePackage(c) PROVE Serves(c)
  BY <1>8, ClosePackageAnswers, SoundAside DEF OnClosePackage, Serves
<1>9. ASSUME OnImportSchedules(c) PROVE Serves(c)
  BY <1>9, ImportSchedulesAnswers, ScheduleFile, SoundAside DEF OnImportSchedules, Serves
<1> QED  BY <1>1, <1>2, <1>3, <1>4, <1>5, <1>6, <1>7, <1>8, <1>9 DEF ScheduleRequest

\* Requests on packages frozen for a schedule do.
LEMMA SnapshotServes ==
  ASSUME Sound, NEW c, SnapshotRequest(c)
  PROVE  Serves(c)
<1>1. ASSUME OnFinalizeAssignment(c) PROVE Serves(c)
  BY <1>1, CreateSnapshotAnswers, SoundAside DEF OnFinalizeAssignment, Serves
<1>2. ASSUME OnUnassign(c) PROVE Serves(c)
  BY <1>2, UnassignSnapshotAnswers, SoundAside DEF OnUnassign, Serves
<1>3. ASSUME OnRevertPackage(c) PROVE Serves(c)
  BY <1>3, RevertPackageAnswers, SoundAside DEF OnRevertPackage, Serves
<1>4. ASSUME OnDeletePackage(c) PROVE Serves(c)
  BY <1>4, DeletePackageAnswers, SoundAside DEF OnDeletePackage, Serves
<1>5. ASSUME OnPublish(c) PROVE Serves(c)
  BY <1>5, PublishPackageAnswers, SoundAside DEF OnPublish, Serves
<1> QED  BY <1>1, <1>2, <1>3, <1>4, <1>5 DEF SnapshotRequest

\* Requests on questions do.
LEMMA QuestionServes ==
  ASSUME Sound, NEW c, QuestionRequest(c)
  PROVE  Serves(c)
<1>1. ASSUME OnCreateQuestion(c) PROVE Serves(c)
  BY <1>1, CreateQuestionAnswers, Inputs, RowsIn, SoundAside DEF OnCreateQuestion, Serves
<1>2. ASSUME OnUpdateQuestion(c) PROVE Serves(c)
  BY <1>2, UpdateQuestionAnswers, Inputs, SoundAside DEF OnUpdateQuestion, Serves
<1>3. ASSUME OnDeleteQuestion(c) PROVE Serves(c)
  BY <1>3, DeleteQuestionAnswers, SoundAside DEF OnDeleteQuestion, Serves
<1>4. ASSUME OnImportQuestions(c) PROVE Serves(c)
  <2>1. PICK a \in Teachers(db), t \in QuestionType, x \in Contents, n \in 0..1, other \in {"", "b"} :
          LET row == [type |-> t, content |-> x, key |-> x, options |-> <<x, other>>, ai |-> FALSE,
                      rubrics |-> n]
          IN \E v \in ImportQuestions(db, a, {row}) : Begin(c, v)
    BY <1>4 DEF OnImportQuestions
  <2> DEFINE row == [type |-> t, content |-> x, key |-> x, options |-> <<x, other>>, ai |-> FALSE,
                     rubrics |-> n]
  <2>2. IsFiniteSet({row}) /\ \A r \in {row} : r.content \in STRING
    BY QuestionFile
  <2>3. \E v \in ImportQuestions(db, a, {row}) : Begin(c, v)
    BY <2>1
  <2> HIDE DEF row
  <2>4. a \in Ids.accounts
    BY RowsIn, SoundAside
  <2>5. ImportQuestions(db, a, {row}) \subseteq Answered(db, now)
    BY <2>2, <2>4, ImportQuestionsAnswers, SoundAside
  <2> QED  BY <2>3, <2>5 DEF Serves
<1>5. ASSUME OnCreatePackage(c) PROVE Serves(c)
  BY <1>5, CreatePackageAnswers, Inputs, RowsIn, SoundAside DEF OnCreatePackage, Serves
<1>6. ASSUME OnAddQuestion(c) PROVE Serves(c)
  BY <1>6, AddQuestionAnswers, SoundAside DEF OnAddQuestion, Serves
<1>7. ASSUME OnReorder(c) PROVE Serves(c)
  <2>1. PICK a \in Teachers(db), b \in Rows(db, "banks") :
          LET held == {db.items[i].question : i \in ItemsOf(db, b)}
          IN \E orders \in [held -> 1..Cardinality(held)] :
               \E v \in ReorderQuestions(db, a, b, orders) : Begin(c, v)
    BY <1>7 DEF OnReorder
  <2> DEFINE held == {db.items[i].question : i \in ItemsOf(db, b)}
  <2>2. PICK orders \in [held -> 1..Cardinality(held)] :
          \E v \in ReorderQuestions(db, a, b, orders) : Begin(c, v)
    BY <2>1
  <2> HIDE DEF held
  <2>3. \A q \in DOMAIN orders : orders[q] \in Int
    OBVIOUS
  <2>4. ReorderQuestions(db, a, b, orders) \subseteq Answered(db, now)
    BY <2>3, ReorderAnswers, SoundAside
  <2> QED  BY <2>2, <2>4 DEF Serves
<1>8. ASSUME OnRemoveQuestion(c) PROVE Serves(c)
  BY <1>8, RemoveQuestionAnswers, SoundAside DEF OnRemoveQuestion, Serves
<1>9. ASSUME OnReplaceQuestion(c) PROVE Serves(c)
  BY <1>9, ReplaceQuestionAnswers, SoundAside DEF OnReplaceQuestion, Serves
<1> QED  BY <1>1, <1>2, <1>3, <1>4, <1>5, <1>6, <1>7, <1>8, <1>9 DEF QuestionRequest

\* Requests on the day of the exam do.
LEMMA ExamDayServes ==
  ASSUME Sound, NEW c, ExamDayRequest(c)
  PROVE  Serves(c)
<1>1. ASSUME OnMySchedules(c) PROVE Serves(c)
  BY <1>1, StudentPollAnswers, SoundAside DEF OnMySchedules, Serves
<1>2. ASSUME OnProctorAssignments(c) PROVE Serves(c)
  BY <1>2, ProctorPollAnswers, SoundAside DEF OnProctorAssignments, Serves
<1>3. ASSUME OnIssueCode(c) PROVE Serves(c)
  BY <1>3, IssueCodeServed, SoundAside DEF OnIssueCode, Serves
<1>4. ASSUME OnCheckIn(c) PROVE Serves(c)
  BY <1>4, CheckInServed, SoundAside DEF OnCheckIn, Serves
<1> QED  BY <1>1, <1>2, <1>3, <1>4 DEF ExamDayRequest

\* Requests on its report do.
LEMMA ReportServes ==
  ASSUME Sound, NEW c, ReportRequest(c)
  PROVE  Serves(c)
<1>1. ASSUME OnMarkPresent(c) PROVE Serves(c)
  BY <1>1, MarkPresentAnswers, RowsAre, IdsAre, SoundAside DEF OnMarkPresent, Serves, Checkin
<1>2. ASSUME OnOpenReport(c) PROVE Serves(c)
  BY <1>2, OpenReportAnswers, IdsAre, SoundAside DEF OnOpenReport, Serves
<1>3. ASSUME OnUpdateAttendance(c) PROVE Serves(c)
  BY <1>3, UpdateAttendanceAnswers, IdsAre, SoundAside DEF OnUpdateAttendance, Serves,
         AttendanceStatus
<1>4. ASSUME OnSubmitReport(c) PROVE Serves(c)
  BY <1>4, SubmitReportAnswers, SoundAside DEF OnSubmitReport, Serves
<1>5. ASSUME OnRequestCorrection(c) PROVE Serves(c)
  BY <1>5, CorrectionAnswers, SoundAside DEF OnRequestCorrection, Serves
<1>6. ASSUME OnResolveCorrection(c) PROVE Serves(c)
  BY <1>6, CorrectionAnswers, SoundAside DEF OnResolveCorrection, Serves
<1> QED  BY <1>1, <1>2, <1>3, <1>4, <1>5, <1>6 DEF ReportRequest

\* Every request begins with a database in which what fitted still fits.
LEMMA RequestServes ==
  ASSUME Sound, NEW c, Request(c)
  PROVE  Serves(c)
  BY YearServes, ClassServes, EnrolmentServes, SubjectServes, StudentServes, TeacherServes,
         ScheduleServes, SnapshotServes, QuestionServes, ExamDayServes, ReportServes DEF Request

-----------------------------------------------------------------------------
(* What a commit makes of it.                                              *)

\* A cascade may take semesters; those that are left fit.
LEMMA CascadePeriods ==
  ASSUME NEW d \in Database, NEW v, Remains(d, v), PeriodsFit(d)
  PROVE  PeriodsFit(v)
<1>1. v \in Database /\ v.years = d.years
      /\ \A i \in Rows(v, "semesters") : i \in Rows(d, "semesters") /\ v.semesters[i] = d.semesters[i]
  BY TableNames DEF Remains, Cascading
<1>2. RunningYears(v) = RunningYears(d) /\ ActiveYears(v) = ActiveYears(d)
  BY <1>1 DEF RunningYears, ActiveYears, InStatus, Rows
<1>3. \A s \in InStatus(v, "semesters", {"ACTIVE"}) :
        s \in InStatus(d, "semesters", {"ACTIVE"}) /\ v.semesters[s].year = d.semesters[s].year
  BY <1>1 DEF InStatus
<1> QED  BY <1>1, <1>2, <1>3, PeriodsShrink

\* It may take enrolments; those that are left fit.
LEMMA CascadeEnrolments ==
  ASSUME NEW d \in Database, NEW v, Remains(d, v), EnrolmentsFit(d)
  PROVE  EnrolmentsFit(v)
<1>1. \A i \in Rows(v, "enrolments") : i \in Rows(d, "enrolments") /\ v.enrolments[i] = d.enrolments[i]
  BY DEF Remains, Cascading
<1> QED  BY <1>1 DEF EnrolmentsFit, InStatus

\* It may take check-ins, but no attempt and no account.
LEMMA CascadeTraces ==
  ASSUME NEW d \in Database, NEW v, Remains(d, v), TracesFit(d)
  PROVE  TracesFit(v)
<1>1. v \in Database /\ v.attempts = d.attempts /\ v.accounts = d.accounts
      /\ \A i \in Rows(v, "checkins") : i \in Rows(d, "checkins") /\ v.checkins[i] = d.checkins[i]
  BY TableNames DEF Remains, Cascading
<1>2. Students(d) = Students(v)
  BY <1>1 DEF Students, Rows
<1> QED  BY <1>1, <1>2, TracesFrame

\* A row refers to one that is there.
LEMMA KeyHolds ==
  ASSUME NEW d, KeysHold(d), NEW k \in ForeignKeys, NEW i \in Rows(d, k[1]),
         d[k[1]][i][k[2]] # Null
  PROVE  d[k[3]][d[k[1]][i][k[2]]] # Null
  BY DEF KeysHold, Dangling, Dangles

\* A lesson has its class and its subject.
LEMMA LessonKeys ==
  ASSUME NEW d \in Database, KeysHold(d), NEW x \in Rows(d, "teaching")
  PROVE  d.classes[d.teaching[x].class] # Null /\ d.subjects[d.teaching[x].subject] # Null
<1>1. d.teaching[x].class # Null /\ d.teaching[x].subject # Null
  BY RowsAre, IdsAssumption, TableNames DEF ClassSubjectTeacher
<1>2. Dangling(d, <<"teaching", "class", "classes", "CASCADE">>) = {}
  BY DEF KeysHold, ForeignKeys
<1>3. Dangling(d, <<"teaching", "subject", "subjects", "CASCADE">>) = {}
  BY DEF KeysHold, ForeignKeys
<1> QED  BY <1>1, <1>2, <1>3 DEF Dangling, Dangles

\* An enrolment has its class.
LEMMA EnrolmentKeys ==
  ASSUME NEW d \in Database, KeysHold(d), NEW n \in Rows(d, "enrolments")
  PROVE  d.enrolments[n].class \in Rows(d, "classes")
<1>1. d.enrolments[n].class # Null /\ d.enrolments[n].class \in Ids.classes
  BY RowsAre, IdsAssumption, TableNames DEF Enrolment
<1>2. Dangling(d, <<"enrolments", "class", "classes", "CASCADE">>) = {}
  BY DEF KeysHold, ForeignKeys
<1>3. d.classes[d.enrolments[n].class] # Null
  BY <1>1, <1>2 DEF Dangling, Dangles
<1>4. DOMAIN d.classes = Ids.classes
  BY DatabaseIs, TableNames DEF Table
<1> QED  BY <1>1, <1>3, <1>4 DEF Rows

\* A subject goes with its class, and then who teaches it there goes as well.
LEMMA CascadeLessons ==
  ASSUME NEW d \in Database, NEW v, Remains(d, v), KeysHold(v), LessonsFit(d)
  PROVE  LessonsFit(v)
<1>1. /\ v \in Database /\ v.classes = d.classes /\ v.subjects = d.subjects
      /\ \A i \in Rows(v, "teaching") : i \in Rows(d, "teaching") /\ v.teaching[i] = d.teaching[i]
      /\ \A i \in Rows(v, "classSubjects") :
           i \in Rows(d, "classSubjects") /\ v.classSubjects[i] = d.classSubjects[i]
      /\ \A i \in Rows(d, "classSubjects") :
           i \notin Rows(v, "classSubjects") => Reason(d, "classSubjects", i)
  BY TableNames DEF Remains, Cascading
<1>2. ASSUME NEW x \in Rows(v, "teaching") PROVE x \in Rows(v, "classSubjects")
  <2>1. x \in Rows(d, "teaching") /\ v.teaching[x] = d.teaching[x]
    BY <1>1
  <2>2. /\ x \in Rows(d, "classSubjects") /\ x = <<d.teaching[x].class, d.teaching[x].subject>>
        /\ x = <<d.classSubjects[x].class, d.classSubjects[x].subject>>
    BY <2>1 DEF LessonsFit
  <2>3. d.classSubjects[x].class = v.teaching[x].class /\ d.classSubjects[x].subject = v.teaching[x].subject
    BY <2>1, <2>2
  <2>4. v.classes[v.teaching[x].class] # Null /\ v.subjects[v.teaching[x].subject] # Null
    BY <1>1, LessonKeys
  <2> QED  BY <1>1, <2>2, <2>3, <2>4, LessonLost
<1> QED  BY <1>1, <1>2 DEF LessonsFit

\* The commit of v over d takes an enrolment only with its student.
LEMMA CascadeHistory ==
  ASSUME NEW d \in Database, KeysHold(d), NEW v \in Database, HistoryKept(d, v),
         NEW w, Remains(v, w), NEW n \in Rows(d, "enrolments")
  PROVE  n \in Rows(w, "enrolments") \/ w.accounts[d.enrolments[n].student] = Null
<1>1. SUFFICES ASSUME n \notin Rows(w, "enrolments")
               PROVE  w.accounts[d.enrolments[n].student] = Null
  OBVIOUS
<1>2. /\ n \in Rows(v, "enrolments") /\ v.enrolments[n].student = d.enrolments[n].student
      /\ v.enrolments[n].class \in Rows(v, "classes")
  BY EnrolmentKeys DEF HistoryKept
<1>3. Reason(v, "enrolments", n)
  BY <1>1, <1>2 DEF Remains, Cascading
<1>4. v.accounts[v.enrolments[n].student] = Null
  BY <1>2, <1>3, EnrolmentLost DEF Rows
<1>5. w.accounts = v.accounts
  BY TableNames DEF Remains, Cascading
<1> QED  BY <1>2, <1>4, <1>5

\* A cascade takes no session.
LEMMA CascadeRooms ==
  ASSUME NEW d \in Database, NEW v, Remains(d, v), RoomsFit(d)
  PROVE  RoomsFit(v)
<1>1. v.sessions = d.sessions
  BY TableNames DEF Remains, Cascading
<1> QED  BY <1>1, RoomsFrame

\* It takes no snapshot and makes no exam ready.
LEMMA CascadeReady ==
  ASSUME NEW d, NEW v, ReadyKept(d, v), NEW w, Remains(v, w)
  PROVE  ReadyKept(d, w)
<1>1. w.snapshots = v.snapshots
  BY TableNames DEF Remains, Cascading
<1>2. Startable(w) \subseteq Startable(v)
  BY DEF Remains, Loosened, Startable, InStatus
<1>3. \A e : Bare(w, e) => Bare(v, e)
  BY <1>1, <1>2 DEF Bare, SnapshotsOf, Rows
<1> QED  BY <1>3 DEF ReadyKept

\* It takes items only with their packages.
LEMMA CascadeBanks ==
  ASSUME NEW d \in Database, NEW v, Remains(d, v), BanksFit(d)
  PROVE  BanksFit(v)
<1>1. v.banks = d.banks /\ v.questions = d.questions
  BY TableNames DEF Remains, Cascading
<1>2. /\ \A i \in Rows(v, "items") : i \in Rows(d, "items") /\ v.items[i] = d.items[i]
      /\ \A i \in Rows(d, "items") : i \notin Rows(v, "items") => Reason(d, "items", i)
  BY DEF Remains, Cascading
<1>3. ASSUME NEW b \in Rows(d, "banks") PROVE SameItems(d, v, b)
  <2>1. d.banks[b] # Null
    BY DEF Rows
  <2>2. ItemsOf(v, b) = ItemsOf(d, b)
    BY <1>2, <2>1, ItemLost DEF ItemsOf
  <2>3. \A i \in ItemsOf(d, b) : v.items[i] = d.items[i]
    BY <1>2, <2>2 DEF ItemsOf
  <2> QED  BY <1>1, <2>2, <2>3 DEF SameItems
<1> QED  BY <1>1, <1>3, SameFits DEF BanksFit, Rows

\* Packages and their items were left alone by a commit that overtook others:
\* its questions kept their owners, and the items all their questions, or a
\* key would not hold.
LEMMA RacedBanks ==
  ASSUME NEW d \in Database, KeysHold(d), NEW v \in Database, QuestionsStay(d, v),
         v.items = d.items, v.banks = d.banks, NEW w, Remains(v, w), KeysHold(w), BanksFit(d)
  PROVE  BanksFit(w)
<1>1. w \in Database /\ w.banks = d.banks /\ w.questions = v.questions
  BY TableNames DEF Remains, Cascading
<1>2. /\ \A i \in Rows(w, "items") : i \in Rows(v, "items") /\ w.items[i] = v.items[i]
      /\ \A i \in Rows(v, "items") : i \notin Rows(w, "items") => Reason(v, "items", i)
      /\ Rows(v, "items") = Rows(d, "items")
  BY DEF Remains, Cascading, Rows
<1>3. ASSUME NEW i \in Rows(d, "items") PROVE i \in Rows(w, "items") /\ w.items[i] = d.items[i]
  <2>1. d.banks[d.items[i].package] # Null
    BY ItemKeys DEF Rows
  <2> QED  BY <1>2, <2>1, ItemLost
<1>4. Rows(w, "items") = Rows(d, "items")
  BY <1>2, <1>3
<1>5. ASSUME NEW i \in Rows(d, "items")
      PROVE  d.items[i].question \in Rows(d, "questions") \cap Rows(v, "questions")
  <2>1. d.items[i].question \in Rows(d, "questions") /\ d.items[i].question \in Rows(w, "questions")
    BY <1>1, <1>3, ItemKeys
  <2> QED  BY <1>1, <2>1 DEF Rows
<1>6. \A b : ItemsOf(w, b) = ItemsOf(d, b)
  BY <1>3, <1>4 DEF ItemsOf
<1>7. \A b : SameItems(d, w, b)
  BY <1>1, <1>3, <1>5, <1>6 DEF SameItems, QuestionsStay, ItemsOf
<1> QED  BY <1>1, <1>7, SameFits DEF BanksFit, Rows

\* The package of a schedule is there when the keys hold.
LEMMA FiledBy ==
  ASSUME NEW d \in Database, KeysHold(d), NEW e \in Rows(d, "schedules")
  PROVE  Filed(d, e)
<1>1. Dangling(d, <<"schedules", "package", "packages", "CASCADE">>) = {}
  BY DEF KeysHold, ForeignKeys
<1> QED  BY <1>1 DEF Dangling, Dangles, Filed

\* A cascade takes an exam only with its package.
LEMMA CascadeHeld ==
  ASSUME NEW d \in Database, KeysHold(d), NEW v \in Database, HeldKept(d, v), NEW w, Remains(v, w),
         NEW e \in Rows(d, "schedules"), Held(d, e)
  PROVE  e \in Rows(w, "schedules") /\ SnapshotsOf(d, e) \subseteq Rows(w, "snapshots")
<1>1. e \in Rows(v, "schedules") /\ SnapshotsOf(d, e) \subseteq Rows(v, "snapshots") /\ Filed(v, e)
  BY FiledBy DEF HeldKept
<1>2. e \in Rows(w, "schedules")
  BY <1>1, ScheduleLost DEF Remains, Filed
<1>3. w.snapshots = v.snapshots
  BY TableNames DEF Remains, Cascading
<1> QED  BY <1>1, <1>2, <1>3 DEF Rows

\* It moves no exam.
LEMMA CascadeClash ==
  ASSUME NEW d, NEW v, ClashKept(d, v), NEW w, Remains(v, w)
  PROVE  ClashKept(d, w)
<1>1. ASSUME NEW e, NEW f, Clash(w, e, f) PROVE Clash(v, e, f)
  <2>1. /\ e \in Rows(w, "schedules") /\ f \in Rows(w, "schedules") /\ e # f
        /\ w.schedules[e].status # "CANCELLED" /\ w.schedules[f].status # "CANCELLED"
        /\ w.schedules[e].class = w.schedules[f].class
        /\ Overlap(w.schedules[e].slot, w.schedules[f].slot)
    BY <1>1 DEF Clash, InStatus
  <2>2. /\ e \in Rows(v, "schedules") /\ Loosened(v.schedules[e], w.schedules[e])
        /\ f \in Rows(v, "schedules") /\ Loosened(v.schedules[f], w.schedules[f])
    BY <2>1 DEF Remains
  <2> QED  BY <2>1, <2>2 DEF Clash, InStatus, Loosened
<1> QED  BY <1>1 DEF ClashKept

\* It takes an attendance only with its report.
LEMMA CascadeLocks ==
  ASSUME NEW d, NEW v \in Database, NEW n, LockKept(d, v, n), NEW w, Remains(v, w),
         NEW r \in Rows(d, "reports"), Locked(d, r, n), NEW x \in Rows(d, "attendance"), x[1] = r
  PROVE  w.attendance[x] = d.attendance[x] \/ w.attendance[x].status = "HADIR"
<1>1. /\ x \in Rows(v, "attendance") /\ v.reports[v.attendance[x].report] # Null
      /\ v.attendance[x] = d.attendance[x] \/ v.attendance[x].status = "HADIR"
  BY DEF LockKept
<1>2. x \in Rows(w, "attendance") /\ w.attendance[x] = v.attendance[x]
  BY <1>1, AttendanceLost DEF Remains, Cascading
<1> QED  BY <1>1, <1>2

\* What is written over a question keeps its type and its owner.
Immutable(writes) ==
  \A x \in DOMAIN writes : x[1] = "questions" /\ writes[x].op = "update" =>
    {"type", "owner"} \cap DOMAIN writes[x].cols = {}

\* The writes of a service that keeps type and owner of a question do not
\* touch them.
LEMMA WritesImmutable ==
  ASSUME NEW d \in Database, NEW v \in Database, QuestionsStay(d, v)
  PROVE  Immutable(Writes(d, v))
<1> SUFFICES ASSUME NEW x \in Changed(d, v), x[1] = "questions",
                    Write(d[x[1]][x[2]], v[x[1]][x[2]]).op = "update"
             PROVE  {"type", "owner"} \cap DOMAIN Write(d[x[1]][x[2]], v[x[1]][x[2]]).cols = {}
  BY DEF Immutable, Writes
<1> DEFINE q == x[2]
           old == d.questions[q]
           new == v.questions[q]
<1>1. q \in Ids.questions /\ Write(old, new).op = "update"
  BY ChangedIs
<1>2. old # Null /\ new # Null
  BY <1>1 DEF Write
<1>3. Write(old, new).cols = [f \in {f \in DOMAIN new : new[f] # old[f]} |-> new[f]]
  BY <1>2 DEF Write
<1>4. q \in Rows(d, "questions") \cap Rows(v, "questions")
  <2>1. DOMAIN d.questions = Ids.questions /\ DOMAIN v.questions = Ids.questions
    BY DatabaseIs, TableNames DEF Table
  <2> QED  BY <1>1, <1>2, <2>1 DEF Rows
<1>5. new.type = old.type /\ new.owner = old.owner
  BY <1>4 DEF QuestionsStay
<1> QED  BY <1>3, <1>5

\* So they are kept even on top of what others have written.
LEMMA RacedQuestions ==
  ASSUME NEW d \in Database, NEW writes, AskedAll(writes), Immutable(writes), Ready(d, writes)
  PROVE  QuestionsStay(d, Merged(d, writes))
<1> DEFINE v == Merged(d, writes)
<1> SUFFICES ASSUME NEW q \in Rows(d, "questions"), v.questions[q] # Null
             PROVE  /\ v.questions[q].type = d.questions[q].type
                    /\ v.questions[q].owner = d.questions[q].owner
  BY DEF QuestionsStay, Rows
<1> DEFINE x == <<"questions", q>>
           row == d.questions[q]
<1>1. row \in Question /\ row # Null /\ q \in Ids.questions
  BY RowsAre DEF Rows
<1>2. v.questions[q] = IF x \in DOMAIN writes THEN Written(row, writes[x]) ELSE row
  <2>1. DOMAIN d.questions = Ids.questions
    BY DatabaseIs, TableNames DEF Table
  <2> QED  BY <1>1, <2>1, TableNames DEF Merged
<1>3. CASE x \notin DOMAIN writes
  BY <1>2, <1>3
<1>4. CASE x \in DOMAIN writes
  <2> DEFINE w == writes[x]
  <2>1. x[1] = "questions" /\ x[2] = q
    OBVIOUS
  <2>2. Asked("questions", w) /\ (w.op # "delete" => w.op = "update")
    BY <1>1, <1>4, <2>1 DEF AskedAll, Ready
  <2>3. w.op = "update"
    BY <1>2, <1>4, <2>2 DEF Written
  <2>4. {"type", "owner"} \cap DOMAIN w.cols = {}
    BY <1>4, <2>1, <2>3 DEF Immutable
  <2>5. Written(row, w) = [f \in DOMAIN row |-> IF f \in DOMAIN w.cols THEN w.cols[f] ELSE row[f]]
    BY <2>3 DEF Written
  <2>6. {"type", "owner"} \subseteq DOMAIN row
    BY <1>1 DEF Question
  <2> HIDE DEF w, row, x
  <2>7. Written(row, w).type = row.type /\ Written(row, w).owner = row.owner
    BY <2>4, <2>5, <2>6
  <2> QED  BY <1>2, <1>4, <2>7 DEF w, row, x
<1> QED  BY <1>3, <1>4

\* What fits in d, as long as no request on those tables has overtaken another.
Fits(d, S) ==
  /\ S \cap {"years", "semesters"} = {} => PeriodsFit(d)
  /\ S \cap {"enrolments"} = {} => EnrolmentsFit(d)
  /\ S \cap {"teaching", "classSubjects"} = {} => LessonsFit(d)
  /\ S \cap {"accounts", "attempts", "checkins"} = {} => TracesFit(d)
  /\ S \cap {"sessions"} = {} => RoomsFit(d)

\* The packages fit as long as no request on them has overtaken another.
Banked(d, S) == S \cap {"items", "banks"} = {} => BanksFit(d)

\* What fitted still fits after a service.
LEMMA FreshFits ==
  ASSUME NEW d \in Database, NEW n, NEW v \in Answered(d, n), NEW S, Fits(d, S)
  PROVE  Fits(v, S)
  BY DEF Fits, Answered, Kept, ExamsKept, PlanKept

\* What fitted still fits after a cascade.
LEMMA CascadeFits ==
  ASSUME NEW v \in Database, NEW w, Remains(v, w), KeysHold(w), NEW S, Fits(v, S)
  PROVE  Fits(w, S)
  BY CascadePeriods, CascadeEnrolments, CascadeLessons, CascadeTraces, CascadeRooms
     DEF Fits

\* After a request that was overtaken, what fitted still fits in the tables
\* that it does not write.
LEMMA RacedFits ==
  ASSUME NEW d \in Database, NEW writes, NEW S, Fits(d, S), Merged(d, writes) \in Database
  PROVE  Fits(Merged(d, writes), S \cup {x[1] : x \in DOMAIN writes})
<1> DEFINE v == Merged(d, writes)
           touched == {x[1] : x \in DOMAIN writes}
<1>1. ASSUME NEW t \in Tables, t \notin touched PROVE v[t] = d[t]
  BY <1>1, MergedSame
<1> HIDE DEF v, touched
<1>2. v \in Database
  BY DEF v
<1>3. (S \cup touched) \cap {"years", "semesters"} = {} => PeriodsFit(v)
  <2> SUFFICES ASSUME (S \cup touched) \cap {"years", "semesters"} = {} PROVE PeriodsFit(v)
    OBVIOUS
  <2>1. PeriodsFit(d) /\ v.years = d.years /\ v.semesters = d.semesters
    BY <1>1, TableNames DEF Fits
  <2> QED  BY <1>2, <2>1, PeriodsFrame
<1>4. (S \cup touched) \cap {"enrolments"} = {} => EnrolmentsFit(v)
  <2> SUFFICES ASSUME (S \cup touched) \cap {"enrolments"} = {} PROVE EnrolmentsFit(v)
    OBVIOUS
  <2>1. EnrolmentsFit(d) /\ v.enrolments = d.enrolments
    BY <1>1, TableNames DEF Fits
  <2> QED  BY <1>2, <2>1, EnrolmentsFrame
<1>5. (S \cup touched) \cap {"teaching", "classSubjects"} = {} => LessonsFit(v)
  <2> SUFFICES ASSUME (S \cup touched) \cap {"teaching", "classSubjects"} = {} PROVE LessonsFit(v)
    OBVIOUS
  <2>1. LessonsFit(d) /\ v.teaching = d.teaching /\ v.classSubjects = d.classSubjects
    BY <1>1, TableNames DEF Fits
  <2> QED  BY <1>2, <2>1, LessonsFrame
<1>6. (S \cup touched) \cap {"accounts", "attempts", "checkins"} = {} => TracesFit(v)
  <2> SUFFICES ASSUME (S \cup touched) \cap {"accounts", "attempts", "checkins"} = {} PROVE TracesFit(v)
    OBVIOUS
  <2>1. TracesFit(d) /\ v.accounts = d.accounts /\ v.attempts = d.attempts /\ v.checkins = d.checkins
    BY <1>1, TableNames DEF Fits
  <2>2. Students(d) = Students(v)
    BY <2>1 DEF Students, Rows
  <2>3. \A i \in Rows(v, "checkins") : i \in Rows(d, "checkins") /\ v.checkins[i] = d.checkins[i]
    BY <2>1 DEF Rows
  <2> QED  BY <1>2, <2>1, <2>2, <2>3, TracesFrame
<1>7. (S \cup touched) \cap {"sessions"} = {} => RoomsFit(v)
  <2> SUFFICES ASSUME (S \cup touched) \cap {"sessions"} = {} PROVE RoomsFit(v)
    OBVIOUS
  <2>1. RoomsFit(d) /\ v.sessions = d.sessions
    BY <1>1, TableNames DEF Fits
  <2> QED  BY <2>1, RoomsFrame
<1>8. Fits(v, S \cup touched)
  BY <1>3, <1>4, <1>5, <1>6, <1>7 DEF Fits
<1> QED  BY <1>8 DEF v, touched

-----------------------------------------------------------------------------
(* The invariant and what follows from it.                                 *)

\* What a request in flight is going to write.
TypedWork(c) ==
  work[c] # Null =>
    /\ work[c] = [writes |-> work[c].writes, fresh |-> work[c].fresh]
    /\ work[c].fresh \in BOOLEAN
    /\ AskedAll(work[c].writes) /\ Immutable(work[c].writes)

\* If nobody has overtaken it, the database is still the one its service read,
\* and its writes leave what the service wanted.
Informed(c) == work[c] # Null /\ work[c].fresh => Merged(db, work[c].writes) \in Answered(db, now)

\* The inductive invariant: a database with all its keys, requests that know
\* what they write, and records that fit where nobody was overtaken.
Steady ==
  /\ db \in Database /\ Consistent(db)
  /\ work = [c \in Clerks |-> work[c]]
  /\ \A c \in Clerks : TypedWork(c) /\ Informed(c)
  /\ raced \subseteq Tables
  /\ now \in 0..Horizon
  /\ Fits(db, raced) /\ Banked(db, raced)

\* The clock has a bound.
LEMMA HorizonIs ==
  Horizon \in Nat
  BY InputsAssumption

\* The invariant holds at first.
LEMMA InitSteady ==
  Init => Steady
<1> SUFFICES ASSUME Init PROVE Steady
  OBVIOUS
<1>1. db \in Starts /\ work = [c \in Clerks |-> Null] /\ raced = {} /\ now = 0
  BY DEF Init, RecordsInit
<1>2. db \in Database /\ Consistent(db) /\ Fits(db, raced) /\ Banked(db, raced)
  BY <1>1, StartsAssumption DEF Fits, Banked
<1>3. \A c \in Clerks : TypedWork(c) /\ Informed(c)
  BY <1>1 DEF TypedWork, Informed
<1> QED  BY <1>1, <1>2, <1>3, HorizonIs DEF Steady

\* A request begins: what it is going to write gives the database its service
\* wanted.
LEMMA BeginSteady ==
  ASSUME Steady, NEW c \in Clerks, NEW v \in Answered(db, now), Begin(c, v), UNCHANGED now
  PROVE  Steady'
<1> DEFINE asked == [writes |-> Writes(db, v), fresh |-> TRUE]
<1>1. db' = db /\ raced' = raced /\ now' = now /\ work' = [work EXCEPT ![c] = asked]
  BY DEF Begin, Writes
<1>2. work'[c] = asked /\ \A o \in Clerks \ {c} : work'[o] = work[o]
  BY <1>1 DEF Steady
<1>3. work' = [o \in Clerks |-> work'[o]]
  BY <1>1 DEF Steady
<1>4. v \in Database /\ QuestionsStay(db, v)
  BY DEF Answered, ExamsKept, BankKept
<1>5. AskedAll(Writes(db, v)) /\ Immutable(Writes(db, v)) /\ Merged(db, Writes(db, v)) = v
  BY <1>4, WritesAsked, WritesImmutable, MergedBack DEF Steady
<1>6. TypedWork(c)' /\ Informed(c)'
  <2>1. work'[c].writes = Writes(db, v) /\ work'[c].fresh = TRUE
        /\ work'[c] = [writes |-> work'[c].writes, fresh |-> work'[c].fresh]
    BY <1>2
  <2>2. Merged(db', work'[c].writes) \in Answered(db', now')
    BY <1>1, <1>5, <2>1
  <2> QED  BY <1>5, <2>1, <2>2 DEF TypedWork, Informed
<1>7. ASSUME NEW o \in Clerks \ {c} PROVE TypedWork(o)' /\ Informed(o)'
  BY <1>1, <1>2 DEF Steady, TypedWork, Informed
<1> QED  BY <1>1, <1>3, <1>6, <1>7 DEF Steady

\* What a commit does, accepted or not.
LEMMA CommitIs ==
  ASSUME NEW c, Commit(c)
  PROVE  LET writes == work[c].writes
             ok == Accepted(db, writes)
         IN  /\ work[c] # Null
             /\ ok => /\ Ready(db, writes)
                      /\ Consistent(Cascaded(Merged(db, writes)))
                      /\ db' = Cascaded(Merged(db, writes))
                      /\ raced' = IF work[c].fresh THEN raced ELSE raced \cup {x[1] : x \in DOMAIN writes}
             /\ ~ok => db' = db /\ raced' = raced
  BY DEF Commit, Accepted, Ready

\* A commit leaves the other requests theirs; if it is accepted they are
\* overtaken.
LEMMA CommitWork ==
  ASSUME Steady, NEW c \in Clerks, Commit(c), NEW o \in Clerks, work'[o] # Null
  PROVE  /\ work[o] # Null /\ o # c
         /\ work'[o] = [writes |-> work[o].writes,
                        fresh |-> work[o].fresh /\ ~Accepted(db, work[c].writes)]
<1>1. work'[o] = IF o = c \/ work[o] = Null THEN Null
                 ELSE [work[o] EXCEPT !.fresh = @ /\ ~Accepted(db, work[c].writes)]
  BY DEF Commit
<1>2. work[o] # Null /\ o # c
  BY <1>1
<1>3. work[o] = [writes |-> work[o].writes, fresh |-> work[o].fresh]
  BY <1>2 DEF Steady, TypedWork
<1> QED  BY <1>1, <1>2, <1>3

\* An accepted commit leaves a sound database: fresh, what the service wanted;
\* overtaken, one whose tables it wrote are out of the account.
LEMMA AcceptedSteady ==
  ASSUME Steady, NEW c \in Clerks, Commit(c), Accepted(db, work[c].writes)
  PROVE  /\ db' \in Database /\ Consistent(db') /\ raced' \subseteq Tables
         /\ Fits(db', raced') /\ Banked(db', raced')
<1> DEFINE writes == work[c].writes
           v == Merged(db, writes)
           touched == {x[1] : x \in DOMAIN writes}
<1>1. work[c] # Null /\ Ready(db, writes) /\ Consistent(Cascaded(v)) /\ db' = Cascaded(v)
      /\ raced' = IF work[c].fresh THEN raced ELSE raced \cup touched
  BY CommitIs
<1>2. AskedAll(writes) /\ Immutable(writes) /\ work[c].fresh \in BOOLEAN
      /\ (work[c].fresh => v \in Answered(db, now))
  BY <1>1 DEF Steady, TypedWork, Informed
<1>3. v \in Database
  BY <1>1, <1>2, MergedTyped DEF Steady
<1>4. Remains(v, db')
  BY <1>1, <1>3, CascadedRemains
<1>5. touched \subseteq Tables
  BY <1>2 DEF AskedAll
<1>6. KeysHold(db) /\ KeysHold(db')
  BY <1>1 DEF Steady, Consistent
<1>7. Fits(v, raced') /\ Banked(db', raced')
  <2>1. CASE work[c].fresh
    <3>1. v \in Answered(db, now) /\ raced' = raced
      BY <1>1, <1>2, <2>1
    <3> HIDE DEF v
    <3>2. Fits(v, raced')
      BY <3>1, FreshFits DEF Steady
    <3>3. BanksFit(db) => BanksFit(v)
      BY <3>1 DEF Answered, ExamsKept, BankKept
    <3>4. Banked(db', raced')
      BY <1>3, <1>4, <3>1, <3>3, CascadeBanks DEF Steady, Banked
    <3> QED  BY <3>2, <3>4
  <2>2. CASE ~work[c].fresh
    <3>1. raced' = raced \cup touched
      BY <1>1, <2>2
    <3>2. Fits(v, raced')
      BY <1>3, <3>1, RacedFits DEF Steady
    <3>3. ASSUME raced' \cap {"items", "banks"} = {} PROVE BanksFit(db')
      <4>1. BanksFit(db) /\ "items" \notin touched /\ "banks" \notin touched
        BY <3>1, <3>3 DEF Steady, Banked
      <4>2. v["items"] = db["items"] /\ v["banks"] = db["banks"]
        BY <4>1, MergedSame, TableNames DEF Steady
      <4>3. QuestionsStay(db, v)
        BY <1>1, <1>2, RacedQuestions DEF Steady
      <4> HIDE DEF v
      <4> QED  BY <1>3, <1>4, <1>6, <4>1, <4>2, <4>3, RacedBanks DEF Steady
    <3> QED  BY <3>2, <3>3 DEF Banked
  <2> QED  BY <2>1, <2>2
<1> HIDE DEF v, touched
<1>8. db' \in Database
  BY <1>4 DEF Remains
<1>9. Fits(db', raced')
  BY <1>3, <1>4, <1>6, <1>7, CascadeFits
<1> QED  BY <1>1, <1>5, <1>7, <1>8, <1>9 DEF Steady

\* So a commit keeps the invariant.
LEMMA CommitSteady ==
  ASSUME Steady, NEW c \in Clerks, Commit(c), UNCHANGED now
  PROVE  Steady'
<1> DEFINE ok == Accepted(db, work[c].writes)
<1>1. db' \in Database /\ Consistent(db') /\ raced' \subseteq Tables
      /\ Fits(db', raced') /\ Banked(db', raced')
  <2>1. CASE ok
    BY <2>1, AcceptedSteady
  <2>2. CASE ~ok
    <3>1. db' = db /\ raced' = raced
      BY <2>2, CommitIs
    <3> QED  BY <3>1 DEF Steady
  <2> QED  BY <2>1, <2>2
<1>2. work' = [o \in Clerks |-> work'[o]]
  BY DEF Commit
<1>3. ASSUME NEW o \in Clerks PROVE TypedWork(o)' /\ Informed(o)'
  <2>1. CASE work'[o] = Null
    BY <2>1 DEF TypedWork, Informed
  <2>2. CASE work'[o] # Null
    <3>1. work[o] # Null /\ work'[o] = [writes |-> work[o].writes, fresh |-> work[o].fresh /\ ~ok]
      BY <2>2, CommitWork
    <3>2. AskedAll(work[o].writes) /\ Immutable(work[o].writes) /\ work[o].fresh \in BOOLEAN
      BY <3>1 DEF Steady, TypedWork
    <3>3. work'[o].writes = work[o].writes /\ work'[o].fresh = (work[o].fresh /\ ~ok)
          /\ work'[o] = [writes |-> work'[o].writes, fresh |-> work'[o].fresh]
      BY <3>1
    <3>4. work'[o].fresh \in BOOLEAN
      BY <3>3
    <3>5. work'[o].fresh => Merged(db', work'[o].writes) \in Answered(db', now')
      <4>1. SUFFICES ASSUME work'[o].fresh PROVE Merged(db', work[o].writes) \in Answered(db', now')
        BY <3>3
      <4>2. ~ok /\ work[o].fresh
        BY <3>3, <4>1
      <4>3. db' = db
        BY <4>2, CommitIs
      <4>4. Merged(db, work[o].writes) \in Answered(db, now)
        BY <3>1, <4>2 DEF Steady, Informed
      <4> QED  BY <4>3, <4>4
    <3> QED  BY <3>2, <3>3, <3>4, <3>5 DEF TypedWork, Informed
  <2> QED  BY <2>1, <2>2
<1> QED  BY <1>1, <1>2, <1>3 DEF Steady

\* Every step keeps it.
LEMMA NextSteady ==
  ASSUME Steady, [Next]_vars
  PROVE  Steady'
<1>1. ASSUME NEW c \in Clerks, Request(c), UNCHANGED now PROVE Steady'
  <2>1. Sound
    BY HorizonIs DEF Steady, Sound
  <2>2. PICK v \in Answered(db, now) : Begin(c, v)
    BY <1>1, <2>1, RequestServes DEF Serves
  <2> QED  BY <1>1, <2>2, BeginSteady
<1>2. ASSUME NEW c \in Clerks, Finish(c) PROVE Steady'
  BY <1>2, CommitSteady DEF Finish
<1>3. CASE Tick
  <2>1. db' = db /\ work' = work /\ raced' = raced /\ now' = now + 1 /\ now < Horizon
        /\ \A o \in Clerks : work[o] = Null
    BY <1>3 DEF Tick, recordsVars
  <2>2. now' \in 0..Horizon
    BY <2>1, HorizonIs DEF Steady
  <2>3. \A o \in Clerks : TypedWork(o)' /\ Informed(o)'
    BY <2>1 DEF Steady, TypedWork, Informed
  <2> QED  BY <2>1, <2>2, <2>3 DEF Steady
<1>4. CASE UNCHANGED vars
  <2>1. db' = db /\ work' = work /\ raced' = raced /\ now' = now
    BY <1>4 DEF vars
  <2>2. \A o \in Clerks : TypedWork(o)' /\ Informed(o)'
    BY <2>1 DEF Steady, TypedWork, Informed
  <2> QED  BY <2>1, <2>2 DEF Steady
<1> QED  BY <1>1, <1>2, <1>3, <1>4 DEF Next

\* The inductive invariant of the office.
THEOREM AlwaysSteady ==
  Spec => []Steady
  BY InitSteady, NextSteady, PTL DEF Spec

\* A set without two members has at most one.
LEMMA AtMostOne ==
  ASSUME NEW t \in Tables, NEW S \in SUBSET Ids[t], \A x, y \in S : x = y
  PROVE  Cardinality(S) <= 1
<1>1. CASE S = {}
  BY <1>1, FS_EmptySet
<1>2. CASE S # {}
  <2>1. PICK x \in S : TRUE
    BY <1>2
  <2>2. S = {x}
    BY <2>1
  <2>3. Cardinality({x}) = 1
    BY FS_Singleton
  <2> QED  BY <2>2, <2>3
<1> QED  BY <1>1, <1>2

\* The invariant gives the types.
LEMMA SteadyTyped ==
  Steady => TypeOK
<1> SUFFICES ASSUME Steady PROVE TypeOK
  OBVIOUS
<1>1. \A c \in Clerks : work[c] # Null => \A x \in DOMAIN work[c].writes : x[1] \in Tables
  BY DEF Steady, TypedWork, AskedAll
<1> QED  BY <1>1 DEF Steady, TypeOK

\* It gives one running year and one active semester.
LEMMA SteadyPeriods ==
  Steady => OnePeriod
<1> SUFFICES ASSUME Steady, Apart({"years", "semesters"})
             PROVE  Cardinality(RunningYears(db)) <= 1 /\ Cardinality(ActiveSemesters(db)) <= 1
  BY DEF OnePeriod
<1>1. db \in Database /\ PeriodsFit(db)
  BY DEF Steady, Fits, Apart
<1>2. RunningYears(db) \in SUBSET Ids["years"] /\ ActiveSemesters(db) \in SUBSET Ids["semesters"]
  BY <1>1, RowsAre DEF RunningYears, ActiveSemesters, InStatus
<1>3. /\ \A y, z \in RunningYears(db) : y = z
      /\ \A s, o \in ActiveSemesters(db) : s = o
  BY <1>1 DEF PeriodsFit, ActiveSemesters
<1> QED  BY <1>2, <1>3, AtMostOne, TableNames

\* It gives one active enrolment of a student and year.
LEMMA SteadyEnrolments ==
  Steady => EnrolledOnce
<1> SUFFICES ASSUME Steady, Apart({"enrolments"}), NEW a, NEW y
             PROVE  Cardinality(ActiveEnrolments(db, a, y)) <= 1
  BY DEF EnrolledOnce
<1>1. db \in Database /\ EnrolmentsFit(db)
  BY DEF Steady, Fits, Apart
<1>2. ActiveEnrolments(db, a, y) \in SUBSET Ids["enrolments"]
  BY <1>1, RowsAre DEF ActiveEnrolments, InStatus
<1>3. \A n, m \in ActiveEnrolments(db, a, y) : n = m
  BY <1>1 DEF EnrolmentsFit, ActiveEnrolments
<1> QED  BY <1>2, <1>3, AtMostOne, TableNames

\* It gives every subject taught in a class to the class.
LEMMA SteadyLessons ==
  Steady => TaughtIsAssigned
  BY DEF Steady, Fits, Apart, LessonsFit, TaughtIsAssigned

\* It gives one session to a schedule.
LEMMA SteadyRooms ==
  Steady => OneRoom
<1> SUFFICES ASSUME Steady, Apart({"sessions"}), NEW e PROVE Cardinality(SessionsOf(db, e)) <= 1
  BY DEF OneRoom
<1>1. db \in Database /\ RoomsFit(db)
  BY DEF Steady, Fits, Apart
<1>2. SessionsOf(db, e) \in SUBSET Ids["sessions"]
  BY <1>1, RowsAre DEF SessionsOf
<1>3. \A i, j \in SessionsOf(db, e) : i = j
  BY <1>1 DEF RoomsFit, SessionsOf
<1> QED  BY <1>2, <1>3, AtMostOne, TableNames

\* It gives packages in order, and enough questions to one that is ready.
LEMMA SteadyBanks ==
  Steady => PackageComplete
  BY DEF Steady, Banked, Apart, BanksFit, BankFits, PackageComplete

\* Whatever requests overtake each other, the rows stay rows of their tables
\* (the schema, and what the services write).
THEOREM OfficeTyped == Spec => []TypeOK
  BY AlwaysSteady, SteadyTyped, PTL

\* AcademicService: at most one year is running and at most one semester
\* active, unless a request on them overtook another.
THEOREM OfficeOnePeriod == Spec => []OnePeriod
  BY AlwaysSteady, SteadyPeriods, PTL

\* enroll_student, its six callers and transfers: a student has at most one
\* active enrolment a year.
THEOREM OfficeEnrolledOnce == Spec => []EnrolledOnce
  BY AlwaysSteady, SteadyEnrolments, PTL

\* ClassStructureService, imports and cascades: whoever teaches a subject in a
\* class teaches one the class has.
THEOREM OfficeTaughtIsAssigned == Spec => []TaughtIsAssigned
  BY AlwaysSteady, SteadyLessons, PTL

\* The students and the proctor of an exam meet in one session, whoever of
\* them asks first.
THEOREM OfficeOneRoom == Spec => []OneRoom
  BY AlwaysSteady, SteadyRooms, PTL

\* A package of questions is in order without gaps, and complete when it is
\* ready, however it is worked on.
THEOREM OfficePackageComplete == Spec => []PackageComplete
  BY AlwaysSteady, SteadyBanks, PTL

\* What the records become is the work of a service on what they are, less
\* what the cascades took.
Answers == \E v \in Answered(db, now) : v \in Database /\ Remains(v, db')

\* Unless a request was overtaken, the records change as its service wanted,
\* less what the cascades took.
LEMMA NextAnswers ==
  ASSUME Steady, [Next]_vars, ~Overtaken, db' # db
  PROVE  Answers
<1>1. ASSUME NEW c \in Clerks, Finish(c) PROVE Answers
  <2> DEFINE v == Merged(db, work[c].writes)
  <2>1. Commit(c)
    BY <1>1 DEF Finish
  <2>2. work[c] # Null /\ work'[c] = Null
    BY <2>1 DEF Commit
  <2>3. work[c].fresh
    BY <2>2 DEF Overtaken
  <2>4. db' = Cascaded(v)
    BY <2>1, CommitIs
  <2>5. v \in Answered(db, now)
    BY <2>2, <2>3 DEF Steady, Informed
  <2> HIDE DEF v
  <2>6. v \in Database /\ Remains(v, db')
    BY <2>4, <2>5, CascadedRemains DEF Answered
  <2> QED  BY <2>5, <2>6 DEF Answers
<1>2. ASSUME NEW c \in Clerks, Request(c) PROVE db' = db
  <2>1. Sound
    BY HorizonIs DEF Steady, Sound
  <2> QED  BY <1>2, <2>1, RequestServes DEF Serves, Begin
<1>3. Tick \/ UNCHANGED vars => db' = db
  BY DEF Tick, recordsVars, vars
<1> QED  BY <1>1, <1>2, <1>3 DEF Next

\* HistoryStays, of one step.
EnrolmentsStay ==
  ~Overtaken => \A n \in Rows(db, "enrolments") :
                  n \in Rows(db', "enrolments") \/ db'.accounts[db.enrolments[n].student] = Null

\* A step takes an enrolment only with the account of its student.
LEMMA NextHistory ==
  ASSUME Steady, [Next]_vars
  PROVE  EnrolmentsStay
<1> SUFFICES ASSUME ~Overtaken, NEW n \in Rows(db, "enrolments")
             PROVE  n \in Rows(db', "enrolments") \/ db'.accounts[db.enrolments[n].student] = Null
  BY DEF EnrolmentsStay
<1>1. CASE db' = db
  BY <1>1
<1>2. CASE db' # db
  <2>1. PICK v \in Answered(db, now) : v \in Database /\ Remains(v, db')
    BY <1>2, NextAnswers DEF Answers
  <2>2. HistoryKept(db, v)
    BY <2>1 DEF Answered, Kept
  <2> QED  BY <2>1, <2>2, CascadeHistory DEF Steady, Consistent
<1> QED  BY <1>1, <1>2

\* No request that nobody overtook deletes the enrolments of a student who
\* stays.
THEOREM OfficeHistoryStays == Spec => HistoryStays
<1>1. Steady /\ [Next]_vars => [EnrolmentsStay]_vars
  BY NextHistory
<1> QED  BY <1>1, AlwaysSteady, PTL DEF Spec, HistoryStays, EnrolmentsStay

\* TraceKeepsAccount, of one step.
AccountsStay ==
  ~Overtaken => \A a \in Students(db) :
                  AttemptsOf(db, a) \cup CheckinsOf(db, a) # {} => a \in Students(db')

\* A step takes no account of a student with a trace.
LEMMA NextTraces ==
  ASSUME Steady, [Next]_vars
  PROVE  AccountsStay
<1> SUFFICES ASSUME ~Overtaken, NEW a \in Students(db), AttemptsOf(db, a) \cup CheckinsOf(db, a) # {}
             PROVE  a \in Students(db')
  BY DEF AccountsStay
<1>1. CASE db' = db
  BY <1>1
<1>2. CASE db' # db
  <2>1. PICK v \in Answered(db, now) : v \in Database /\ Remains(v, db')
    BY <1>2, NextAnswers DEF Answers
  <2>2. a \in Students(v)
    BY <2>1 DEF Answered, TracedKept
  <2>3. db'.accounts = v.accounts
    BY <2>1, TableNames DEF Remains, Cascading
  <2> QED  BY <2>2, <2>3 DEF Students, Rows
<1> QED  BY <1>1, <1>2

\* student_service.py: no request that nobody overtook deletes the account of
\* a student with an attempt or a check-in.
THEOREM OfficeTraceKeepsAccount == Spec => TraceKeepsAccount
<1>1. Steady /\ [Next]_vars => [AccountsStay]_vars
  BY NextTraces
<1> QED  BY <1>1, AlwaysSteady, PTL DEF Spec, TraceKeepsAccount, AccountsStay

\* TraceStays, of one step.
HeldStay ==
  ~Overtaken => \A i \in Rows(db, "sessions") :
    LET e == db.sessions[i].schedule
    IN db.sessions[i].status # "PLANNED" /\ e \in Rows(db, "schedules") =>
         /\ e \in Rows(db', "schedules")
         /\ SnapshotsOf(db, e) \subseteq Rows(db', "snapshots")

\* No step deletes an exam that has begun, or its questions.
LEMMA NextHeld ==
  ASSUME Steady, [Next]_vars
  PROVE  HeldStay
<1> SUFFICES ASSUME ~Overtaken, NEW i \in Rows(db, "sessions"), NEW e,
                    e = db.sessions[i].schedule, db.sessions[i].status # "PLANNED",
                    e \in Rows(db, "schedules")
             PROVE  /\ e \in Rows(db', "schedules")
                    /\ SnapshotsOf(db, e) \subseteq Rows(db', "snapshots")
  BY DEF HeldStay
<1>1. CASE db' = db
  BY <1>1 DEF SnapshotsOf
<1>2. CASE db' # db
  <2>1. PICK v \in Answered(db, now) : v \in Database /\ Remains(v, db')
    BY <1>2, NextAnswers DEF Answers
  <2>2. HeldKept(db, v)
    BY <2>1 DEF Answered, ExamsKept, PlanKept
  <2>3. db.sessions[i].status \in {"ACTIVE", "COMPLETED"}
    BY RowsAre DEF Steady, Session, SessionStatus
  <2>4. Held(db, e)
    BY <2>3 DEF Held, SessionsOf
  <2> QED  BY <2>1, <2>2, <2>4, CascadeHeld DEF Steady, Consistent
<1> QED  BY <1>1, <1>2

\* An exam that has begun is never deleted, and what is frozen for it neither.
THEOREM OfficeTraceStays == Spec => TraceStays
<1>1. Steady /\ [Next]_vars => [HeldStay]_vars
  BY NextHeld
<1> QED  BY <1>1, AlwaysSteady, PTL DEF Spec, TraceStays, HeldStay

\* NoNewClash, of one step.
ClashesStay ==
  ~Overtaken => \A e, f \in Ids.schedules :
    Clash(db', e, f) => \/ Clash(db, e, f)
                        \/ {e, f} \cap InStatus(db, "schedules", {"CANCELLED"}) # {}

\* No step makes two exams of a class overlap unless it revives one.
LEMMA NextClashes ==
  ASSUME Steady, [Next]_vars
  PROVE  ClashesStay
<1>1. CASE db' = db
  BY <1>1 DEF ClashesStay
<1>2. ASSUME ~Overtaken, db' # db
      PROVE  ClashKept(db, db')
  <2>1. PICK v \in Answered(db, now) : v \in Database /\ Remains(v, db')
    BY <1>2, NextAnswers DEF Answers
  <2>2. ClashKept(db, v)
    BY <2>1 DEF Answered, ExamsKept, PlanKept
  <2> QED  BY <2>1, <2>2, CascadeClash
<1> QED  BY <1>1, <1>2 DEF ClashesStay, ClashKept

\* No two exams of a class come to overlap by planning, moving or importing.
THEOREM OfficeNoNewClash == Spec => NoNewClash
<1>1. Steady /\ [Next]_vars => [ClashesStay]_vars
  BY NextClashes
<1> QED  BY <1>1, AlwaysSteady, PTL DEF Spec, NoNewClash, ClashesStay

\* ReadyKeepsQuestions, of one step.
ReadyStay ==
  ~Overtaken => \A e \in Ids.schedules :
    Bare(db', e) => e \in Rows(db, "schedules") /\ SnapshotsOf(db, e) = {}

\* No step leaves an exam ready without the questions it had.
LEMMA NextReady ==
  ASSUME Steady, [Next]_vars
  PROVE  ReadyStay
<1>1. CASE db' = db
  BY <1>1 DEF ReadyStay, Bare, Startable, InStatus
<1>2. ASSUME ~Overtaken, db' # db
      PROVE  ReadyKept(db, db')
  <2>1. PICK v \in Answered(db, now) : v \in Database /\ Remains(v, db')
    BY <1>2, NextAnswers DEF Answers
  <2>2. ReadyKept(db, v)
    BY <2>1 DEF Answered, ExamsKept, PlanKept
  <2> QED  BY <2>1, <2>2, CascadeReady
<1> QED  BY <1>1, <1>2 DEF ReadyStay, ReadyKept

\* An exam to be held never loses the questions frozen for it, however it is
\* unassigned, its package reverted or deleted, or its status written.
THEOREM OfficeReadyKeepsQuestions == Spec => ReadyKeepsQuestions
<1>1. Steady /\ [Next]_vars => [ReadyStay]_vars
  BY NextReady
<1> QED  BY <1>1, AlwaysSteady, PTL DEF Spec, ReadyKeepsQuestions, ReadyStay

\* LockedReportStays, of one step.
LocksStay ==
  ~Overtaken =>
    \A r \in Rows(db, "reports") : Locked(db, r, now) =>
      \A x \in {x \in Ids.attendance : x[1] = r /\ db.attendance[x] # Null} :
        db'.attendance[x] = db.attendance[x] \/ db'.attendance[x].status = "HADIR"

\* No step changes what is in a locked report, but into presence.
LEMMA NextLocks ==
  ASSUME Steady, [Next]_vars
  PROVE  LocksStay
<1> SUFFICES ASSUME ~Overtaken, NEW r \in Rows(db, "reports"), Locked(db, r, now),
                    NEW x \in Ids.attendance, x[1] = r, db.attendance[x] # Null
             PROVE  db'.attendance[x] = db.attendance[x] \/ db'.attendance[x].status = "HADIR"
  BY DEF LocksStay
<1>1. CASE db' = db
  BY <1>1
<1>2. CASE db' # db
  <2>1. PICK v \in Answered(db, now) : v \in Database /\ Remains(v, db')
    BY <1>2, NextAnswers DEF Answers
  <2>2. LockKept(db, v, now)
    BY <2>1 DEF Answered, ExamsKept
  <2>3. x \in Rows(db, "attendance")
    <3>1. DOMAIN db.attendance = Ids.attendance
      BY DatabaseIs, TableNames DEF Table, Steady
    <3> QED  BY <3>1 DEF Rows
  <2> QED  BY <2>1, <2>2, <2>3, CascadeLocks DEF Steady
<1> QED  BY <1>1, <1>2

\* What is in a locked report stays, but for students that came after all.
THEOREM OfficeLockedReportStays == Spec => LockedReportStays
<1>1. Steady /\ [Next]_vars => [LocksStay]_vars
  BY NextLocks
<1> QED  BY <1>1, AlwaysSteady, PTL DEF Spec, LockedReportStays, LocksStay
=============================================================================
