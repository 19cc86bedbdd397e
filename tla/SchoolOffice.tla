----------------------------- MODULE SchoolOffice -----------------------------
(***************************************************************************)
(* The endpoints of the administrators, teachers, students and proctors of *)
(* a school that change its records (api/academic.py, admin_class.py,      *)
(* admin_subject.py, school_student.py, school_staff.py,                   *)
(* admin_exam_schedule.py, teacher.py, exam.py and proctor.py).  Each reads *)
(* database and lets a service work out what it leaves behind; the commit  *)
(* is a step of its own.  A clerk is a worker of the server.               *)
(***************************************************************************)
EXTENDS ProctorRoom

CONSTANTS Spans, Slots, Statuses,                      \* what is asked for
          ClassNames, SubjectCodes, Numbers, TeacherCodes, Contents, Targets,
          Horizon                                      \* bound on the clock

VARIABLE now

vars == <<db, work, raced, now>>

\* What a form lets through, and the names made of the numbers.
ASSUME InputsAssumption ==
  /\ Spans \cup Slots \subseteq Nat \X Nat
  /\ ClassNames \cup SubjectCodes \cup Numbers \cup TeacherCodes \cup Contents \subseteq STRING
  /\ IsFiniteSet(SubjectCodes)
  /\ \A n \in Numbers : StudentName(n, Null) \in STRING /\ TeacherName(n) \in STRING
  /\ Targets \subseteq [QuestionType -> Nat] /\ Statuses \subseteq ScheduleStatus
  /\ {WibOffset, Grace, CodeLife, Day, Horizon} \subseteq Nat

Init == RecordsInit /\ now = 0

Two(S) == {P \in SUBSET S : Cardinality(P) = 2}

-----------------------------------------------------------------------------
(* Years and semesters.                                                    *)
OnCreateYear(c) == \E s \in Spans : \E v \in CreateYear(db, s) : Begin(c, v)
OnDeleteYear(c) == \E y \in Ids.years : \E v \in DeleteYear(db, y) : Begin(c, v)
OnCloseYear(c) == \E y \in Ids.years : \E v \in CloseYear(db, y) : Begin(c, v)
OnFinalizeArchive(c) == \E y \in Ids.years : \E v \in FinalizeArchive(db, y) : Begin(c, v)
OnRollover(c) == \E y \in Ids.years : \E v \in Rollover(db, y) : Begin(c, v)
OnCreateSemester(c) == \E y \in Ids.years : \E v \in CreateSemester(db, y) : Begin(c, v)
OnActivateSemester(c) == \E m \in Ids.semesters : \E v \in ActivateSemester(db, m) : Begin(c, v)

YearRequest(c) ==
  \/ OnCreateYear(c) \/ OnDeleteYear(c) \/ OnCloseYear(c) \/ OnFinalizeArchive(c)
  \/ OnRollover(c) \/ OnCreateSemester(c) \/ OnActivateSemester(c)

-----------------------------------------------------------------------------
(* Classes and who is in them.                                             *)
OnCreateClass(c) ==
  \E y \in Ids.years, n \in ClassNames : \E v \in CreateClass(db, y, n) : Begin(c, v)
OnUpdateClass(c) ==
  \E k \in Ids.classes, n \in ClassNames, on \in BOOLEAN :
    \E v \in UpdateClass(db, k, n, on) : Begin(c, v)
OnDeleteClass(c) == \E k \in Ids.classes : \E v \in DeleteClass(db, k) : Begin(c, v)
OnEnroll(c) ==
  \E a \in Ids.accounts, k \in Ids.classes : \E v \in EnrollStudent(db, a, k) : Begin(c, v)
OnBulkEnroll(c) ==
  \E k \in Ids.classes, S \in Two(Ids.accounts) :
    \E v \in Each([a \in S |-> [d \in Database |-> EnrollStudent(d, a, k)]], db) : Begin(c, v)
OnRemove(c) ==
  \E a \in Ids.accounts, k \in Ids.classes : \E v \in RemoveStudent(db, a, k) : Begin(c, v)
OnBulkRemove(c) ==
  \E k \in Ids.classes, S \in Two(Ids.accounts) :
    \E v \in Each([a \in S |-> [d \in Database |-> RemoveStudent(d, a, k)]], db) : Begin(c, v)
OnAssignSubject(c) ==
  \E k \in Ids.classes, s \in Ids.subjects : \E v \in AssignSubject(db, k, s) : Begin(c, v)
OnBulkAssign(c) ==
  \E k \in Ids.classes, S \in Two(Ids.subjects) :
    \E v \in Each([s \in S |-> [d \in Database |-> AssignSubject(d, k, s)]], db) : Begin(c, v)
OnBulkUnassign(c) ==
  \E k \in Ids.classes, S \in SUBSET Ids.subjects :
    \E v \in Each([s \in S |-> [d \in Database |-> RemoveSubject(d, k, s)]], db) : Begin(c, v)
OnAssignTeacher(c) ==
  \E k \in Ids.classes, s \in Ids.subjects, a \in Ids.accounts :
    \E v \in AssignTeacher(db, k, s, a) : Begin(c, v)
OnImportClass(c) ==
  \E y \in Ids.years, n \in ClassNames, x \in Numbers, l \in SubjectCodes \X TeacherCodes :
    \E v \in ImportClass(db, y, n, {x}, {l}) : Begin(c, v)

ClassRequest(c) ==
  \/ OnCreateClass(c) \/ OnUpdateClass(c) \/ OnDeleteClass(c)
  \/ OnAssignSubject(c) \/ OnBulkAssign(c) \/ OnBulkUnassign(c)
  \/ OnAssignTeacher(c) \/ OnImportClass(c)

EnrolmentRequest(c) == OnEnroll(c) \/ OnBulkEnroll(c) \/ OnRemove(c) \/ OnBulkRemove(c)

-----------------------------------------------------------------------------
(* Subjects and who may teach them.                                        *)
OnCreateSubject(c) == \E n \in SubjectCodes : \E v \in CreateSubject(db, n) : Begin(c, v)
OnUpdateSubject(c) ==
  \E s \in Ids.subjects, n \in SubjectCodes, on \in BOOLEAN :
    \E v \in UpdateSubject(db, s, n, on) : Begin(c, v)
OnDeleteSubject(c) == \E s \in Ids.subjects : \E v \in DeleteSubject(db, s) : Begin(c, v)
OnDeleteSubjects(c) ==
  \E S \in Two(Ids.subjects) : \E v \in DeleteSubjects(db, S) : Begin(c, v)
OnSwitchSubjects(c) ==
  \E S \in Two(Ids.subjects), on \in BOOLEAN : \E v \in SwitchSubjects(db, S, on) : Begin(c, v)
OnImportSubjects(c) ==
  \E S \in SUBSET SubjectCodes : \E v \in ImportSubjects(db, S) : Begin(c, v)
OnAssignCompetency(c) ==
  \E a \in Ids.accounts, s \in Ids.subjects : \E v \in AssignCompetency(db, a, s) : Begin(c, v)
OnUnassignCompetency(c) ==
  \E a \in Rows(db, "accounts"), s \in Rows(db, "subjects") :
    \E v \in UnassignCompetency(db, a, s) : Begin(c, v)

SubjectRequest(c) ==
  \/ OnCreateSubject(c) \/ OnUpdateSubject(c) \/ OnDeleteSubject(c) \/ OnDeleteSubjects(c)
  \/ OnSwitchSubjects(c) \/ OnImportSubjects(c) \/ OnAssignCompetency(c) \/ OnUnassignCompetency(c)

-----------------------------------------------------------------------------
(* Accounts of students and teachers.                                      *)
OptClass == ClassNames \cup {Null}
OptNumber == Numbers \cup {Null}

OnCreateStudent(c) ==
  \E f \in Numbers, n \in OptNumber, k \in OptClass :
    \E v \in CreateStudent(db, f, n, k) : Begin(c, v)
OnUpdateStudent(c) ==
  \E a \in Students(db), n \in OptNumber, k \in OptClass :
    \E v \in UpdateStudent(db, a, db.accounts[a].nisn, n, k, TRUE) : Begin(c, v)
OnDeleteStudent(c) == \E a \in Ids.accounts : \E v \in DeleteStudent(db, a) : Begin(c, v)
OnToggleStudent(c) == \E a \in Students(db) : \E v \in ToggleActive(db, a) : Begin(c, v)
OnClearSessions(c) == \E a \in Ids.accounts : \E v \in ClearStudentSessions(db, a) : Begin(c, v)
OnImportStudents(c) ==
  \E y \in Ids.years, f, g \in Numbers, n \in OptNumber, k \in OptClass :
    \E v \in ImportStudents(db, y, {<<f, n, k>>, <<g, Null, Null>>}) : Begin(c, v)
OnCreateTeacher(c) ==
  \E x \in Numbers, n \in TeacherCodes : \E v \in CreateTeacher(db, x, n) : Begin(c, v)
OnUpdateTeacher(c) ==
  \E a \in Ids.accounts, n \in TeacherCodes, on \in BOOLEAN :
    \E v \in UpdateTeacher(db, a, n, on) : Begin(c, v)
OnDeleteTeacher(c) == \E a \in Ids.accounts : \E v \in DeleteTeacher(db, a) : Begin(c, v)
OnToggleTeacher(c) == \E a \in Teachers(db) : \E v \in ToggleActive(db, a) : Begin(c, v)
OnImportTeachers(c) ==
  \E x \in Numbers, n \in TeacherCodes :
    \E v \in ImportTeachers(db, {<<x, n>>}) : Begin(c, v)

StudentRequest(c) ==
  \/ OnCreateStudent(c) \/ OnUpdateStudent(c) \/ OnDeleteStudent(c) \/ OnToggleStudent(c)
  \/ OnClearSessions(c) \/ OnImportStudents(c)
TeacherRequest(c) ==
  \/ OnCreateTeacher(c) \/ OnUpdateTeacher(c) \/ OnDeleteTeacher(c) \/ OnToggleTeacher(c)
  \/ OnImportTeachers(c)

-----------------------------------------------------------------------------
(* Schedules and their packages.                                           *)
OptSlot == Slots \cup {Null}

OnCreateSchedule(c) ==
  \E p \in Opt(Rows(db, "packages")), m \in Rows(db, "semesters"), k \in Ids.classes,
     s \in Ids.subjects, slot \in Slots, a \in Opt(Teachers(db)) :
    \E v \in CreateSchedule(db, p, db.semesters[m].year, m, k, s, slot, a) : Begin(c, v)
OnUpdateSchedule(c) ==
  \E e \in Ids.schedules, m \in Opt(Rows(db, "semesters")), k \in Opt(Ids.classes),
     s \in Opt(Rows(db, "subjects")), slot \in OptSlot, a \in Opt(Teachers(db)),
     st \in Opt(Statuses) :
    \E v \in UpdateSchedule(db, e, m, k, s, slot, a, st) : Begin(c, v)
OnAssignProctor(c) ==
  \E e \in Ids.schedules, a \in Opt(Teachers(db)) :
    \E v \in AssignProctor(db, e, a) : Begin(c, v)
OnDeleteSchedule(c) == \E e \in Ids.schedules : \E v \in DeleteSchedule(db, e) : Begin(c, v)
OnCreateSchedulePackage(c) ==
  \E y \in Ids.years : \E v \in CreateSchedulePackage(db, y) : Begin(c, v)
OnDeleteSchedulePackage(c) ==
  \E p \in Ids.packages : \E v \in DeleteSchedulePackage(db, p) : Begin(c, v)

\* Looking at a package closes it first when its time has come.
OnLookAtPackage(c) == \E p \in Ids.packages : \E v \in AutoClose(db, p, now) : Begin(c, v)
OnClosePackage(c) == \E p \in Ids.packages : \E v \in ClosePackage(db, p) : Begin(c, v)
OnImportSchedules(c) ==
  \E p \in Ids.packages, n \in ClassNames, s \in SubjectCodes, slot \in Slots,
     a \in TeacherCodes \cup {Null} :
    /\ AutoClose(db, p, now) = {}
    /\ \E v \in ImportSchedules(db, p, {<<n, s, slot, a>>}) : Begin(c, v)

ScheduleRequest(c) ==
  \/ OnCreateSchedule(c) \/ OnUpdateSchedule(c) \/ OnAssignProctor(c) \/ OnDeleteSchedule(c)
  \/ OnCreateSchedulePackage(c) \/ OnDeleteSchedulePackage(c) \/ OnLookAtPackage(c)
  \/ OnClosePackage(c) \/ OnImportSchedules(c)

-----------------------------------------------------------------------------
(* The teacher's packages of questions, frozen for a schedule.             *)
OnFinalizeAssignment(c) ==
  \E a \in Teachers(db), e \in Ids.schedules, b \in Ids.banks :
    \E v \in CreateSnapshot(db, a, e, b) : Begin(c, v)
OnUnassign(c) ==
  \E a \in Teachers(db), e \in Ids.schedules : \E v \in UnassignSnapshot(db, a, e) : Begin(c, v)
OnRevertPackage(c) ==
  \E a \in Teachers(db), b \in Ids.banks : \E v \in RevertPackage(db, a, b) : Begin(c, v)
OnDeletePackage(c) ==
  \E a \in Teachers(db), b \in Ids.banks : \E v \in DeletePackage(db, a, b) : Begin(c, v)
OnPublish(c) ==
  \E a \in Teachers(db), b \in Ids.banks : \E v \in PublishPackage(db, a, b) : Begin(c, v)

SnapshotRequest(c) ==
  \/ OnFinalizeAssignment(c) \/ OnUnassign(c) \/ OnRevertPackage(c) \/ OnDeletePackage(c)
  \/ OnPublish(c)

OnCreateQuestion(c) ==
  \E a \in Teachers(db), t \in QuestionType, x \in Contents :
    \E v \in CreateQuestion(db, a, t, x) : Begin(c, v)
OnUpdateQuestion(c) ==
  \E a \in Teachers(db), q \in Ids.questions, x \in Contents :
    \E v \in UpdateQuestion(db, a, q, x) : Begin(c, v)
OnDeleteQuestion(c) ==
  \E a \in Teachers(db), q \in Ids.questions : \E v \in DeleteQuestion(db, a, q) : Begin(c, v)
OnImportQuestions(c) ==
  \E a \in Teachers(db), t \in QuestionType, x \in Contents, n \in 0..1, other \in {"", "b"} :
    LET row == [type |-> t, content |-> x, key |-> x, options |-> <<x, other>>, ai |-> FALSE,
                rubrics |-> n]
    IN \E v \in ImportQuestions(db, a, {row}) : Begin(c, v)
OnCreatePackage(c) ==
  \E a \in Teachers(db), n \in Targets : \E v \in CreatePackage(db, a, n) : Begin(c, v)
OnAddQuestion(c) ==
  \E a \in Teachers(db), b \in Ids.banks, q \in Rows(db, "questions") :
    \E v \in AddQuestion(db, a, b, q) : Begin(c, v)
OnReorder(c) ==
  \E a \in Teachers(db), b \in Rows(db, "banks") :
    LET held == {db.items[i].question : i \in ItemsOf(db, b)}
    IN \E orders \in [held -> 1..Cardinality(held)] :
         \E v \in ReorderQuestions(db, a, b, orders) : Begin(c, v)
OnRemoveQuestion(c) ==
  \E a \in Teachers(db), b \in Ids.banks, q \in Ids.questions :
    \E v \in RemoveQuestion(db, a, b, q) : Begin(c, v)
OnReplaceQuestion(c) ==
  \E a \in Teachers(db), b \in Ids.banks, q, r \in Rows(db, "questions") :
    \E v \in ReplaceQuestion(db, a, b, q, r) : Begin(c, v)

QuestionRequest(c) ==
  \/ OnCreateQuestion(c) \/ OnUpdateQuestion(c) \/ OnDeleteQuestion(c) \/ OnImportQuestions(c)
  \/ OnCreatePackage(c) \/ OnAddQuestion(c) \/ OnReorder(c) \/ OnRemoveQuestion(c)
  \/ OnReplaceQuestion(c)

-----------------------------------------------------------------------------
(* The day of the exam.                                                    *)
OnMySchedules(c) ==
  \E a \in Students(db), e \in Ids.schedules : \E v \in StudentPoll(db, a, e, now) : Begin(c, v)
OnProctorAssignments(c) ==
  \E a \in Teachers(db), e \in Ids.schedules : \E v \in ProctorPoll(db, a, e, now) : Begin(c, v)
OnIssueCode(c) ==
  \E u \in Opt(Teachers(db)), e \in Ids.schedules, p \in Ids.pins :
    \E v \in IssueCode(db, u, e, p, now) : Begin(c, v)
OnCheckIn(c) ==
  \E a \in Students(db), e \in Ids.schedules : \E v \in CheckIn(db, a, e, now) : Begin(c, v)

\* After its commit a check-in marks the student present, in a transaction of
\* its own whose failure nobody hears of; a second scan does it again.
OnMarkPresent(c) ==
  \E i \in Rows(db, "checkins") :
    \E v \in MarkPresent(db, db.checkins[i].schedule, db.checkins[i].student) : Begin(c, v)

ExamDayRequest(c) == OnMySchedules(c) \/ OnProctorAssignments(c) \/ OnIssueCode(c) \/ OnCheckIn(c)

-----------------------------------------------------------------------------
(* The report of the proctor.                                              *)
OnOpenReport(c) ==
  \E u \in Teachers(db), e \in Ids.schedules : \E v \in OpenReport(db, u, e, now) : Begin(c, v)
OnUpdateAttendance(c) ==
  \E u \in Teachers(db), x \in Ids.attendance, st \in {"SAKIT", "ALPA"} :
    \E v \in UpdateAttendance(db, u, x[1], x[2], st, now) : Begin(c, v)
OnSubmitReport(c) ==
  \E u \in Teachers(db), r \in Ids.reports : \E v \in SubmitReport(db, u, r, now) : Begin(c, v)
OnRequestCorrection(c) ==
  \E u \in Teachers(db), r \in Ids.reports : \E v \in RequestCorrection(db, u, r) : Begin(c, v)
OnResolveCorrection(c) ==
  \E r \in Ids.reports, ok \in BOOLEAN : \E v \in ResolveCorrection(db, r, ok) : Begin(c, v)

ReportRequest(c) ==
  \/ OnMarkPresent(c) \/ OnOpenReport(c) \/ OnUpdateAttendance(c) \/ OnSubmitReport(c)
  \/ OnRequestCorrection(c) \/ OnResolveCorrection(c)

-----------------------------------------------------------------------------
Finish(c) == Commit(c) /\ UNCHANGED now

\* The unit of the clock is long: no request lasts beyond it.
Tick ==
  /\ now < Horizon /\ \A c \in Clerks : work[c] = Null
  /\ now' = now + 1 /\ UNCHANGED recordsVars

Request(c) ==
  \/ YearRequest(c) \/ ClassRequest(c) \/ EnrolmentRequest(c) \/ SubjectRequest(c)
  \/ StudentRequest(c) \/ TeacherRequest(c) \/ ScheduleRequest(c) \/ SnapshotRequest(c)
  \/ QuestionRequest(c) \/ ExamDayRequest(c) \/ ReportRequest(c)

Next ==
  \/ \E c \in Clerks : Request(c) /\ UNCHANGED now
  \/ \E c \in Clerks : Finish(c)
  \/ Tick

Spec == Init /\ [][Next]_vars

-----------------------------------------------------------------------------
\* Every row is one of its table; a request carries changes to known tables.
\* (A year or an exam that ends before it begins would not be a row.)
TypeOK ==
  /\ db \in Database
  /\ \A c \in Clerks : work[c] # Null => \A x \in DOMAIN work[c].writes : x[1] \in Tables
  /\ raced \subseteq Tables
  /\ now \in 0..Horizon

Apart(S) == raced \cap S = {}

\* What the services keep of the records, each on its own, is more than what
\* the properties say: at most one year runs and one semester is active, one
\* of the active year; a student has one active enrolment a year; a lesson is
\* filed under its class and subject; a trace is one of a student.
PeriodsFit(d) ==
  LET active == InStatus(d, "semesters", {"ACTIVE"})
  IN /\ \A y, z \in RunningYears(d) : y = z
     /\ \A s, o \in active : s = o
     /\ active \subseteq ActiveSemesters(d)
EnrolmentsFit(d) ==
  \A n, m \in InStatus(d, "enrolments", {"ACTIVE"}) :
    /\ d.enrolments[n].student = d.enrolments[m].student
    /\ d.enrolments[n].year = d.enrolments[m].year
    => n = m
LessonsFit(d) ==
  /\ Rows(d, "teaching") \subseteq Rows(d, "classSubjects")
  /\ \A t \in {"teaching", "classSubjects"} : \A x \in Rows(d, t) :
       x = <<d[t][x].class, d[t][x].subject>>
TracesFit(d) ==
  \A t \in {"attempts", "checkins"} : \A i \in Rows(d, t) : d[t][i].student \in Students(d)

\* Of its exams: a schedule has one session; the questions of a package are its
\* owner's, in an order without gaps, and as many as wanted when it is ready.
RoomsFit(d) ==
  \A i, j \in Rows(d, "sessions") : d.sessions[i].schedule = d.sessions[j].schedule => i = j
BankFits(d, b) ==
  /\ {d.items[i].order : i \in ItemsOf(d, b)} = 1..Cardinality(ItemsOf(d, b))
  /\ \A i \in ItemsOf(d, b) : d.questions[d.items[i].question].owner = d.banks[b].owner
  /\ d.banks[b].status = "READY" =>
       \A type \in QuestionType : CountOf(d, b, type) >= d.banks[b].target[type]
BanksFit(d) == \A b \in Rows(d, "banks") : BankFits(d, b)

\* A school is found with records that fit.
ASSUME StartsAssumption ==
  \A d \in Starts : /\ d \in Database /\ Consistent(d)
                    /\ PeriodsFit(d) /\ EnrolmentsFit(d) /\ LessonsFit(d) /\ TracesFit(d)
                    /\ RoomsFit(d) /\ BanksFit(d)

\* However years are closed, archived and rolled over, at most one is running
\* and at most one semester of it, as long as no request on them overtook
\* another.
OnePeriod ==
  Apart({"years", "semesters"}) =>
    Cardinality(RunningYears(db)) <= 1 /\ Cardinality(ActiveSemesters(db)) <= 1

\* A student is in one class of a year at a time, whether he was enrolled
\* alone, in bulk, by an import or with his account.
EnrolledOnce ==
  Apart({"enrolments"}) =>
    \A a \in Rows(db, "accounts"), y \in Rows(db, "years") :
      Cardinality(ActiveEnrolments(db, a, y)) <= 1

\* Who teaches a subject in a class teaches a subject the class has.
TaughtIsAssigned ==
  Apart({"teaching", "classSubjects"}) => Rows(db, "teaching") \subseteq Rows(db, "classSubjects")

\* A request that nobody overtook is the one that reads what it writes over.
Overtaken == \E c \in Clerks : work[c] # Null /\ work'[c] = Null /\ ~work[c].fresh

\* The enrolments of a student are history: they go with his account only.
HistoryStays ==
  [][~Overtaken =>
       \A n \in Rows(db, "enrolments") : n \in Rows(db', "enrolments")
                                         \/ db'.accounts[db.enrolments[n].student] = Null]_vars

\* No request deletes the account of a student as long as there is a trace of
\* him, an attempt or a check-in.  (clear-sessions takes his check-ins away,
\* and then nothing keeps the account of one who came but did not sit.)
TraceKeepsAccount ==
  [][~Overtaken =>
       \A a \in Students(db) : AttemptsOf(db, a) \cup CheckinsOf(db, a) # {} => a \in Students(db')]_vars

-----------------------------------------------------------------------------
\* A schedule whose session has begun is never deleted, and the questions
\* frozen for it neither.
TraceStays ==
  [][~Overtaken =>
       \A i \in Rows(db, "sessions") :
         LET e == db.sessions[i].schedule
         IN db.sessions[i].status # "PLANNED" /\ e \in Rows(db, "schedules") =>
              /\ e \in Rows(db', "schedules")
              /\ SnapshotsOf(db, e) \subseteq Rows(db', "snapshots")]_vars

Clash(d, e, f) ==
  /\ e # f /\ {e, f} \subseteq Rows(d, "schedules") \ InStatus(d, "schedules", {"CANCELLED"})
  /\ d.schedules[e].class = d.schedules[f].class
  /\ Overlap(d.schedules[e].slot, d.schedules[f].slot)

\* Two exams of a class come to overlap only when one is revived that had
\* been called off, never by planning, moving or importing one.
NoNewClash ==
  [][~Overtaken =>
       \A e, f \in Ids.schedules :
         Clash(db', e, f) => \/ Clash(db, e, f)
                             \/ {e, f} \cap InStatus(db, "schedules", {"CANCELLED"}) # {}]_vars

\* The students and the proctor of an exam meet in one session.
OneRoom ==
  Apart({"sessions"}) => \A e \in Rows(db, "schedules") : Cardinality(SessionsOf(db, e)) <= 1

Bare(d, e) == e \in Startable(d) /\ SnapshotsOf(d, e) = {}

\* An exam to be held never loses the questions frozen for it, however it is
\* unassigned, its package reverted or deleted, or its status written: it is
\* without them only if it had none already.  (update_exam_schedule writes
\* READY on an exam nothing was frozen for.)
ReadyKeepsQuestions ==
  [][~Overtaken =>
       \A e \in Ids.schedules :
         Bare(db', e) => e \in Rows(db, "schedules") /\ SnapshotsOf(db, e) = {}]_vars

\* A package that is ready holds at least the questions it is to hold, in
\* an order without gaps.
PackageComplete ==
  Apart({"items", "banks"}) =>
    \A b \in Rows(db, "banks") :
      /\ {db.items[i].order : i \in ItemsOf(db, b)} = 1..Cardinality(ItemsOf(db, b))
      /\ db.banks[b].status = "READY" =>
           \A type \in QuestionType : CountOf(db, b, type) >= db.banks[b].target[type]

\* Once a report has been submitted for more than a day, an attendance in it
\* changes in one way only: of a student who came after all, or whose absence
\* nobody had noted.  (A correction asked for takes the lock off.)
LockedReportStays ==
  [][~Overtaken =>
       \A r \in Rows(db, "reports") : Locked(db, r, now) =>
         \A x \in {x \in Ids.attendance : x[1] = r /\ db.attendance[x] # Null} :
           db'.attendance[x] = db.attendance[x] \/ db'.attendance[x].status = "HADIR"]_vars
=============================================================================
