---------------------------- MODULE SchoolRecords ----------------------------
(***************************************************************************)
(* The tables of one school and the requests that change them.  A service  *)
(* computes from the database it reads the one it wants to leave behind;   *)
(* at the commit only what it changed is written, over what the database   *)
(* holds by then, and the constraints of the tables are tested.  Nothing   *)
(* is locked in between: a request that is overtaken by the commit of      *)
(* another does not notice, unless a constraint is broken.                 *)
(***************************************************************************)
EXTENDS Integers, Sequences, FiniteSets

CONSTANTS Null, Clerks,
          Ids,      \* table -> the ids it may use: a bound on its rows
          Starts    \* the databases a school may be found with

VARIABLES
  db,      \* table -> id -> row, or Null
  work,    \* clerk -> the changes of the request under way, or Null
  raced    \* tables written by requests that were committed after another
           \* request had overtaken them

recordsVars == <<db, work, raced>>

YearStatus == {"PLANNED", "ACTIVE", "PENDING_ARCHIVE", "ARCHIVED"}
EnrolmentStatus == {"ACTIVE", "TRANSFERRED", "DROPPED"}
\* A schedule may be given any status by hand: of these every other behaves
\* like COMPLETED, which nothing looks for.
ScheduleStatus == {"DRAFT", "READY", "ACTIVE", "COMPLETED", "CANCELLED"}
QuestionType == {"PG", "IS", "ES"}
SessionStatus == {"PLANNED", "ACTIVE", "COMPLETED"}
BAUStatus == {"DRAFT", "SUBMITTED", "CORRECTION_REQUESTED"}
AttendanceStatus == {"HADIR", "IZIN", "SAKIT", "ALPA"}

-----------------------------------------------------------------------------
(* The schema: a row of each table.  A table of pairs has one row a pair   *)
(* at most, by its unique constraint.                                      *)
Slot == {s \in Nat \X Nat : s[1] < s[2]}
Opt(S) == S \cup {Null}

Year == [span : Slot, status : YearStatus]
Semester == [year : Ids.years, status : YearStatus]
Class == [year : Ids.years, name : STRING, active : BOOLEAN]
Subject == [code : STRING, active : BOOLEAN]
Account == [role : {"STUDENT", "TEACHER"}, username : STRING, code : Opt(STRING),
            nisn : Opt(STRING), nis : Opt(STRING), className : Opt(STRING), active : BOOLEAN]
Enrolment == [student : Ids.accounts, class : Ids.classes, year : Ids.years,
              status : EnrolmentStatus]
ClassSubject == [class : Ids.classes, subject : Ids.subjects]
ClassSubjectTeacher == [class : Ids.classes, subject : Ids.subjects, teacher : Ids.accounts]
TeacherSubject == [teacher : Ids.accounts, subject : Ids.subjects]
SchedulePackage == [year : Ids.years, closed : BOOLEAN]
Schedule == [package : Opt(Ids.packages), year : Ids.years, semester : Ids.semesters,
             class : Ids.classes, subject : Ids.subjects, teacher : Ids.accounts,
             proctor : Opt(Ids.accounts), slot : Slot, status : ScheduleStatus]
Snapshot == [schedule : Ids.schedules, package : Ids.banks, teacher : Ids.accounts,
             class : Ids.classes, subject : Ids.subjects, questions : SUBSET Ids.questions]
Session == [schedule : Nat, slot : Slot, status : SessionStatus]
Checkin == [schedule : Ids.schedules, student : Nat]
Attempt == [session : Ids.sessions, student : Nat]
Question == [owner : Ids.accounts, type : QuestionType, content : STRING]
Bank == [owner : Ids.accounts, target : [QuestionType -> Nat], status : {"INCOMPLETE", "READY"}]
Pin == [schedule : Nat, expires : Nat]
Report == [schedule : Nat, status : BAUStatus, submitted : Opt(Nat)]
Attendance == [report : Ids.reports, student : Nat, status : AttendanceStatus]
Item == [package : Ids.banks, question : Ids.questions, order : Int]

Rowset == [years |-> Year, semesters |-> Semester, classes |-> Class, subjects |-> Subject,
           accounts |-> Account, enrolments |-> Enrolment, classSubjects |-> ClassSubject,
           teaching |-> ClassSubjectTeacher, competency |-> TeacherSubject,
           packages |-> SchedulePackage, schedules |-> Schedule, snapshots |-> Snapshot,
           sessions |-> Session, checkins |-> Checkin, attempts |-> Attempt,
           questions |-> Question, banks |-> Bank, items |-> Item,
           pins |-> Pin, reports |-> Report, attendance |-> Attendance]

Tables == DOMAIN Ids

Table(t) == [Ids[t] -> Opt(Rowset[t])]
Database ==
  [years : Table("years"), semesters : Table("semesters"), classes : Table("classes"),
   subjects : Table("subjects"), accounts : Table("accounts"), enrolments : Table("enrolments"),
   classSubjects : Table("classSubjects"), teaching : Table("teaching"),
   competency : Table("competency"), packages : Table("packages"),
   schedules : Table("schedules"), snapshots : Table("snapshots"), sessions : Table("sessions"),
   checkins : Table("checkins"), attempts : Table("attempts"), questions : Table("questions"),
   banks : Table("banks"), items : Table("items"), pins : Table("pins"),
   reports : Table("reports"), attendance : Table("attendance")]

\* Foreign keys: table, column, referenced table, what its deletion does.
ForeignKeys ==
  {<<"semesters", "year", "years", "CASCADE">>, <<"classes", "year", "years", "RESTRICT">>,
   <<"enrolments", "student", "accounts", "CASCADE">>, <<"enrolments", "class", "classes", "CASCADE">>,
   <<"enrolments", "year", "years", "RESTRICT">>,
   <<"classSubjects", "class", "classes", "CASCADE">>,
   <<"classSubjects", "subject", "subjects", "CASCADE">>,
   <<"teaching", "class", "classes", "CASCADE">>, <<"teaching", "subject", "subjects", "CASCADE">>,
   <<"teaching", "teacher", "accounts", "RESTRICT">>,
   <<"competency", "teacher", "accounts", "CASCADE">>,
   <<"competency", "subject", "subjects", "CASCADE">>,
   <<"packages", "year", "years", "RESTRICT">>,
   <<"schedules", "package", "packages", "CASCADE">>, <<"schedules", "year", "years", "RESTRICT">>,
   <<"schedules", "semester", "semesters", "RESTRICT">>,
   <<"schedules", "class", "classes", "RESTRICT">>, <<"schedules", "subject", "subjects", "RESTRICT">>,
   <<"schedules", "teacher", "accounts", "RESTRICT">>,
   <<"schedules", "proctor", "accounts", "SET_NULL">>,
   <<"snapshots", "schedule", "schedules", "RESTRICT">>, <<"snapshots", "package", "banks", "RESTRICT">>,
   <<"snapshots", "teacher", "accounts", "RESTRICT">>, <<"snapshots", "class", "classes", "RESTRICT">>,
   <<"snapshots", "subject", "subjects", "RESTRICT">>,
   <<"checkins", "schedule", "schedules", "CASCADE">>, <<"attempts", "session", "sessions", "RESTRICT">>,
   <<"attendance", "report", "reports", "CASCADE">>,
   <<"questions", "owner", "accounts", "RESTRICT">>, <<"banks", "owner", "accounts", "RESTRICT">>,
   <<"items", "package", "banks", "CASCADE">>, <<"items", "question", "questions", "RESTRICT">>}

\* Columns whose values together are unique in their table.
Uniques ==
  {<<"classes", {"year", "name"}>>, <<"subjects", {"code"}>>, <<"accounts", {"username"}>>,
   <<"accounts", {"code"}>>, <<"snapshots", {"schedule"}>>, <<"reports", {"schedule"}>>, <<"attempts", {"session", "student"}>>,
   <<"items", {"package", "question"}>>, <<"items", {"package", "order"}>>}

\* The ids a table may use; a table of pairs is addressed by its pairs.
ASSUME IdsAssumption ==
  /\ DOMAIN Ids = DOMAIN Rowset
  /\ \A t \in Tables : IsFiniteSet(Ids[t]) /\ Null \notin Ids[t] \cup Rowset[t]
  /\ Ids.classSubjects = Ids.classes \X Ids.subjects
  /\ Ids.teaching = Ids.classes \X Ids.subjects
  /\ Ids.competency = Ids.accounts \X Ids.subjects
  /\ Ids.attendance \subseteq Ids.reports \X Nat
  /\ \A t \in Tables \ {"classSubjects", "teaching", "competency", "attendance"} : Ids[t] \subseteq Nat

-----------------------------------------------------------------------------
Rows(d, t) == {i \in DOMAIN d[t] : d[t][i] # Null}

\* The first id that neither a row nor a request under way has taken.
Taken(t) == {i \in Ids[t] : \E c \in Clerks : work[c] # Null /\ <<t, i>> \in DOMAIN work[c].writes}
Free(d, t) == {i \in Ids[t] : d[t][i] = Null} \ Taken(t)
New(d, t) == CHOOSE i \in Free(d, t) : \A j \in Free(d, t) : i <= j

Put(d, t, i, row) == [d EXCEPT ![t][i] = row]
Insert(d, t, row) == Put(d, t, New(d, t), row)
Drop(d, t, gone) == [d EXCEPT ![t] = [i \in DOMAIN @ |-> IF i \in gone THEN Null ELSE @[i]]]

\* UPDATE t SET col = x WHERE i \in hit.
Set(d, t, hit, col, x) ==
  [d EXCEPT ![t] = [i \in DOMAIN @ |-> IF i \in hit THEN [@[i] EXCEPT ![col] = x] ELSE @[i]]]

\* What a service leaves behind: the database v when g holds, else nothing.
Given(g, v) == IF g THEN {v} ELSE {}

-----------------------------------------------------------------------------
(* A request.                                                              *)
Write(old, new) ==
  CASE old = Null -> [op |-> "insert", cols |-> new]
    [] new = Null -> [op |-> "delete", cols |-> << >>]
    [] OTHER -> [op |-> "update",
                 cols |-> [f \in {f \in DOMAIN new : new[f] # old[f]} |-> new[f]]]

Changed(d, v) == UNION {{<<t, i>> : i \in {i \in DOMAIN d[t] : d[t][i] # v[t][i]}} : t \in Tables}

Begin(c, v) ==
  /\ work[c] = Null
  /\ v # db
  /\ work' = [work EXCEPT ![c] =
       [writes |-> [x \in Changed(db, v) |-> Write(db[x[1]][x[2]], v[x[1]][x[2]])],
        fresh |-> TRUE]]
  /\ UNCHANGED <<db, raced>>

Written(row, w) ==
  CASE w.op = "insert" -> w.cols
    [] w.op = "delete" -> Null
    [] w.op = "update" -> [f \in DOMAIN row |-> IF f \in DOMAIN w.cols THEN w.cols[f] ELSE row[f]]

Merged(d, writes) ==
  [t \in Tables |-> [i \in DOMAIN d[t] |->
     IF <<t, i>> \in DOMAIN writes THEN Written(d[t][i], writes[<<t, i>>]) ELSE d[t][i]]]

Dangles(d, k, i) == d[k[1]][i][k[2]] # Null /\ d[k[3]][d[k[1]][i][k[2]]] = Null
Dangling(d, k) == {i \in Rows(d, k[1]) : Dangles(d, k, i)}

\* Deletions take with them, or let go, what refers to the row; the longest
\* chain of cascades has two links.
Lost(d) ==
  LET Follows(k, gone) == {i \in Rows(d, k[1]) : \/ Dangles(d, k, i)
                                                  \/ <<k[3], d[k[1]][i][k[2]]>> \in gone}
      Sweep(gone) == gone \cup UNION {{<<k[1], i>> : i \in Follows(k, gone)} :
                                       k \in {k \in ForeignKeys : k[4] = "CASCADE"}}
  IN Sweep(Sweep({}))

Cascaded(d) ==
  LET lost == Lost(d)
      loose == {<<"schedules", i>> :
                  i \in Dangling(d, <<"schedules", "proctor", "accounts", "SET_NULL">>)}
  IN [t \in Tables |-> [i \in DOMAIN d[t] |->
        IF <<t, i>> \in lost THEN Null
        ELSE IF <<t, i>> \in loose THEN [d[t][i] EXCEPT !.proctor = Null] ELSE d[t][i]]]

KeysHold(d) == \A k \in ForeignKeys : Dangling(d, k) = {}
UniquesHold(d) ==
  \A u \in Uniques : \A i, j \in Rows(d, u[1]) :
    (\A col \in u[2] : d[u[1]][i][col] # Null /\ d[u[1]][i][col] = d[u[1]][j][col]) => i = j
Consistent(d) == KeysHold(d) /\ UniquesHold(d)

\* An update finds its row, an insert finds no other with its key, what is
\* written refers to what exists, and no constraint is broken in the end.
\* A deletion of what is gone already does nothing.
Accepted(d, writes) ==
  LET v == Merged(d, writes)
      upserts == {x \in DOMAIN writes : writes[x].op # "delete"}
  IN /\ \A x \in upserts : (writes[x].op = "update") <=> (d[x[1]][x[2]] # Null)
     /\ \A k \in ForeignKeys : \A x \in upserts :
          x[1] = k[1] /\ k[2] \in DOMAIN writes[x].cols => ~Dangles(v, k, x[2])
     /\ Consistent(Cascaded(v))

Commit(c) ==
  /\ work[c] # Null
  /\ LET ok == Accepted(db, work[c].writes)
     IN /\ db' = IF ok THEN Cascaded(Merged(db, work[c].writes)) ELSE db
        /\ raced' = IF ok /\ ~work[c].fresh
                    THEN raced \cup {x[1] : x \in DOMAIN work[c].writes} ELSE raced
        /\ work' = [o \in Clerks |-> IF o = c \/ work[o] = Null THEN Null
                                     ELSE [work[o] EXCEPT !.fresh = @ /\ ~ok]]

RecordsInit ==
  /\ db \in Starts
  /\ work = [c \in Clerks |-> Null]
  /\ raced = {}
=============================================================================
