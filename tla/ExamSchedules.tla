---------------------------- MODULE ExamSchedules -----------------------------
(***************************************************************************)
(* ExamScheduleService and ExamSnapshotService, and the polls that open    *)
(* the session of a schedule: an administrator plans the exams of a class, *)
(* its teacher freezes a package of questions for each, and the first      *)
(* student or proctor to look at an exam opens its session.                *)
(***************************************************************************)
EXTENDS Members

CONSTANTS WibOffset,   \* hours Jakarta is ahead of UTC, in units of a slot
          Grace        \* the two weeks after which a package closes itself

\* Mutant of ClassClashes: a draft is overlooked.
ReadyClashes(d, k, slot) ==
  {e \in InStatus(d, "schedules", {"READY"}) :
     d.schedules[e].class = k /\ Overlap(d.schedules[e].slot, slot)}

\* find_class_schedule_overlap
ClassClashes(d, k, slot) ==
  {e \in Rows(d, "schedules") : /\ d.schedules[e].class = k /\ d.schedules[e].status # "CANCELLED"
                                /\ Overlap(d.schedules[e].slot, slot)}
SessionsOf(d, e) == {i \in Rows(d, "sessions") : d.sessions[i].schedule = e}
SnapshotsOf(d, e) == {i \in Rows(d, "snapshots") : d.snapshots[i].schedule = e}
SchedulesIn(d, p) == {e \in Rows(d, "schedules") : d.schedules[e].package = p}

\* Exams that are shown to their class as to be held: READY, or ACTIVE, which
\* is only ever written by hand.
Startable(d) == InStatus(d, "schedules", {"READY", "ACTIVE"})

\* An exam that is going on or over.
Held(d, e) == \E i \in SessionsOf(d, e) : d.sessions[i].status \in {"ACTIVE", "COMPLETED"}

Set2(d, hit, col, x, col2, x2) == Set(Set(d, "schedules", hit, col, x), "schedules", hit, col2, x2)

-----------------------------------------------------------------------------
Ordered(slot) == slot[1] < slot[2]

\* The teacher is whoever teaches the subject in the class.  The class need
\* not be one of the year.
CreateSchedule(d, p, y, m, k, s, slot, proctor) ==
  Given(/\ p \in Rows(d, "packages") => ~d.packages[p].closed
        /\ Ordered(slot) /\ ClassClashes(d, k, slot) = {}
        /\ y \in Rows(d, "years") /\ m \in SemestersOf(d, y)
        /\ k \in Rows(d, "classes") /\ s \in Rows(d, "subjects") /\ d.teaching[<<k, s>>] # Null
        /\ proctor # Null => proctor \in Rows(d, "accounts")
        /\ Free(d, "schedules") # {},
        Insert(d, "schedules",
               [package |-> p, year |-> y, semester |-> m, class |-> k, subject |-> s,
                teacher |-> d.teaching[<<k, s>>].teacher, proctor |-> proctor, slot |-> slot,
                status |-> "DRAFT"]))

\* What is Null stays as it is; the status may be any, whether questions are
\* frozen or not.  The session keeps the times it was opened
\* with, the snapshot the teacher and class it was made for.
UpdateSchedule(d, e, m, k, s, slot, proctor, status) ==
  IF e \notin Rows(d, "schedules") THEN {}
  ELSE LET old == d.schedules[e]
           Keep(x, col) == IF x = Null THEN old[col] ELSE x
           pair == <<Keep(k, "class"), Keep(s, "subject")>>
           placed == k # Null \/ s # Null
       IN Given(/\ Ordered(Keep(slot, "slot"))
                /\ ClassClashes(d, pair[1], Keep(slot, "slot")) \subseteq {e}
                /\ m # Null => m \in SemestersOf(d, old.year)
                /\ placed => d.teaching[pair] # Null,
                Put(d, "schedules", e,
                    [old EXCEPT !.semester = Keep(m, "semester"), !.class = pair[1],
                                !.subject = pair[2], !.slot = Keep(slot, "slot"),
                                !.proctor = Keep(proctor, "proctor"),
                                !.status = Keep(status, "status"),
                                !.teacher = IF placed THEN d.teaching[pair].teacher ELSE @]))

AssignProctor(d, e, a) ==
  Given(e \in Rows(d, "schedules") /\ (a # Null => a \in Rows(d, "accounts")),
        Set(d, "schedules", {e}, "proctor", a))

\* Mutant of DeleteSchedule: only a check-in counts as a trace.
DeleteUnvisited(d, e) ==
  Given(e \in Rows(d, "schedules") /\ \A i \in Rows(d, "checkins") : d.checkins[i].schedule # e,
        Drop(Drop(d, "snapshots", SnapshotsOf(d, e)), "schedules", {e}))

\* A schedule that left a trace is called off, any other deleted.
DeleteSchedule(d, e) ==
  Given(e \in Rows(d, "schedules"),
        IF SessionsOf(d, e) # {} \/ \E i \in Rows(d, "checkins") : d.checkins[i].schedule = e
        THEN Set2(d, {e}, "status", "CANCELLED", "package", Null)
        ELSE Drop(Drop(d, "snapshots", SnapshotsOf(d, e)), "schedules", {e}))

CreateSchedulePackage(d, y) ==
  Given(y \in Rows(d, "years") /\ Free(d, "packages") # {},
        Insert(d, "packages", [year |-> y, closed |-> FALSE]))

\* Here only a session that began counts as a trace: what has none goes with
\* its check-ins.
DeleteSchedulePackage(d, p) ==
  LET held == {e \in SchedulesIn(d, p) : Held(d, e)}
      gone == SchedulesIn(d, p) \ held
      kept == Set2(d, held, "status", "CANCELLED", "package", Null)
      emptied == Drop(Drop(kept, "snapshots", UNION {SnapshotsOf(d, e) : e \in gone}),
                      "sessions", UNION {SessionsOf(d, e) : e \in gone})
  IN Given(p \in Rows(d, "packages"),
           Drop(Drop(emptied, "schedules", gone), "packages", {p}))

Closed(d, p) ==
  LET over == {e \in SchedulesIn(d, p) : d.schedules[e].status # "CANCELLED"}
  IN Set(Set(d, "packages", {p}, "closed", TRUE), "schedules", over, "status", "COMPLETED")

ClosePackage(d, p) == Given(p \in Rows(d, "packages"), Closed(d, p))

\* evaluate_auto_close_package: committed by whatever looks at the package.
AutoClose(d, p, now) ==
  Given(/\ p \in Rows(d, "packages") /\ ~d.packages[p].closed /\ SchedulesIn(d, p) # {}
        /\ \A e \in SchedulesIn(d, p) : d.schedules[e].slot[2] + Grace <= now,
        Closed(d, p))

\* A file of <<class name, subject code, slot, proctor's code>>.  The times
\* are taken for UTC, those of the form for Jakarta's.
Stored(slot) == <<slot[1] + WibOffset, slot[2] + WibOffset>>

\* The semester of an import: an active one of the year, else its first.
ImportSemesters(d, y) ==
  LET active == {m \in SemestersOf(d, y) : d.semesters[m].status = "ACTIVE"}
      pick == IF active # {} THEN active ELSE SemestersOf(d, y)
  IN {m \in pick : \A o \in pick : m <= o}

ImportSchedules(d, p, file) ==
  LET y == d.packages[p].year
      add == [x \in file |-> [v \in Database |->
        UNION {CreateSchedule(v, p, y, m, k, s, Stored(x[3]), a) :
                 m \in ImportSemesters(d, y), k \in ClassNamed(d, y, x[1]),
                 s \in SubjectCoded(d, x[2]),
                 a \in IF x[4] = Null THEN {Null} ELSE TeacherCoded(d, x[4])}]]
  IN IF p \notin Rows(d, "packages") THEN {}
     ELSE IF d.packages[p].closed THEN {} ELSE Each(add, d)

-----------------------------------------------------------------------------
\* create_immutable_snapshot: once only, of a complete package of the
\* teacher's; the schedule is ready whatever became of it meanwhile.
ItemsOf(d, b) == {i \in Rows(d, "items") : d.items[i].package = b}
Frozen(d, b) == {d.items[i].question : i \in ItemsOf(d, b)}

CreateSnapshot(d, a, e, b) ==
  Given(/\ e \in Rows(d, "schedules") /\ d.schedules[e].teacher = a /\ SnapshotsOf(d, e) = {}
        /\ b \in Rows(d, "banks") /\ d.banks[b].owner = a /\ d.banks[b].status = "READY"
        /\ ItemsOf(d, b) # {} /\ Free(d, "snapshots") # {},
        Insert(Set(d, "schedules", {e}, "status", "READY"), "snapshots",
               [schedule |-> e, package |-> b, teacher |-> a, class |-> d.schedules[e].class,
                subject |-> d.schedules[e].subject, questions |-> Frozen(d, b)]))

\* Mutant of UnassignSnapshot: the schedule stays ready.
UnassignQuietly(d, a, e) ==
  Given(e \in Rows(d, "schedules") /\ d.schedules[e].teacher = a /\ ~Held(d, e),
        Drop(d, "snapshots", SnapshotsOf(d, e)))

\* unassign_teacher_assignment
UnassignSnapshot(d, a, e) ==
  Given(e \in Rows(d, "schedules") /\ d.schedules[e].teacher = a /\ ~Held(d, e),
        Set(Drop(d, "snapshots", SnapshotsOf(d, e)), "schedules", {e}, "status", "DRAFT"))

-----------------------------------------------------------------------------
Begun(d, e, now) == d.schedules[e].slot[1] <= now

OpenSession(d, e, now) ==
  Given(Free(d, "sessions") # {},
        Insert(d, "sessions", [schedule |-> e, slot |-> d.schedules[e].slot,
                               status |-> IF Begun(d, e, now) THEN "ACTIVE" ELSE "PLANNED"]))

ClassesOf(d, a) ==
  {d.enrolments[n].class : n \in {n \in InStatus(d, "enrolments", {"ACTIVE"}) :
                                   d.enrolments[n].student = a}}

\* One schedule of list_my_schedules: of a class the student is enrolled in,
\* or one he has been to, called off or not.
MySchedules(d, a) ==
  {e \in Rows(d, "schedules") :
     /\ ClassesOf(d, a) # {}
     /\ \/ d.schedules[e].status # "CANCELLED" /\ d.schedules[e].class \in ClassesOf(d, a)
        \/ \E i \in CheckinsOf(d, a) : d.checkins[i].schedule = e
        \/ \E i \in AttemptsOf(d, a) : d.sessions[d.attempts[i].session].schedule = e}

StudentPoll(d, a, e, now) ==
  IF e \notin MySchedules(d, a) THEN {}
  ELSE IF SessionsOf(d, e) = {}
       THEN IF d.schedules[e].status = "CANCELLED" THEN {} ELSE OpenSession(d, e, now)
       ELSE {Set(d, "sessions", {i}, "status", "ACTIVE") :
               i \in {i \in SessionsOf(d, e) : d.sessions[i].status # "ACTIVE" /\ Begun(d, e, now)}}

\* Mutant of ProctorPoll: a session is opened beside the one there is.
ProctorPollAgain(d, a, e, now) ==
  IF e \in Startable(d) /\ d.schedules[e].proctor = a
  THEN OpenSession(d, e, now) ELSE {}

\* One schedule of list_proctor_assignments.
ProctorPoll(d, a, e, now) ==
  IF e \in Startable(d) /\ d.schedules[e].proctor = a /\ SessionsOf(d, e) = {}
  THEN OpenSession(d, e, now) ELSE {}

\* validate_student_exam_eligibility
Eligible(d, a, e) ==
  /\ e \in Rows(d, "schedules") /\ a \in Rows(d, "accounts")
  /\ \E n \in ActiveEnrolments(d, a, d.schedules[e].year) :
       d.enrolments[n].class = d.schedules[e].class
=============================================================================
