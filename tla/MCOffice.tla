------------------------------- MODULE MCOffice -------------------------------
(***************************************************************************)
(* A small school seen in scenes: each behaviour starts from the records   *)
(* of one scene and makes the requests of that scene, two at a time.       *)
(***************************************************************************)
EXTENDS SchoolOffice, TLC

CONSTANT Scenes
VARIABLES scene,
          left     \* requests a behaviour may still make, Budget of them at first

MCIds ==
  [years |-> 1..3, semesters |-> 1..3, classes |-> 1..2, subjects |-> 1..2, accounts |-> 1..3,
   enrolments |-> 1..3, classSubjects |-> (1..2) \X (1..2), teaching |-> (1..2) \X (1..2),
   competency |-> (1..3) \X (1..2), packages |-> 1..1, schedules |-> 1..2, snapshots |-> 1..2,
   sessions |-> 1..2, checkins |-> 1..1, attempts |-> 1..1, questions |-> 1..2, banks |-> 1..2,
   items |-> 1..3, pins |-> 1..1, reports |-> 1..1, attendance |-> (1..1) \X (2..3)]

MCSpans == {<<4, 6>>, <<3, 5>>, <<5, 4>>}
MCSlots == {<<0, 1>>, <<1, 2>>}
MCTargets == {[t \in QuestionType |-> IF t = "PG" THEN 1 ELSE 0],
              [t \in QuestionType |-> IF t = "PG" THEN 2 ELSE 0]}

-----------------------------------------------------------------------------
Empty == [t \in Tables |-> [i \in Ids[t] |-> Null]]
Holding(d, t, rows) == [d EXCEPT ![t] = rows @@ @]

One == 1 :> [span |-> <<0, 2>>, status |-> "ACTIVE"]
Year1 == Holding(Holding(Empty, "years", One), "semesters", 1 :> [year |-> 1, status |-> "ACTIVE"])

Room(n) == [year |-> 1, name |-> n, active |-> TRUE]
Lesson(n) == [code |-> n, active |-> TRUE]
Pupil(f, n, k) == [NewStudent(f, n, k) EXCEPT !.className = k]
Exam(k, slot, st) ==
  [package |-> 1, year |-> 1, semester |-> 1, class |-> k, subject |-> 1, teacher |-> 1,
   proctor |-> 1, slot |-> slot, status |-> st]
In(a, k) == [student |-> a, class |-> k, year |-> 1, status |-> "ACTIVE"]
Sheet(q) == [owner |-> 1, type |-> "PG", content |-> q]

\* A class of two students, a subject and its teacher.
School ==
  LET rooms == Holding(Holding(Year1, "classes", 1 :> Room("A")), "subjects", 1 :> Lesson("M"))
      people == Holding(rooms, "accounts",
                        1 :> NewTeacher("7", "T") @@ 2 :> Pupil("1", Null, "A"))
      taught == Holding(Holding(people, "competency", <<1, 1>> :> [teacher |-> 1, subject |-> 1]),
                        "classSubjects", <<1, 1>> :> [class |-> 1, subject |-> 1])
  IN Holding(Holding(taught, "teaching", <<1, 1>> :> [class |-> 1, subject |-> 1, teacher |-> 1]),
             "enrolments", 1 :> In(2, 1))

Planned ==
  Holding(Holding(School, "packages", 1 :> [year |-> 1, closed |-> FALSE]),
          "schedules", 1 :> Exam(1, <<1, 2>>, "DRAFT"))

Banked ==
  Holding(Holding(Holding(Planned, "questions", 1 :> Sheet("a")), "items",
                  1 :> [package |-> 1, question |-> 1, order |-> 1]),
          "banks", 1 :> [owner |-> 1, target |-> [t \in QuestionType |-> IF t = "PG" THEN 1 ELSE 0],
                         status |-> "READY"])

Sat(d, st) == Holding(d, "sessions", 1 :> [schedule |-> 1, slot |-> <<1, 2>>, status |-> st])

Copy == [schedule |-> 1, package |-> 1, teacher |-> 1, class |-> 1, subject |-> 1,
         questions |-> {1}]

Seated ==
  Holding(Holding(Sat(Planned, "ACTIVE"), "accounts", 3 :> Pupil("2", "3", "A")),
          "enrolments", 2 :> In(3, 1))
Noted ==
  Holding(Holding(Seated, "reports", 1 :> [schedule |-> 1, status |-> "DRAFT", submitted |-> Null]),
          "attendance", <<1, 2>> :> [report |-> 1, student |-> 2, status |-> "IZIN"])

StartsOf ==
  [years |-> {Holding(Holding(d, "years", 2 :> [span |-> <<2, 4>>, status |-> "PLANNED"]),
                      "semesters", 2 :> [year |-> 2, status |-> "PLANNED"]) :
                d \in {Year1, Sat(Planned, "ACTIVE")}},
   enrol |-> {Holding(Holding(School, "classes", 2 :> Room("B")),
                      "accounts", 3 :> Pupil("2", "3", Null))},
   lessons |-> {School},
   students |-> {Holding(Sat(Planned, "COMPLETED"), "checkins", 1 :> [schedule |-> 1, student |-> 2])},
   teachers |-> {Banked, Holding(Banked, "schedules", 1 :> Null)},
   plan |-> {Holding(Planned, "classes", 2 :> Room("B")),
             Holding(Sat(Banked, "PLANNED"), "snapshots", 1 :> Copy),
             Holding(Planned, "schedules", 1 :> Exam(1, <<0, 1>>, "CANCELLED")
                                           @@ 2 :> Exam(1, <<0, 1>>, "READY")),
             Holding(Sat(Planned, "ACTIVE"), "schedules", 2 :> Exam(1, <<0, 1>>, "DRAFT"))},
   freeze |-> {Banked},
   report |-> {Seated, Noted},
   bank |-> {[Banked EXCEPT !.schedules = Empty.schedules, !.banks[1].status = "INCOMPLETE",
                            !.banks[1].target = [t \in QuestionType |-> IF t = "PG" THEN 2 ELSE 0]]}]

Budget == [years |-> 4, enrol |-> 3, lessons |-> 3, students |-> 3, teachers |-> 4,
           plan |-> 2, freeze |-> 3, bank |-> 3, report |-> 3]

MCStarts == UNION {StartsOf[s] : s \in Scenes}

MCInit == Init /\ scene \in Scenes /\ db \in StartsOf[scene] /\ left = Budget[scene]

Played(c) ==
  \/ scene = "years" /\ YearRequest(c)
  \/ scene = "enrol" /\ (EnrolmentRequest(c) \/ OnDeleteClass(c))
  \/ scene = "lessons" /\ (ClassRequest(c) \/ SubjectRequest(c))
  \/ scene = "students" /\ StudentRequest(c)
  \/ scene = "teachers" /\ TeacherRequest(c)
  \/ scene = "plan" /\ (ScheduleRequest(c) \/ OnMySchedules(c))
  \/ scene = "freeze" /\ (\/ SnapshotRequest(c) \/ ExamDayRequest(c)
                            \/ OnDeleteSchedule(c) \/ OnUpdateSchedule(c))
  \/ scene = "bank" /\ QuestionRequest(c)
  \/ scene = "report" /\ (ReportRequest(c) \/ OnIssueCode(c) \/ OnCheckIn(c))

MCNext ==
  /\ \/ left > 0 /\ left' = left - 1 /\ \E c \in Clerks : Played(c) /\ UNCHANGED now
     \/ (\E c \in Clerks : Finish(c)) /\ UNCHANGED left
     \/ scene \in {"plan", "freeze", "report"} /\ Tick /\ UNCHANGED left
  /\ UNCHANGED scene

MCSpec == MCInit /\ [][MCNext]_<<vars, scene, left>>

Symmetry == Permutations(Clerks)
=============================================================================
