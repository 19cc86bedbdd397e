----------------------------- MODULE AcademicYear -----------------------------
(***************************************************************************)
(* AcademicService: the years of a school and their semesters, from        *)
(* PLANNED over ACTIVE and PENDING_ARCHIVE to ARCHIVED.  Each service      *)
(* gives the set of databases it may leave behind, none when it refuses.   *)
(***************************************************************************)
EXTENDS SchoolRecords

InStatus(d, t, S) == {i \in Rows(d, t) : d[t][i].status \in S}
SemestersOf(d, y) == {s \in Rows(d, "semesters") : d.semesters[s].year = y}

\* get_active_year, get_active_or_pending_year and get_active_semester take
\* any one of these.
ActiveYears(d) == InStatus(d, "years", {"ACTIVE"})
RunningYears(d) == InStatus(d, "years", {"ACTIVE", "PENDING_ARCHIVE"})
ActiveSemesters(d) ==
  {s \in InStatus(d, "semesters", {"ACTIVE"}) : d.semesters[s].year \in ActiveYears(d)}

Overlap(p, q) == p[1] < q[2] /\ p[2] > q[1]

\* verify_archive_checklist: no exam of the year is going on.
Checklist(d, y) ==
  \A e \in InStatus(d, "sessions", {"ACTIVE"}) :
    LET k == d.sessions[e].schedule
    IN k \in Rows(d, "schedules") => d.schedules[k].year # y

\* The semesters of y in one of the states from go over to the state to.
Move(d, y, from, to) ==
  Set(d, "semesters", {s \in SemestersOf(d, y) : d.semesters[s].status \in from}, "status", to)

-----------------------------------------------------------------------------
\* Mutant of CreateYear: the order of the dates is not tested.
CreateAnyYear(d, span) ==
  Given(Free(d, "years") # {}, Insert(d, "years", [span |-> span, status |-> "PLANNED"]))

CreateYear(d, span) ==
  Given(/\ span[1] < span[2]
        /\ \A y \in Rows(d, "years") : ~Overlap(d.years[y].span, span)
        /\ Free(d, "years") # {},
        Insert(d, "years", [span |-> span, status |-> "PLANNED"]))

DeleteYear(d, y) ==
  Given(y \in InStatus(d, "years", {"PLANNED"}),
        Drop(Drop(d, "semesters", SemestersOf(d, y)), "years", {y}))

CloseYear(d, y) ==
  Given(y \in ActiveYears(d) /\ Checklist(d, y),
        Move(Set(d, "years", {y}, "status", "PENDING_ARCHIVE"), y, {"ACTIVE"}, "PENDING_ARCHIVE"))

Archived(d, y, from) == Move(Set(d, "years", {y}, "status", "ARCHIVED"), y, from, "ARCHIVED")

FinalizeArchive(d, y) ==
  Given(y \in InStatus(d, "years", {"PENDING_ARCHIVE"}) /\ Checklist(d, y),
        Archived(d, y, {"PENDING_ARCHIVE"}))

\* The new year and, whatever its status, its first semester become active.
Opened(d, y) ==
  LET first == {s \in SemestersOf(d, y) : \A o \in SemestersOf(d, y) : s <= o}
  IN Set(Set(d, "years", {y}, "status", "ACTIVE"), "semesters", first, "status", "ACTIVE")

\* Mutant of Rollover: a year that is closed but not archived is left as it is.
RolloverActive(d, new) ==
  IF new \notin InStatus(d, "years", {"PLANNED"}) THEN {}
  ELSE IF ActiveYears(d) = {} THEN {Opened(d, new)}
  ELSE {Opened(Archived(d, y, {"ACTIVE"}), new) : y \in ActiveYears(d)}

Rollover(d, new) ==
  IF new \notin InStatus(d, "years", {"PLANNED"}) THEN {}
  ELSE IF RunningYears(d) = {} THEN {Opened(d, new)}
  ELSE {Opened(Archived(d, y, {"ACTIVE", "PENDING_ARCHIVE"}), new) :
          y \in {y \in RunningYears(d) : Checklist(d, y)}}

CreateSemester(d, y) ==
  Given(y \in Rows(d, "years") /\ Free(d, "semesters") # {},
        Insert(d, "semesters", [year |-> y, status |-> "PLANNED"]))

\* The active semester the query finds gives way if it is of the same year.
ActivateSemester(d, s) ==
  IF ~(s \in Rows(d, "semesters") /\ d.semesters[s].year \in ActiveYears(d)) THEN {}
  ELSE LET y == d.semesters[s].year
           Activated(gone) ==
             Set(Set(d, "semesters", gone \cap SemestersOf(d, y), "status", "ARCHIVED"),
                 "semesters", {s}, "status", "ACTIVE")
       IN IF d.semesters[s].status = "ACTIVE" THEN {d}
          ELSE IF ActiveSemesters(d) = {} THEN {Activated({})}
          ELSE {Activated({o}) : o \in ActiveSemesters(d)}
=============================================================================
