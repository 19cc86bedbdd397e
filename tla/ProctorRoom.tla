----------------------------- MODULE ProctorRoom ------------------------------
(***************************************************************************)
(* The room of an exam: the code its proctor shows, the check-in of the    *)
(* students who have it, and the report (BAU) with their attendance, which *)
(* the proctor submits and may correct for a day; after that only a        *)
(* correction the administrator approves opens it again.                   *)
(***************************************************************************)
EXTENDS QuestionBank

CONSTANTS CodeLife,   \* how long a code is good for
          Day         \* how long a submitted report may be edited

\* get_qr_checkin_token: six digits taken from the signature, which another
\* exam may have had before.  An administrator (u = Null) may show any code.
IssueCode(d, u, e, pin, now) ==
  Given(/\ e \in Rows(d, "schedules")
        /\ LET s == d.schedules[e]
           IN u \in {Null, IF s.proctor # Null THEN s.proctor ELSE s.teacher},
        Put(d, "pins", pin, [schedule |-> e, expires |-> now + CodeLife]))

\* student_checkin, by the code on show.  Who is checked in already stays so.
CheckIn(d, a, e, now) ==
  Given(/\ \E p \in Rows(d, "pins") : d.pins[p].schedule = e /\ d.pins[p].expires >= now
        /\ Eligible(d, a, e) /\ \A i \in CheckinsOf(d, a) : d.checkins[i].schedule # e
        /\ Free(d, "checkins") # {},
        Insert(d, "checkins", [schedule |-> e, student |-> a]))

-----------------------------------------------------------------------------
ReportOf(d, e) == {r \in Rows(d, "reports") : d.reports[r].schedule = e}

WithReport(d, e) ==
  IF ReportOf(d, e) # {} THEN d
  ELSE Insert(d, "reports", [schedule |-> e, status |-> "DRAFT", submitted |-> Null])

Mark(d, r, a, st) ==
  Put(d, "attendance", <<r, a>>, [report |-> r, student |-> a, status |-> st])

\* auto_mark_student_present: whatever the report says, and however long ago
\* it was submitted.
MarkPresent(d, e, a) ==
  LET v == WithReport(d, e)
  IN Given(ReportOf(d, e) # {} \/ Free(d, "reports") # {},
           Mark(v, CHOOSE r \in ReportOf(v, e) : TRUE, a, "HADIR"))

\* validate_proctor_assignment_authorization; a schedule that is gone, or has
\* no proctor, lets every teacher pass.
MayProctor(d, u, e) == e \in Rows(d, "schedules") => d.schedules[e].proctor \in {Null, u}

ClassList(d, e) ==
  {d.enrolments[n].student : n \in {n \in InStatus(d, "enrolments", {"ACTIVE"}) :
                                     d.enrolments[n].class = d.schedules[e].class}}
Present(d, e) ==
  {d.checkins[i].student : i \in {i \in Rows(d, "checkins") : d.checkins[i].schedule = e}}
  \cup {d.attempts[i].student : i \in {i \in Rows(d, "attempts") :
                                       d.attempts[i].session \in SessionsOf(d, e)}}

\* Whoever is missing from the report is put in; an absence is taken back of
\* a student who turns out to have come.
Synced(d, r, e) ==
  LET Default(a) == IF a \in Present(d, e) THEN "HADIR" ELSE "ALPA"
      Stale(x) == \/ d.attendance[x] = Null
                  \/ d.attendance[x].status = "ALPA" /\ x[2] \in Present(d, e)
  IN [d EXCEPT !.attendance = [x \in DOMAIN @ |->
        IF x[1] = r /\ x[2] \in ClassList(d, e) /\ Stale(x)
        THEN [report |-> r, student |-> x[2], status |-> Default(x[2])] ELSE @[x]]]

Submitted(d, r, now) ==
  Put(d, "reports", r, [d.reports[r] EXCEPT !.status = "SUBMITTED", !.submitted = now])

\* Mutant of OpenReport: the attendance is made up anew.
OpenAnew(d, u, e, now) ==
  LET v == WithReport(d, e)
      r == CHOOSE r \in ReportOf(v, e) : TRUE
  IN Given(/\ e \in Rows(d, "schedules") /\ MayProctor(d, u, e)
           /\ ReportOf(d, e) # {} \/ Free(d, "reports") # {},
           Synced([v EXCEPT !.attendance = [x \in DOMAIN @ |-> Null]], r, e))

\* get_or_create_bau: a draft a day after the exam is submitted on the way.
OpenReport(d, u, e, now) ==
  LET v == WithReport(d, e)
      r == CHOOSE r \in ReportOf(v, e) : TRUE
      known == e \in Rows(d, "schedules")
      due == known /\ v.reports[r].status = "DRAFT" /\ now >= d.schedules[e].slot[2] + Day
      sent == IF due THEN Submitted(v, r, now) ELSE v
  IN Given(/\ MayProctor(d, u, e)
           /\ ReportOf(d, e) # {} \/ Free(d, "reports") # {},
           IF known THEN Synced(sent, r, e) ELSE sent)

Locked(d, r, now) ==
  d.reports[r].status = "SUBMITTED" /\ now - d.reports[r].submitted > Day

Editable(d, u, r, now) ==
  /\ r \in Rows(d, "reports") /\ MayProctor(d, u, d.reports[r].schedule)
  /\ ~Locked(d, r, now)

\* A class without students restricts nothing.
UpdateAttendance(d, u, r, a, st, now) ==
  Given(/\ Editable(d, u, r, now)
        /\ LET e == d.reports[r].schedule
           IN e \in Rows(d, "schedules") => ClassList(d, e) = {} \/ a \in ClassList(d, e),
        Mark(d, r, a, st))

SubmitReport(d, u, r, now) == Given(Editable(d, u, r, now), Submitted(d, r, now))

RequestCorrection(d, u, r) ==
  Given(/\ r \in InStatus(d, "reports", {"SUBMITTED"}) /\ MayProctor(d, u, d.reports[r].schedule),
        Set(d, "reports", {r}, "status", "CORRECTION_REQUESTED"))

\* A correction refused locks the report again, by the day it was submitted.
ResolveCorrection(d, r, approve) ==
  Given(r \in InStatus(d, "reports", {"CORRECTION_REQUESTED"}),
        Set(d, "reports", {r}, "status", IF approve THEN "DRAFT" ELSE "SUBMITTED"))
=============================================================================
