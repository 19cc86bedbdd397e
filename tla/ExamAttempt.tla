---------------------------- MODULE ExamAttempt ----------------------------
(***************************************************************************)
(* One student's attempt at one exam session: the exam_attempts row, the   *)
(* device_sessions rows that say which phone may write, the answers, and   *)
(* the status of the exam_sessions row.  The handlers that take the row    *)
(* lock of the attempt (SELECT ... FOR UPDATE) are one action each.  The   *)
(* ones that read the attempt without it (start_attempt, the sweep of      *)
(* expired attempts, the broadcast of extra time) are cut where another    *)
(* transaction can commit between their read and their write.              *)
(* The unit of time is that of the deadlines; sub-unit rounding is left    *)
(* out.                                                                    *)
(***************************************************************************)
EXTENDS Integers, FiniteSets

CONSTANTS
  Devices,        \* values of the X-Device-Id header, the student's phones
  Tokens,         \* session_token values, one per device_sessions row
  Questions,      \* questions of the package snapshot
  Values,         \* what a student may answer
  Null,           \* SQL NULL, and "no row"
  Start, End,     \* scheduled_start_at and scheduled_end_at of the session
  Duration,       \* duration_minutes
  HasEssay,       \* does the snapshot hold an essay question
  ExtraTimes,     \* extra_minutes a proctor may broadcast
  Commands,       \* the interventions that happen in this exam room
  MaxTime,        \* bound on the clock
  MaxBroadcasts   \* bound on the broadcasts of extra time

ASSUME TimeAssumption ==
  /\ Start \in Nat /\ End \in Nat /\ Start < End
  /\ Duration \in Nat \ {0}
  /\ ExtraTimes \subseteq Nat \ {0}
  /\ MaxTime \in Nat /\ MaxBroadcasts \in Nat
ASSUME RowAssumption ==
  /\ Null \notin Int \cup Tokens \cup Devices \cup Values
  /\ Null \notin [Questions -> Values \cup {Null}]
  /\ HasEssay \in BOOLEAN
  /\ Commands \subseteq {"lock", "unlock", "reset", "telemetry", "clear"}

VARIABLES
  now,          \* the server's clock
  session,      \* exam_sessions.status
  checkedIn,    \* an exam_checkins row of the student exists
  status,       \* exam_attempts.status, "ABSENT" when there is no row
  deadline,     \* exam_attempts.deadline_at
  remaining,    \* exam_attempts.remaining_seconds
  devStatus,    \* device_sessions.status by token, "ABSENT" when there is no row
  devOwner,     \* device_sessions.device_id by token
  answers,      \* student_answers by question
  evaluated,    \* the answers the evaluation rows were computed from, or Null
  held,         \* the device_session_token each phone keeps in memory
  start,        \* the start_attempt request each phone has in flight
  poll,         \* the GET /my-schedules request in flight
  broadcast,    \* the broadcast request in flight
  broadcasts    \* extra-time broadcasts so far

attemptRow == <<status, deadline, remaining>>
devices    == <<devStatus, devOwner>>
requests   == <<start, poll, broadcast, broadcasts>>
vars == <<now, session, checkedIn, attemptRow, devices, answers, evaluated,
          held, requests>>

Closed == {"SUBMITTED", "GRADING", "GRADED"}
Open   == {"IN_PROGRESS", "PAUSED"}
Time   == Int \cup {Null}

Idle(pc) == [pc |-> pc, remaining |-> Null]

TypeOK ==
  /\ now \in Nat
  /\ session \in {"PLANNED", "ACTIVE", "COMPLETED"}
  /\ checkedIn \in BOOLEAN
  /\ status \in {"ABSENT"} \cup Open \cup Closed
  /\ deadline \in Time /\ remaining \in Time
  /\ devStatus \in [Tokens -> {"ABSENT", "ACTIVE", "BLOCKED", "INVALIDATED"}]
  /\ devOwner \in [Tokens -> Devices \cup {Null}]
  /\ answers \in [Questions -> Values \cup {Null}]
  /\ evaluated \in [Questions -> Values \cup {Null}] \cup {Null}
  /\ held \in [Devices -> Tokens \cup {Null}]
  /\ start \in [Devices -> [pc : {"idle", "bind", "create", "device"}, remaining : {Null}]
                       \cup [pc : {"resume"}, remaining : Int]]
  /\ poll \in {"idle", "submit", "activate"}
  /\ broadcast \in [extra : Nat, deadline : Time, remaining : Time] \cup {Null}
  /\ broadcasts \in Nat

Init ==
  /\ now = 0
  /\ session = "PLANNED"
  /\ checkedIn = FALSE
  /\ status = "ABSENT" /\ deadline = Null /\ remaining = Null
  /\ devStatus = [t \in Tokens |-> "ABSENT"]
  /\ devOwner = [t \in Tokens |-> Null]
  /\ answers = [q \in Questions |-> Null]
  /\ evaluated = Null
  /\ held = [d \in Devices |-> Null]
  /\ start = [d \in Devices |-> Idle("idle")]
  /\ poll = "idle"
  /\ broadcast = Null
  /\ broadcasts = 0

-----------------------------------------------------------------------------
(* Helpers: the device_sessions table and the lock on the session row.     *)

Active == {t \in Tokens : devStatus[t] = "ACTIVE"}
Unused == {t \in Tokens : devStatus[t] = "ABSENT"}

\* Every ACTIVE device session of the attempt takes status s.
ActiveBecomes(s) ==
  [t \in Tokens |-> IF devStatus[t] = "ACTIVE" THEN s ELSE devStatus[t]]

\* Every device session of the attempt is invalidated, whatever its status.
AllInvalid ==
  [t \in Tokens |-> IF devStatus[t] = "ABSENT" THEN "ABSENT" ELSE "INVALIDATED"]

\* Mutant of IndexAdmits: no index.
NoIndex(table) == TRUE

\* The partial unique index uq_active_device_per_attempt lets a row be ACTIVE
\* only when the table given has no other ACTIVE row.
IndexAdmits(table) == \A t \in Tokens : table[t] # "ACTIVE"

\* A new ACTIVE device session t of phone d, in the table given.
InsertDevice(table, t, d) ==
  /\ IndexAdmits(table)
  /\ devStatus' = [table EXCEPT ![t] = "ACTIVE"]
  /\ devOwner' = [devOwner EXCEPT ![t] = d]
  /\ held' = [held EXCEPT ![d] = t]

\* start_attempt holds the row lock of the session from its first statement
\* to the commit of the branch it takes.
SessionFree == \A d \in Devices : start[d].pc \in {"idle", "device"}

Least(a, b) == IF a < b THEN a ELSE b

NewDeadline == IF End > now THEN Least(now + Duration, End) ELSE now + Duration

-----------------------------------------------------------------------------
(* The session and the clock.                                              *)

Tick ==
  /\ now < MaxTime
  /\ now' = now + 1
  /\ UNCHANGED <<session, checkedIn, attemptRow, devices, answers, evaluated,
                 held, requests>>

\* Internal command /activate-session.
ActivateSession ==
  /\ SessionFree
  /\ session = "PLANNED"
  /\ session' = "ACTIVE"
  /\ UNCHANGED <<now, checkedIn, attemptRow, devices, answers, evaluated, held,
                 requests>>

\* POST /checkin with a valid QR token or PIN.
CheckIn ==
  /\ ~checkedIn
  /\ checkedIn' = TRUE
  /\ UNCHANGED <<now, session, attemptRow, devices, answers, evaluated, held,
                 requests>>

-----------------------------------------------------------------------------
(* start_attempt: lock the session, read the attempt without a lock, then  *)
(* take one of three branches.                                             *)

\* Mutant of Branch: any PAUSED attempt is resumed from the saved time.
BranchOnStatus ==
  IF status = "ABSENT" THEN Idle("create")
  ELSE IF status = "PAUSED" THEN [pc |-> "resume", remaining |-> remaining]
       ELSE Idle("bind")

Branch ==
  IF status = "ABSENT" THEN Idle("create")
  ELSE IF status = "PAUSED" /\ remaining # Null
       THEN [pc |-> "resume", remaining |-> remaining]
       ELSE Idle("bind")

BeginStart(d) ==
  /\ start[d].pc = "idle" /\ SessionFree
  /\ now >= Start /\ checkedIn
  /\ start' = [start EXCEPT ![d] = Branch]
  /\ UNCHANGED <<now, session, checkedIn, attemptRow, devices, answers,
                 evaluated, held, poll, broadcast, broadcasts>>

\* Mutant of StartResume: the resumed attempt gets its full duration.
StartAfresh(d, t) ==
  /\ start[d].pc = "resume"
  /\ InsertDevice(ActiveBecomes("INVALIDATED"), t, d)
  /\ deadline' = now + Duration
  /\ remaining' = Null
  /\ status' = "IN_PROGRESS"
  /\ session' = "ACTIVE"
  /\ start' = [start EXCEPT ![d] = Idle("idle")]
  /\ UNCHANGED <<now, checkedIn, answers, evaluated, poll, broadcast,
                 broadcasts>>

\* Resume after a device reset: a fresh device session replaces the active
\* one and the deadline is rebuilt from the seconds read in BeginStart.
StartResume(d, t) ==
  /\ start[d].pc = "resume"
  /\ InsertDevice(ActiveBecomes("INVALIDATED"), t, d)
  /\ deadline' = now + start[d].remaining
  /\ remaining' = Null
  /\ status' = "IN_PROGRESS"
  /\ session' = "ACTIVE"
  /\ start' = [start EXCEPT ![d] = Idle("idle")]
  /\ UNCHANGED <<now, checkedIn, answers, evaluated, poll, broadcast,
                 broadcasts>>

\* Mutant of StartBind: the attempt is put back in progress, too.
BindRevives(d, t) ==
  /\ start[d].pc = "bind"
  /\ Active = {}
  /\ InsertDevice(devStatus, t, d)
  /\ status' = "IN_PROGRESS"
  /\ session' = "ACTIVE"
  /\ start' = [start EXCEPT ![d] = Idle("idle")]
  /\ UNCHANGED <<now, checkedIn, deadline, remaining, answers, evaluated, poll,
                 broadcast, broadcasts>>

\* Any other existing attempt without an active device session: bind one.
StartBind(d, t) ==
  /\ start[d].pc = "bind"
  /\ Active = {}
  /\ InsertDevice(devStatus, t, d)
  /\ session' = "ACTIVE"
  /\ start' = [start EXCEPT ![d] = Idle("idle")]
  /\ UNCHANGED <<now, checkedIn, attemptRow, answers, evaluated, poll,
                 broadcast, broadcasts>>

\* ... with an active one: its token goes back to the phone it is bound to,
\* any other phone is turned away.  Neither path commits, so the session's
\* new status is lost.
StartRebind(d) ==
  /\ start[d].pc = "bind"
  /\ \E t \in Active :
       held' = IF devOwner[t] = d THEN [held EXCEPT ![d] = t] ELSE held
  /\ start' = [start EXCEPT ![d] = Idle("idle")]
  /\ UNCHANGED <<now, session, checkedIn, attemptRow, devices, answers,
                 evaluated, poll, broadcast, broadcasts>>

\* The new attempt becomes visible, and the session lock is released, with
\* the commit inside auto_mark_student_present: the device session follows
\* in a transaction of its own.
StartCreate(d) ==
  /\ start[d].pc = "create"
  /\ status' = "IN_PROGRESS"
  /\ deadline' = NewDeadline
  /\ session' = "ACTIVE"
  /\ start' = [start EXCEPT ![d] = Idle("device")]
  /\ UNCHANGED <<now, checkedIn, remaining, devices, answers, evaluated, held,
                 poll, broadcast, broadcasts>>

StartDevice(d, t) ==
  /\ start[d].pc = "device"
  /\ InsertDevice(devStatus, t, d)
  /\ start' = [start EXCEPT ![d] = Idle("idle")]
  /\ UNCHANGED <<now, session, checkedIn, attemptRow, answers, evaluated, poll,
                 broadcast, broadcasts>>

\* A request that ends in a rollback: no snapshot, the attendance document
\* could not be written, the unique index refused the device session, or the
\* connection was lost.  What was committed before stays.
StartFails(d) ==
  /\ start[d].pc # "idle"
  /\ start' = [start EXCEPT ![d] = Idle("idle")]
  /\ UNCHANGED <<now, session, checkedIn, attemptRow, devices, answers,
                 evaluated, held, poll, broadcast, broadcasts>>

-----------------------------------------------------------------------------
(* Writing and handing in.                                                 *)

\* What submit_attempt does to an attempt it finds open: evaluate every
\* answer, close, and invalidate the active device session.
Close ==
  /\ status' = IF HasEssay THEN "GRADING" ELSE "GRADED"
  /\ evaluated' = answers
  /\ devStatus' = ActiveBecomes("INVALIDATED")
  /\ UNCHANGED <<deadline, remaining, devOwner>>

Expired == deadline # Null /\ now > deadline

\* Mutant of AutosaveAnswer: any token the phone has ever been given will do.
AutosaveAnyToken(d, q, v) ==
  /\ held[d] # Null
  /\ status = "IN_PROGRESS" /\ ~Expired
  /\ answers' = [answers EXCEPT ![q] = v]
  /\ UNCHANGED <<now, session, checkedIn, attemptRow, devices, evaluated, held,
                 requests>>

\* One answer, or Null: a request with neither option nor text erases it.
AutosaveAnswer(d, q, v) ==
  /\ held[d] # Null
  /\ status = "IN_PROGRESS" /\ ~Expired
  /\ held[d] \in Active
  /\ answers' = [answers EXCEPT ![q] = v]
  /\ UNCHANGED <<now, session, checkedIn, attemptRow, devices, evaluated, held,
                 requests>>

\* Past the deadline the answer is refused and the attempt handed in, before
\* the token is looked at.
AutosaveLate(d) ==
  /\ held[d] # Null
  /\ status = "IN_PROGRESS" /\ Expired
  /\ Close
  /\ UNCHANGED <<now, session, checkedIn, answers, held, requests>>

SubmitAttempt ==
  /\ status \in Open
  /\ Close
  /\ UNCHANGED <<now, session, checkedIn, answers, held, requests>>

-----------------------------------------------------------------------------
(* GET /my-schedules: the sweep of expired attempts, then the session is   *)
(* made ACTIVE whenever its start has passed.                              *)

\* Mutant of Due: only the attempt's own deadline counts.
DeadlinePassed == deadline # Null /\ now >= deadline

\* The sweep counts the last moment as past, the autosave does not.
Due == now >= End \/ (deadline # Null /\ now >= deadline)

\* The session is COMPLETED past its end; the attempt is read without a lock.
PollSweep ==
  /\ poll = "idle"
  /\ now >= End /\ session # "COMPLETED" => SessionFree
  /\ session' = IF now >= End THEN "COMPLETED" ELSE session
  /\ poll' = IF status \in Open /\ Due THEN "submit" ELSE "activate"
  /\ UNCHANGED <<now, checkedIn, attemptRow, devices, answers, evaluated, held,
                 start, broadcast, broadcasts>>

\* submit_attempt locks the row, but the attributes it tests are those the
\* sweep loaded: the attempt is handed in whatever its status is by now.
PollSubmit ==
  /\ poll = "submit"
  /\ Close
  /\ poll' = "activate"
  /\ UNCHANGED <<now, session, checkedIn, answers, held, start, broadcast,
                 broadcasts>>

PollActivate ==
  /\ poll = "activate"
  /\ now >= Start /\ session # "ACTIVE" => SessionFree
  /\ session' = IF now >= Start THEN "ACTIVE" ELSE session
  /\ poll' = "idle"
  /\ UNCHANGED <<now, checkedIn, attemptRow, devices, answers, evaluated, held,
                 start, broadcast, broadcasts>>

-----------------------------------------------------------------------------
(* Interventions of the proctor and of the lock-down app.                  *)

ProctorLock ==
  /\ "lock" \in Commands
  /\ status = "IN_PROGRESS"
  /\ status' = "PAUSED"
  /\ remaining' = Null
  /\ devStatus' = ActiveBecomes("BLOCKED")
  /\ UNCHANGED <<now, session, checkedIn, deadline, devOwner, answers,
                 evaluated, held, requests>>

\* Mutant of ProctorUnlock: the command does not ask for a PAUSED attempt.
UnlockAny ==
  /\ "unlock" \in Commands
  /\ status # "ABSENT"
  /\ status' = "IN_PROGRESS"
  /\ \/ UNCHANGED devStatus
     \/ \E t \in Tokens :
          /\ devStatus[t] = "BLOCKED"
          /\ IndexAdmits(devStatus)
          /\ devStatus' = [devStatus EXCEPT ![t] = "ACTIVE"]
  /\ UNCHANGED <<now, session, checkedIn, deadline, remaining, devOwner,
                 answers, evaluated, held, requests>>

\* A BLOCKED device session, when there is one, is activated again; when the
\* index refuses it the whole command is rolled back.
ProctorUnlock ==
  /\ "unlock" \in Commands
  /\ status = "PAUSED"
  /\ status' = "IN_PROGRESS"
  /\ \/ /\ \A t \in Tokens : devStatus[t] # "BLOCKED"
        /\ UNCHANGED devStatus
     \/ \E t \in Tokens :
          /\ devStatus[t] = "BLOCKED"
          /\ IndexAdmits(devStatus)
          /\ devStatus' = [devStatus EXCEPT ![t] = "ACTIVE"]
  /\ UNCHANGED <<now, session, checkedIn, deadline, remaining, devOwner,
                 answers, evaluated, held, requests>>

\* Mutant of ProctorResetDevice: the deadline is not cleared.
ResetKeepsDeadline ==
  /\ "reset" \in Commands
  /\ status # "ABSENT"
  /\ status' = "PAUSED"
  /\ devStatus' = ActiveBecomes("INVALIDATED")
  /\ IF status = "IN_PROGRESS" /\ deadline # Null /\ deadline > now
       THEN remaining' = deadline - now
       ELSE UNCHANGED remaining
  /\ UNCHANGED <<now, session, checkedIn, deadline, devOwner, answers,
                 evaluated, held, requests>>

\* The clock of an attempt in progress is stopped; the status becomes PAUSED
\* whatever it was.
ProctorResetDevice ==
  /\ "reset" \in Commands
  /\ status # "ABSENT"
  /\ status' = "PAUSED"
  /\ devStatus' = ActiveBecomes("INVALIDATED")
  /\ IF status = "IN_PROGRESS" /\ deadline # Null /\ deadline > now
       THEN remaining' = deadline - now /\ deadline' = Null
       ELSE UNCHANGED <<remaining, deadline>>
  /\ UNCHANGED <<now, session, checkedIn, devOwner, answers, evaluated, held,
                 requests>>

\* POST /students/{id}/clear-sessions of the school's administrator: every device
\* session of the student is invalidated, without a lock on the attempt, and the
\* check-in is deleted.
ClearSessions ==
  /\ "clear" \in Commands
  /\ devStatus' = AllInvalid
  /\ checkedIn' = FALSE
  /\ UNCHANGED <<now, session, attemptRow, devOwner, answers, evaluated, held,
                 requests>>

\* Telemetry that reports SPLIT_SCREEN, APP_SWITCH or UNPINNED.
TelemetryViolation ==
  /\ "telemetry" \in Commands
  /\ status # "ABSENT"
  /\ status' = "PAUSED"
  /\ UNCHANGED <<now, session, checkedIn, deadline, remaining, devices,
                 answers, evaluated, held, requests>>

\* Extra time: the attempt is read without a lock, then both clocks are
\* written back, extended.
BroadcastRead ==
  /\ broadcast = Null /\ broadcasts < MaxBroadcasts
  /\ status \in Open
  /\ \E x \in ExtraTimes :
       broadcast' = [extra |-> x, deadline |-> deadline, remaining |-> remaining]
  /\ broadcasts' = broadcasts + 1
  /\ UNCHANGED <<now, session, checkedIn, attemptRow, devices, answers,
                 evaluated, held, start, poll>>

BroadcastWrite ==
  /\ broadcast # Null
  /\ deadline' = IF broadcast.deadline # Null
                   THEN broadcast.deadline + broadcast.extra ELSE deadline
  /\ remaining' = IF broadcast.remaining # Null
                    THEN broadcast.remaining + broadcast.extra ELSE remaining
  /\ broadcast' = Null
  /\ UNCHANGED <<now, session, checkedIn, status, devices, answers, evaluated,
                 held, start, poll, broadcasts>>

\* Grading is the subject of ExamGrading: finalize_evaluation and the end of
\* the background job set GRADED on any attempt that has evaluation rows.
MarkGraded ==
  /\ evaluated # Null
  /\ status' = "GRADED"
  /\ UNCHANGED <<now, session, checkedIn, deadline, remaining, devices, answers,
                 evaluated, held, requests>>

-----------------------------------------------------------------------------
StartStep(d) ==
  \/ \E t \in Unused : StartResume(d, t) \/ StartBind(d, t) \/ StartDevice(d, t)
  \/ StartRebind(d)
  \/ StartCreate(d)
  \/ StartFails(d)

PollStep == PollSweep \/ PollSubmit \/ PollActivate

Student ==
  \/ CheckIn
  \/ \E d \in Devices : BeginStart(d)
  \/ \E d \in Devices, q \in Questions, v \in Values \cup {Null} : AutosaveAnswer(d, q, v)
  \/ \E d \in Devices : AutosaveLate(d)
  \/ SubmitAttempt

Staff ==
  \/ ActivateSession
  \/ ProctorLock \/ ProctorUnlock \/ ProctorResetDevice \/ ClearSessions
  \/ TelemetryViolation
  \/ BroadcastRead
  \/ MarkGraded

Next ==
  \/ Tick
  \/ Student
  \/ Staff
  \/ \E d \in Devices : StartStep(d)
  \/ PollStep
  \/ BroadcastWrite

Spec == Init /\ [][Next]_vars

(* The server finishes the requests it has accepted and the clock runs; the *)
(* wait for the row lock of the session is a queue, hence strong fairness.  *)
(* Nothing makes a student ask for his schedules: his app does so when the  *)
(* page is opened, on "Refresh Data" and after a check-in, on no timer.     *)
ServerFairness ==
  /\ WF_vars(Tick)
  /\ \A d \in Devices : WF_vars(StartStep(d))
  /\ WF_vars(BroadcastWrite)
  /\ WF_vars(PollSubmit) /\ SF_vars(PollActivate)

ServerSpec == Spec /\ ServerFairness

-----------------------------------------------------------------------------
(* Properties.                                                             *)

\* At most one phone can write at a time: the rule the partial unique index
\* of device_sessions enforces under every interleaving of start_attempt, of
\* the lock and unlock commands and of the mid-way commit of a new attempt.
OneActiveDevice == \A t, u \in Active : t = u

\* A phone never holds the token of a session bound to another phone, however
\* the start requests of two phones interleave.
TokenBoundToDevice ==
  \A d \in Devices : held[d] # Null =>
    devStatus[held[d]] # "ABSENT" /\ devOwner[held[d]] = d

\* The promise of AnswerSheet: a single pen, which the ACTIVE session holds.
Holder  == IF Active = {} THEN Null ELSE CHOOSE t \in Active : TRUE
Revoked == {t \in Tokens : devStatus[t] = "INVALIDATED"}
Sheet == INSTANCE AnswerSheet WITH
           sheet <- answers, writing <- status = "IN_PROGRESS",
           holder <- Holder, revoked <- Revoked
OnePen == Sheet!Spec

\* Until extra time is broadcast, an attempt is timed by its deadline or by the
\* time saved at a device reset, never by both (docstring of
\* proctor_reset_device); a broadcast that races a reset breaks this.
OneClock == broadcasts = 0 => deadline = Null \/ remaining = Null

\* Changing phones through a device reset never gives a student more time than
\* was left, in any order with autosaves, submissions and sweeps.
TimeLeft == IF remaining # Null THEN remaining ELSE deadline - now
NoTimeGained == [][status # "ABSENT" => TimeLeft' <= TimeLeft]_vars

\* "Frozen upon submit": once evaluated, the answers never change again.
AnswersFrozenUponSubmit == [][evaluated # Null => answers' = answers]_vars

\* "Strict timer": an attempt in progress always runs against a deadline, though
\* resets and telemetry pause it and start requests act on a stale read.
TimerArmed == status = "IN_PROGRESS" => deadline # Null

\* A student who goes on looking at his schedules is handed in once the exam is
\* over, in whatever order locks, unlocks, extra time and other requests commit
\* with his.  Of one who does not look again nothing is promised: the sweep
\* runs in the student's own request only.
ReturningIsHandedIn ==
  []<><<PollSweep>>_vars =>
    (now >= End /\ status \in Open) ~> status \in Closed
=============================================================================
