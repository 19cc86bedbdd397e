# LockXam: a TLA+ model

LockXam runs school examinations: students sit an exam on a locked-down phone,
proctors watch the room, a language model drafts the grades of essays, and
teachers finalize them; around that, a school's office plans years, classes and
exams, and a superadministrator licenses the schools.  The server is a FastAPI
application (`src/app`) over PostgreSQL; the student app and the web views are in
`src/frontend`.

This directory holds TLA+ modules for the parts of the system where several
actors meet on the same data, the TLC configurations that check them on small
instances, and proofs for every value of the constants.

## 1. The system

### Components, their state and their operations

| Component | State | Operations | Modelled in |
|---|---|---|---|
| Exam attempt engine (`app/services/exam/exam_service.py`, `app/api/exam.py`, `app/api/exam_command.py`) | `exam_sessions.status`, `exam_attempts`, `device_sessions`, `student_answers` | activate session, check in, start / resume, autosave, flush, submit, sweep of expired attempts | `ExamAttempt` |
| Proctoring commands and broadcasts (`exam_service.py`, `app/api/proctor.py`, `app/api/school_student.py`) | the same rows | lock, unlock, reset device, clear sessions, telemetry, extra time | `ExamAttempt` |
| Essay grading (`exam_service.py`, `app/api/exam.py`, `app/api/teacher.py`) | `exam_answer_evaluations`, `ai_grading_event_logs`, `final_score`, background tasks in memory | AI callback, background job, regrade, finalize | `ExamGrading` |
| Student app (`frontend/src/views/student/StudentCbtEngineView.tsx`, `cbtIndexedDB.ts`, `studentExam.ts`) | answers on the screen, IndexedDB, debounce timers, token | open, answer, mark, autosave, flush, submit | `AnswerSync` |
| Accounts, login, user sessions (`app/services/security`, `app/core/dependencies.py`, `app/api/auth.py`) | `auth_accounts`, `user_sessions`, `login_attempts` | login with lock-out, refresh with rotation, idle time-out, logout, revocation, change and reset of passwords, admission of requests | `UserSessions`, `Access` |
| Licensing (`app/services/license`) | `activation_keys`, `school_licenses`, `renewal_requests` | generate, cancel, activate, ask for and process a renewal, toggle | `Licensing`, `Access` |
| Schools, staff, students (`app/services/school`) | `schools`, accounts and profiles | schools; accounts, imports, deletion, resets | `Licensing`; `Members` |
| Academic administration (`app/services/academic`) | years, semesters, classes, subjects, enrolments, assignments | create, close, archive, roll over; assign, enrol, import, delete | `AcademicYear`, `ClassStructure` |
| Schedules, packages, snapshots (`app/services/academic`) | `exam_schedules`, their packages, `exam_package_snapshots`, `exam_sessions` | plan, move, cancel, import, close; freeze and release questions; open a session by polling | `ExamSchedules` |
| Question packages and bank (`app/services/teacher`) | questions, packages, their items | edit, order, replace, publish, revert, import | `QuestionBank` |
| Check-in PIN and QR (`app/api/proctor.py`, `app/api/exam.py`) | codes with an expiry, check-ins | issue, check in | `ProctorRoom` |
| Proctor report (BAU), attendance (`app/services/teacher/proctor_service.py`) | report, one attendance row per student | open, attendance, submit, correction | `ProctorRoom` |
| AI grading services (`app/services/ai/grading`) | `grading_runs` | start, cancel the previous run, batches, close | `PostExamGrading` |
| Assessment history and retrieval (`app/services/ai`) | `assessment_histories`, embeddings | capture a decision, supersede, retrieve | `AssessmentMemory` |
| AI governance (`app/services/ai/governance`, `ai_management_service.py`) | candidates, datasets, settings | | no: see section 7 |
| Web views, migrations, start-up | none of their own | | no |

### How they interact

A student's phone calls the engine over HTTP and holds one secret, the
`device_session_token`, besides the tokens of its login. It keeps every answer in
IndexedDB, sends each change once, and sends all of them again when the attempt is
handed in. Proctor, AI service, teacher and background tasks reach the same rows
through other requests. The engine hands an attempt to grading when it is submitted
(`submit_attempt` writes one evaluation per question); grading gives back `GRADED` and
`final_score`, and a finalization leaves an `assessment_histories` row that later
gradings are shown.  The office writes the schedule an exam session is made for; the
first poll makes the session.  Every request passes `get_current_user`, which asks the
user session, the account and the school's status.

Everything is coordinated by the database: row locks (`SELECT ... FOR UPDATE`) held to
the next commit where a service takes them, unique indexes and foreign keys, and what
each request has read before.  Only the exam engine and grading take locks; the
office, the licences and the grading runs take none.

### What is hard here

* Some handlers commit in the middle: `start_attempt` through
  `auto_mark_student_present`, the grading job after each essay, a grading run after
  each step.  A lock taken before that commit does not protect what follows.
* Some handlers read without a lock and act on it later: `start_attempt`, the sweep,
  the extra-time broadcast, a login, every service of the office and of the licences.
  SQLAlchemy's identity map makes a later locking query return the attributes loaded
  earlier, and a flush writes changed columns only.
* Callbacks arrive late, twice, and out of order; the language model may not
  answer; the process may restart, and the queue of jobs with it.
* Autosaves overtake each other, get lost without being repeated, and race the flush
  that precedes a submission; the page may be reloaded at any time.
* Finalization takes row locks in the opposite order of callback and job.
* The clock passes a deadline between any two of these steps: of an attempt, a code, a
  report that locks, a package that closes itself, a key, a lock-out.
* The office reaches the same rows along many ways -- a student comes into a class
  through six endpoints -- and each repeats, or forgets, the tests of the others.

`PROJECT.json` lists each such hazard at its line, with the properties that
would catch it.

## 2. The modules

`AnswerSheet` -- what the engine promises: one sheet, at most one device session
that may write on it, writes only while the attempt is in progress, and a revoked
device session never writes again.

`ExamAttempt` -- one student's attempt at one session.

| Variable | Code |
|---|---|
| `now` | the server's clock, in units of the deadlines |
| `session` | `exam_sessions.status` |
| `status`, `deadline`, `remaining` | `exam_attempts.status`, `deadline_at`, `remaining_seconds` |
| `devStatus`, `devOwner` | `device_sessions.status`, `device_id`, by `session_token` |
| `answers` | `student_answers` |
| `evaluated` | the answers the evaluation rows were computed from |
| `held` | the token each phone keeps in memory |
| `start`, `poll`, `broadcast` | requests cut in two: what they read and where they stand |

A handler that locks the attempt's row and commits once is one action
(`AutosaveAnswer`, `SubmitAttempt`, `ProctorLock`, ...), and so is the administrator's
`ClearSessions`, which writes without a lock and reads nothing it relies on.  A handler
that does not is cut where another transaction can commit: `BeginStart` reads, and
`StartResume`, `StartBind`, `StartRebind` or `StartCreate` + `StartDevice` write;
`PollSweep` reads, `PollSubmit` hands in on the status read, `PollActivate` sets
the session's status; `BroadcastRead` and `BroadcastWrite`.  `start_attempt` holds
the session row from its first statement to its first commit (`SessionFree`).  The
partial unique index `uq_active_device_per_attempt` is `IndexAdmits`; where it
refuses a row the whole request is rolled back (`StartFails`).

`ExamGrading` -- grading of one attempt.  `eval` is the table of evaluations,
`events` the log of AI events, `final` the scores `final_score` was computed from.
`cb`, `fin` and `job` are the transactions in flight; who holds which row lock
follows from them (`AttemptFree`, `EvalFree`).  A job remembers the rows it loaded
(`view`, `loaded`): `Flush` writes over the row of *now* only the columns it
changed against the row of *then*.  Faults are crashes, a model that does not
answer, and the database aborting one side of a deadlock.

`AnswerSync` -- how the student app gets the answers to the server.

| Variable | Code |
|---|---|
| `status`, `sheet`, `holder`, `owner`, `revoked` | the server: the attempt's status, `student_answers`, and the device sessions |
| `stage` | whether the page is open, and where `executeSubmit` stands |
| `token` | `activeDeviceToken` (`studentExam.ts`) |
| `screen`, `rendered` | the state `answers`, and the one the countdown's callback has captured |
| `store` | the rows of IndexedDB |
| `typing` | `debounceTimersRef` |
| `net` | autosaves and flushes under way, each with the answers still to be saved |
| `settled` | no code: the questions for which the last flush carries what the screen shows and nothing else is under way |

`saveAnswer` is `Choose`, `Type` and `DebounceFires`; `toggleFlagged`
is the same function without an option or a text, and so erases the answer on the
server.  `executeSubmit` is cut at its two awaits: `PressSubmit` or `TimeIsUp`,
then `FlushAnswered` or `FlushFails`, then `SubmitAttempt` or `SubmitFails`.  On the
server `flush_all_answers` is a loop of autosaves with a transaction each:
`SaveAnswer` takes one answer out of a request, in any order with those of other
requests, and writes it if the token is that of the ACTIVE session.  The server part
implements `AnswerSheet`, the same abstract specification `ExamAttempt` implements:
what the two modules say of the server agrees there.

`Licensing`, `UserSessions`, `Access` -- who may work with the system.

| Variable | Code |
|---|---|
| `today` | the clock, in days |
| `school`, `key`, `license`, `renewal` | `schools`, `activation_keys`, `school_licenses` (a sequence per school, in the order of `created_at`), `renewal_requests` |
| `work` | what each request on licences has read, until its commit |
| `account`, `session`, `attempts` | `auth_accounts`, `user_sessions`, `login_attempts` |
| `login`, `change` | logins and changes of a password under way, with what each has read |
| `busy` | students with a row in `exam_checkins` |

A service of licences is `...Begin`, which reads and decides, and `...Commit`, which
writes over what the rows hold by then (`CancelBegin` / `CancelCommit`, and so on).  A
login is `LoginBegin` (password, licence, failure counter), `LoginLocks` (the store of
`last_login`, which holds the account's row until the end, and then the search for
other sessions) and `LoginCommits` or `LoginFails`.  `Access` adds to each operation the
session that asks for it (`By`, `ByAdminOf`), so that a suspension takes the
administrator's requests away while those admitted before go on.

`SchoolRecords` -- the database of a school: `db` maps each table to its rows, `work` the
changes each request is going to commit, `raced` the tables that a request has written
after another had overtaken it.  `Begin(c, v)` stores the difference between the
database a service has read and the one it wants to leave (`v`); `Commit(c)` writes it
as SQLAlchemy does -- inserts, deletions, changed columns -- over the database of *then*,
with the foreign keys (`RESTRICT`, `CASCADE`, `SET NULL`) and unique constraints of the
schema, and rolls back when one is broken.

`AcademicYear`, `ClassStructure`, `Members`, `ExamSchedules`, `QuestionBank`,
`ProctorRoom` -- the services, each an operator from a database and arguments to the set
of databases it may leave: the empty set when it refuses, more than one where a query
takes any one of several rows.  `SchoolOffice` composes them: an action per endpoint
(`OnRollover`, `OnEnroll`, `OnFinalizeAssignment`, ...), the commits, and the clock.

`AssessmentMemory` -- the versions of a teacher's decision on one evaluation
(`Capture`) and which of them retrieval shows (`Candidates`).  `PostExamGrading` -- the
grading runs of an exam.

| Variable | Code |
|---|---|
| `schedule`, `run`, `attempt` | `exam_schedules.status`, `grading_runs.status`, `exam_attempts.status` |
| `answer` | `student_answers` of the essays: no row, a blank row, or a text |
| `eval`, `memory` | `exam_answer_evaluations`, `assessment_histories` with their embeddings |
| `taught` | no code: the score of the teacher's last decision on a text |
| `work` | where the request of each run stands, and what it has read |

A run commits many times: it is found or created in four steps (`StartLocked`,
`FindPrevious`, `CancelPrevious`, `CreateRun`), asks the model for each question
(`AskModel`), looks whether it was cancelled (`CheckCancelled`) before it writes
(`WriteBatch`), and closes in two steps (`ReadVerdicts`, `CloseRun`).

`MCExamAttempt`, `MCExamGrading`, `MCAnswerSync`, `MCAccess`, `MCOffice`, `MCPostExam`
-- instances for TLC.  The last three play *scenes*: a starting database (or cast) and
the requests of one area of the system, so that areas that share no rows are not
multiplied with each other.

`ExamAttemptProofs`, `ExamGradingProofs`, `AnswerSyncProofs`, `AccessProofs`,
`PostExamProofs` -- theorems.  `SchoolServicesProofs`, `SchoolExamsProofs`,
`SchoolOfficeProofs` -- those of the office: about its tables and each service, about what
the services keep of the exams, about the requests that overtake each other.

The specifications of the exam share the attempt's status.  In `ExamAttempt` grading is
the action `MarkGraded`; in `ExamGrading` the engine is the three ways of handing in
plus `Reopen`, and `OPEN` stands for both `IN_PROGRESS` and `PAUSED`; `PostExamGrading`
has several attempts, but of the engine only `Autosave`, `SubmitAttempt` and
`ResetDevice`: an attempt let in again may be handed in with another text, or none.

### What is abstracted

Answers, scores, devices and tokens are small sets; questions of the snapshot are a set
with no content; tenant checks, audit events, read-only endpoints, wording of
errors are left out, role checks where no property asks who acted.  Logins are left out
of `ExamAttempt`: either phone may call at any time.  An answer is a value or `Null`, a row with neither
option nor text.  `final_score` is kept as the scores it was computed from, so
that "the final score is stale" can be said without arithmetic.  Whether an objective
answer is right is a free choice: shuffled and relabelled options are not modelled.

In `AnswerSync` the deadline, locks and unlocks, telemetry and reopened attempts are
left to `ExamAttempt`: an attempt may be handed in by the server at any moment, and a
device reset is the only way to PAUSED.  A reset also ends the logins of the student
(`exam_service.py:1132`), so a page from before it cannot submit.  IndexedDB works, and
its writes are in order with its reads.  Two submissions started at once (the button
and the countdown) are one.

A token of a login is the generation of its session's `jti`s; one address stands for all,
so that `login_attempts` are kept by account.  In the office, times are slots of an
order; names are strings where uniqueness is tested and nothing else; a request of the
office does not last beyond a unit of the clock.  The status that
`PUT /exam-schedules/{id}` writes is any of `ScheduleStatus`, where the code takes any
string: no service of the office tells another one from DRAFT.  In `PostExamGrading` a draft has no
score, and the model answers anything: for each student one of his attempts, or none.

## 3. The runs

| Run | Question | Instance |
|---|---|---|
| `attempt_room` | Is there one pen, one clock? Does the engine implement `AnswerSheet`? | 2 phones, 3 tokens, every intervention, 1 broadcast |
| `attempt_device_reset` | Does changing phones ever give time, or leave an attempt without a deadline? | 2 phones, 3 tokens, duration 2; no unlock, no broadcast |
| `attempt_hand_in` | Are answers frozen once evaluated? Is a student who looks at his schedules again handed in after the end? | 2 phones, 3 tokens, lock, unlock, cleared sessions and a broadcast |
| `grading_all` | Do all writers together keep FINALIZED the teacher's? | a callback, a teacher, a job, a regrade, crashes, a silent model, three ways to hand in, reopening |
| `grading_callbacks` | Do late, repeated and reordered callbacks keep versions, finalized rows and the final score right? | 2 versions of one essay, 2 workers, 1 teacher |
| `grading_live` | Is every finalization answered in spite of the lock order? Is what the student hands in graded in the end? | 2 teachers, a job, 2 essays, no crash, a model that answers |
| `grading_overwritten` | violated: finalization locks an evaluation | 1 teacher, a job, 2 essays |
| `sync_answers` | Does an answered flush save everything? Does a reload lose anything? Does only the holder write? | 1 phone, 2 tokens, a chosen and a typed question, 2 values, 2 requests under way |
| `access` | One live session of a student? One licence of a key? Who lets a suspended school go? Who takes back a lock-out? | scenes licences, renewals, schools, phones, lock-out, members; 3 accounts, 3 sessions, 2 logins and 2 requests at once |
| `office` | One running year, one class per student, taught is assigned, no history and no account with a trace lost? | scenes years, enrol, lessons, students, teachers; 2 requests at once |
| `exam_office` | One session per exam? Are ready packages complete? Does an exam to be held keep its questions? Do traces and a locked report stay? Do exams come to overlap? | scenes plan, freeze, bank, report; 2 requests at once |
| `post_exam` | Does what a teacher finalized outlast the runs? Is the model shown the teacher's decision? Has a run that reports COMPLETED left nothing pending? | 2 runs, 2 essays, scenes with an open room, with a student's two attempts, with no answers, with an attempt let in again and no run |

What the runs show beyond "holds": `OneSession` holds only because storing `last_login`
happens to take a row lock (its mutant reads the sessions without it and breaks it);
`KeysSpentOnce` only because of the unique index, as no service locks the key;
`LockoutStays` only because a flush writes changed columns.

The properties of `office` and `exam_office` are not true of requests that overtake each
other: nothing there is locked.  An invariant is therefore claimed of tables no
overtaken request has written (`Apart`), a step property of the commits of requests
nobody overtook (`Overtaken`); the interleavings themselves are in the model, and section 5
lists what they do.

### Bounds, and why they are enough

* Two phones: every rule about devices relates two of them.  Three tokens: one
  bound, one replacing it, and one for the request that arrives meanwhile.  One
  question and one value where the properties only ask who wrote and when.
* The clock of an attempt runs from 0 to 4 with the exam from 1 to 3: before, at the
  start, within, at the end, after (`attempt_room`: 0 to 3, with the exam from 1 to 2,
  because its questions are about who writes rather than when).  A duration of 1 puts
  the deadline before the end, and a start in the last unit on it; with a duration of 2
  a resume can lie across the end.  `MaxBroadcasts = 1`: one broadcast already races
  every other step.
* Two essays: one in work while another is pending or finalized.  Two versions and
  two workers give every order of delivery.  A job runs again after it ended, so one
  of `Jobs` stands for any sequence of them.
* Two requests under way are an autosave and a flush, or two autosaves that overtake
  each other.  One phone with two tokens covers a page from before a device reset and
  the one after it.
* `access`: a lock-out after two failures, one refresh (`MaxGen`) and one change of a
  password, one day: each is used once and then tried again.  Three sessions let two
  logins replace a third.  Clerks and clients are interchangeable.
* `office`, `exam_office`: `MCIds` gives each table one to three rows (six for pairs),
  `Budget` lets a behaviour make three or four requests: one that sets up, one that is
  overtaken, one that overtakes it, and in the scenes about years and teachers one more.
  The scene `plan` makes two, from four schools, three of which are already a request or
  two on: an exam frozen and its session planned, one called off beside one that is
  READY, one running beside a draft.
  `Statuses` leaves COMPLETED out of what is written on a schedule: there it is told apart
  from DRAFT by no guard.
  `Horizon = 3` with exams in the first two units lets a report be submitted late and
  lock.
* `post_exam`: two runs are one that cancels and one that is cancelled; `Budget` bounds
  what teachers and students do meanwhile.  Seven steps in the scene of one attempt let
  in again are two decisions on a text, a reset, an erased answer, a hand-in and a
  decision on the blank, and one to spare.
* The runs that restrict the interventions do so because the property is false with
  the ones left out; section 5 says how.

`CHECK_DEADLOCK` is off in `access`, `office`, `exam_office` and `post_exam`: there the bounds
run out -- sessions, keys and ids are used up, the budget is spent, the runs are over --
and the model stops where the system would not.  In the other runs it is on: a
phone, a teacher or the AI service can always ask again.

### Fairness

* `ServerFairness` (`attempt_hand_in`): the clock runs, and requests the server has
  accepted go on to their end.  The waits are waits for a row lock; PostgreSQL queues
  them, so a request that finds the lock free again and again gets it: strong fairness
  for `PollActivate`, and for the steps of jobs, callbacks and finalizations.
* No fairness of the student: `StudentSchedulesView.tsx` asks for `/my-schedules` when it is
  opened, on "Refresh Data" and after a check-in (`:147`, `:363`, `:394`, `:548`), on no
  timer.  `ReturningIsHandedIn` is therefore conditional: *if* he looks again and again
  (`[]<><<PollSweep>>_vars`), an attempt open past the end is handed in.
* `ExamGrading!Fairness` has no fairness for requests nobody has to make: neither
  `StudentSubmits` nor `FinalizeBegin` nor `CallbackBegin` must happen.
  `grading_live` excludes crashes and a silent model, with which `GradingCompletes` is
  false.
* `WF(DeadlockAbort)`: `deadlock_timeout` of the database.
* The other modules state no fairness: what they promise is safety.

## 4. What is proved

All theorems hold for every value of the constants that satisfies the `ASSUME`s:
`TimeAssumption` and `RowAssumption` of `ExamAttempt` (the exam ends after it starts; NULL
is none of the values; the interventions are the five known ones), `SyncAssumption` (NULL
is no answer, token or phone), `GradingAssumption` and `NullAssumption` (question types are
disjoint; scores and versions are natural numbers; NULL is no row and no thread),
`LicensingAssumption` and `RowAssumption` of `Licensing`, `SessionsAssumption` and
`SessionRowsAssumption` (limits and terms are numbers, the sets of rows are disjoint from
NULL), `PostExamAssumption`, and three of the office.  `IdsAssumption`: tables are addressed
by numbers, or pairs of them, and NULL is none of the values.  `InputsAssumption`: forms and files
hold values the columns can take, and a file finitely many of them.  `StartsAssumption`: a
school is found with every key in place and with records that fit (`PeriodsFit`,
`EnrolmentsFit`, `LessonsFit`, `TracesFit`, `RoomsFit`, `BanksFit`); TLC evaluates
it on the starts of `MCOffice`, and an empty database satisfies it.

`ExamAttemptProofs`

* `TypeCorrect`, `SingleWriter`, `TokensStayBound`: `TypeOK`, `OneActiveDevice` and
  `TokenBoundToDevice` are only inductive together (`Inv`).  A token that is not
  used yet must be held by nobody before it may be bound to a phone, and this comes
  from the binding; that two phones are never ACTIVE comes from the index alone.
* `Implementation`: `Spec => OnePen`.  `ExamAttempt` implements `AnswerSheet` with
  the ACTIVE session as the holder and the INVALIDATED ones as the revoked.  A step
  of a phone that writes is `Write`; every other step passes the pen on or is a
  stutter.
* `ClocksStayApart`: `OneClock` needs `ClockInv`.  The hard part is
  `start_attempt`, which acts on an attempt it read without a lock: the branch it
  takes may be stale.  `CreatesAlone` says why no second attempt row is created over
  a first one: whoever is about to create it holds the session row, so no other start
  request is beyond its first statement.
* `SubmissionIsFinal`: `NoReset => (Spec => AnswersFrozenUponSubmit)`, from
  `FrozenInv`: without resets and telemetry no time is ever saved, so no start request resumes an
  attempt, and evaluations exist for closed attempts only, also across the sweep
  that acts on a status it read earlier.

* `TimerStaysArmed` and `NoTimeIsGained`, assuming no unlocks and no extra time
  (`Undisturbed`).  `TimedInv` adds three things to `ClockInv`: an attempt in progress has
  a deadline, an attempt has one of its two clocks, and a start request that is going to
  resume still finds the seconds it has read (`ResumesAlone`).  The last one is the
  point: saved seconds mean that there is no deadline, hence that the attempt is not
  in progress, and every handler that touches a clock asks for an attempt in progress
  -- except another start request, which waits for the session row.

`AnswerSyncProofs`

* `TypeCorrect` and `NothingLostByReload` from `PageInv`.  A question IndexedDB has no
  answer for shows what the server gave, and every request on its way that the server
  would accept repeats it (`RequestsFromServer`): so the sheet has not changed there
  since, although marks send erasing autosaves and the countdown sends old answers.
* `FlushIsComplete` from `FlushInv`: nothing under way contradicts a settled answer
  (`Unchallenged`), and during the flush each is on the sheet or still in the request
  (`OnTheWay`).  Once the request is empty they are all on the sheet.
* `Implementation`: `Spec => ServerIsSheet`.

All four hold for any number of phones, tokens, questions and requests under way.

`ExamGradingProofs`

* `TypeCorrect` and `TeachersOnly`: the status FINALIZED and the source TEACHER stay
  together, with crashes, aborts, reopened attempts and any number of jobs.
  `FinalizedIsTeachers` is not inductive: a job flushes only the columns that
  differ from the row it loaded, so a stale AI draft could leave a teacher's column
  standing beside its own.  `Sound` strengthens it to the agreement of status and
  source for drafts as well, `Memory` says it of every row a job remembers, and
  `FlushSound` shows that two sound rows never mix into an unsound one: both columns
  are written, or neither.  `RowsInv` and `InFlightInv` say that once one question
  is evaluated all are, and stay so.

* `FinalizedStays`, `ScoreAgrees` (assuming `Closed`: no jobs, no regrades, no sweep, no
  reopened attempts) and `VersionsGrow` (no jobs, no regrades, no sweep), for any number
  of questions, messages, workers and teachers, with aborts and crashes.
  `CallbackInv` says that a delivery in flight found the attempt in GRADING and keeps
  it there by its lock.  A finalization takes the same lock last, so no draft can be
  written after the final score was computed.

`AccessProofs`

* `AccessTypeCorrect`, `KeysAreSpentOnce`, `OneSessionStays`, `SuspensionStays`,
  `LockoutsStay`, from `AInv`.
* Its part about licences is `WorkInv`: what a commit relies on although it holds no
  lock -- the key, licence and request it has read are still there, the key still
  belongs to its school (`Holds`).  That the *status* has changed since does not matter:
  `KeysSpentOnce` follows from the unique index alone.
* Its part about sessions says what a login may rely on: logins of an account that are
  beyond `last_login` take turns (`InTurn`), such a login has seen every live session
  (`SeenAll`), what it has seen is on record (`SeenStored`), and a lock-out it has found
  over is over still (`RowsHeld`).  `SeenAll` survives because sessions never come alive
  again (`Shrinks`) and only a login's commit makes one.
* `Admissions`: no activation is under way that began at a suspended school, since the
  school's administrator is not admitted; this gives `SuspensionStays`.

`PostExamProofs`

* `PostExamTypeCorrect`, `MemoryFollowsTeachers`, `RunsKeepFinalized`, for any number of
  runs, attempts, students and essays.  `MemoryIsTeachers` says what the model is shown of an
  essay: the score of the last decision on a *text* (`taught`), through attempts let in
  again, answers rewritten and erased, and vectors that could not be computed.  It does not say
  that this is the score the essay has: a decision on a blank takes nothing back
  (section 5).  `RunFinalizesNothing` is the lemma on the
  twelve steps of a run, `CaptureIsLast` the one on the memory.
* `CompletedRunsLeaveNothing`: `Spec /\ []RoomOver => [][ClosesGraded]_vars`, which is what
  `CompletedIsGraded` checks in its scene.  The verdicts are read without a lock and used
  later; they still hold then (`VerdictsHold`), since nothing but handing in makes an
  evaluation pending, and that needs an open attempt (`NothingBecomesPending`).

`SchoolServicesProofs`, `SchoolExamsProofs`, `SchoolOfficeProofs`

* Every property of the runs `office` and `exam_office`, for any school, any number of
  clerks and files of any length, over all 60 endpoints: `OfficeTyped`, `OfficeOnePeriod`,
  `OfficeEnrolledOnce`, `OfficeTaughtIsAssigned`, `OfficeTraceKeepsAccount`,
  `OfficeHistoryStays`; `OfficeOneRoom`, `OfficeReadyKeepsQuestions`, `OfficePackageComplete`,
  `OfficeTraceStays`, `OfficeNoNewClash`, `OfficeLockedReportStays`.
* The inductive invariant is `Steady` (`AlwaysSteady`).  Its heart is `Informed`: a request
  that nobody has overtaken would still turn the database into what its service wanted,
  although it keeps nothing but the columns it changed.  `MergedBack` shows this when it
  begins; every accepted commit makes all others overtaken, so it stays true.  An
  overtaken request may leave anything that is well typed (`MergedTyped`, from the fact that
  a column of one row in another makes a row: `RowsBlend`), and the tables it wrote
  join `raced`.  `Fits(db, raced)` says that what is not raced fits.
* What fits is more than what the properties say.  `TaughtIsAssigned` needs that a lesson
  is filed under its class and subject, because a cascade takes the subjects of a
  deleted class by the column and not by the id; `OnePeriod` that an active semester is one of the
  running year, because opening a year looks for running years only; `PackageComplete` that
  the questions of a package are its owner's, because `delete_teacher` deletes all
  questions of a teacher, and in a package of another it would leave a gap.
* `PackageComplete` counts questions, but lets requests on questions overtake each other.
  So `Steady` says two things more: no write over a question touches its type or its owner
  (`Immutable`), and every key refers to a row, so that a question some package holds is not
  deleted (`RacedBanks`).  Reordering needs the unique constraints as well: two items of a
  package are never of the same question.
* `Served(d)` is what a service may leave of `d`: each of the 60 services is a lemma
  `...Served`, which also says which tables of the exams it leaves alone (`Leaving`); for
  those it writes there are the lemmas `...Plans` (schedules, snapshots, sessions), `...Banks`
  (questions and packages) and `...Locks` (reports), joined in `...Answers`.  A request
  over several things is a fold; what its steps keep it keeps (`FoldStays`), proved by a
  smallest set on which it does not, for induction is out of the provers' reach.
* Orders without gaps are counted: things numbered by how many come up to them are
  numbered `1..n` (`RanksLine`, by injectivity and cardinalities), so the last order in a
  line is its length (`MaxOrderIs`) and removing a question closes the line.
* After the commit come the foreign keys.  `LostHasReason`: whatever the cascade takes
  refers to a row that is gone, in both of its sweeps; so an enrolment goes with its
  student or class, and the class of an enrolment is never deleted (`HistoryKept`).  An
  exam goes with its package only; so those that have begun must be taken out of the package
  before it is deleted (`HeldKept`), as `delete_schedule_package` does.
* An action property speaks of requests that nobody overtook; `NextAnswers` says what they do:
  the records become an answer of a service to what they are, less what cascades
  took.  The six action properties follow from it, each by a lemma on the cascade and one on
  the services: `AccountsKept` (a student with a trace stays a student), `ReadyKept` (an
  exam to be held that had frozen questions has them), and those above.  Neither is an
  invariant of the records: an account may outlive its traces, and an exam may be READY
  with nothing frozen.

Only model-checked: the liveness properties (`ReturningIsHandedIn`, `FinalizationAnswered`,
`GradingCompletes`), which are outside what the proof system handles.

## 5. Where code and documents disagree

With a run that shows it:

* *Finalized and overwritten* (`grading_overwritten`).  The job tests a row, waits
  for the language model, and writes; its first commit has released the attempt, so
  a finalization of another essay in between is overwritten (`exam_service.py:914`).

Met while modelling, part of the models, without a run of their own.

*The exam*

* `docs/TDD.md:342` promises that nobody resumes on another device without a
  supervisor.  `start_attempt` looks for an ACTIVE device session; while the proctor
  holds the phone BLOCKED there is none, and another phone is bound
  (`exam_service.py:338`).  A student's account is logged in on one phone during an exam
  (`auth_service.py:86`), but a logout there needs no supervisor.  The unlock of the first
  phone then violates `uq_active_device_per_attempt` and is refused.
* The sweep "Ensures disconnected students have their attempts submitted automatically"
  (`exam_service.py:586`); it is only run by a request of the same student
  (`api/exam.py:196`), which his app makes when he looks at his schedules.  Who does not look
  again stays `IN_PROGRESS` or `PAUSED` for ever.  `ReturningIsHandedIn` is about the others.
* `executeSubmit` flushes all answers "BEFORE submitting"
  (`StudentCbtEngineView.tsx:294`); when the flush fails it logs a warning and submits
  (`:303`).  The answers stay in IndexedDB.
* A device reset or a telemetry violation sets PAUSED on an attempt of any status
  (`exam_service.py:1144`, `api/exam.py:103`): a graded attempt is writable
  again, against "Frozen upon submit"
  (`documentation/assessment_history_schema_audit.md:22`).  Hence `NoReset`.
* A COMPLETED session becomes ACTIVE again with the next poll or start
  (`api/exam.py:227`, `exam_service.py:289`), against the message of
  `exam_service.py:127`.
* A start or a resume near or past the end sets a deadline past the end
  (`exam_service.py:387`), and autosave looks at that deadline only (`:464`).
* The background job writes a final score it has computed before a finalization that
  came in between (`api/exam.py:983-1000`).  `FinalScoreAgrees` is therefore checked
  without jobs.
* `finalize_evaluation` sets GRADED after one essay (`exam_service.py:1009`), the
  background job only when none is pending (`api/exam.py:981`).
* A reset saves the time left and clears the deadline; an unlock then sets IN_PROGRESS
  without restoring it (`exam_service.py:1073`), and without a deadline autosave checks
  no time, against the "strict timer" of `exam_service.py:463`.  Hence no unlock in
  `attempt_device_reset` and in `ExamAttemptProofs` (`Undisturbed`).
* Marking a question autosaves it with neither option nor text, and the server erases
  its answer (`StudentCbtEngineView.tsx:287`, `exam_service.py:515`).  The flush puts it
  back; if the sweep hands the attempt in first, it is lost.
* On opening, IndexedDB wins over the server whatever `updated_at` says
  (`StudentCbtEngineView.tsx:94`): a student moved to another phone and back gets the
  answers from before the move, and the flush sends them.  Hence `OnlyPhone` in
  `ReloadKeepsScreen`.
* `docs/TDD.md:344` promises that cached answers are synchronized "upon reconnection";
  an autosave that failed is not repeated, and only the flush sends the answer again.
* `flush_all_answers` answers OK with the number of answers it was sent, saved or not
  (`exam_service.py:575`, `api/exam.py:809`).  Hence `Accepts` in `FlushSavesAll`.
* A broadcast that races a reset leaves both clocks set (`api/proctor.py:252`).  Hence
  `OneClock` until the first broadcast, and no broadcast in `attempt_device_reset`.

*Grading runs and memory*

* Concurrent starts of a grading run miss each other, and two runs live
  (`batch_grading_service.py:376`).  A run cancelled while it closes overwrites CANCELLED
  with its own verdict, against the "cancellation safety" of
  `batch_grading_service.py:434`.  A crash leaves PROCESSING until the next start.
* A run loads attempts of any status, so the essays of a student who is still writing are
  graded and the attempt is marked GRADED; an attempt handed in between the reading of the
  verdicts and the closing is missed by both.  `CompletedIsGraded` is therefore claimed
  of the scene in which the exam is over, and its theorem assumes that it stays so.
* Two attempts of one student in a run share one result; the run ends as PARTIAL.
* A decision on a blank answer is not captured (`assessment_history_service.py:91-93`), and
  what was captured before stays current: a student let in again may erase his essay
  (`exam_service.py:515`), the teacher grades the blank, and the model goes on being shown the
  former text with the former score.  Hence `taught` in `MemoryIsTeachers`.
* An essay finalized again with the same score after a reset keeps its old answer in the
  memory; if a vector cannot be computed, the version before is superseded already and
  nothing takes its place.  The caller does not hear of it: `finalize_evaluation`
  swallows the exception.

*Accounts and licences*

* `docs/TDD.md` §12.2 locks the row of the activation key; `license_service.py` locks
  nothing.  A cancellation that races an activation loses or wins by the order of
  commits, two activations may leave two ACTIVE licences, and a renewal processed twice
  makes two keys.  What remains is `KeysSpentOnce`.  Nothing activates a PENDING licence
  when its predecessor ends, or sets EXPIRED; the mark a refused activation leaves on an
  expired key is rolled back with the refusal.
* The failure counter of `docs/TDD.md` §7.2 loses updates; an idle session that §7.3 calls
  over is alive again after its next refresh; a refresh whose answer was lost counts as
  reuse and revokes the session.
* A reset of a password by an administrator revokes no session, a change by the user
  (`auth_service.py:463`) those it reads.  A school that was deleted or is inactive, other
  than a suspended one, does not shut its users out.
* The history of a student "MUST NEVER BE DELETED" (`student_service.py:237`).  clear-sessions
  deletes his check-ins (`school_student.py:268`); after it `delete_student` takes the account
  of one who came to an exam and did not begin it.  `TraceKeepsAccount` says what is left:
  no deletion takes an account with a trace.

*The office*

* `delete_exam_schedule` says "NEVER hard delete" (`exam_schedule_service.py:361`);
  `delete_schedule_package` takes schedules with check-ins away, as a session that is
  ACTIVE or COMPLETED is the only trace it looks for.  `TraceStays` is about such sessions.
* A cancelled schedule is revived by revert-draft, unassign, finalize, a status written on
  it and by deleting its package, without a look for overlaps.  `NoNewClash` says that
  there is no other way.
* `PUT /exam-schedules/{id}` stores whatever status it is sent (`exam_schedule_service.py:230`):
  an exam is READY or ACTIVE although nothing was frozen for it, and its first poll opens a
  session; a cancelled one is revived, overlapping or not.  `ReadyKeepsQuestions` says that no
  exam to be held *loses* its questions.
* After revert-draft the kept snapshot blocks finalize.  Changing a schedule's class or
  subject changes its teacher, while the snapshot of the former teacher stays; the times
  of its session are not moved with it.
* `my-schedules` opens sessions for DRAFT schedules and makes COMPLETED ones active again.
  First polls at once make two sessions; check-ins have no unique index, so two at once
  are both stored; a PIN is overwritten by that of another schedule with the same digits.
* Requests that overtake each other leave two ACTIVE years, two ACTIVE classes of a
  student, an ARCHIVED year that is PENDING_ARCHIVE again, or a class deleted together
  with the enrolment or lesson that came in between, or a student's account with the
  check-in that came in between.  `OnePeriod`, `EnrolledOnce`, `HistoryStays` and
  `TraceKeepsAccount` are claimed of requests nobody overtook.
* A rollover that is refused says that the year stays PENDING_ARCHIVE; it is rolled back.
* The class of a schedule need not be of its year; taking a competency from a teacher
  leaves the lessons he has; a student whose `class_name` is cleared stays enrolled; a
  class renamed leaves `class_name` stale; `update_question` does not look at the answer
  key again; an addition that races a removal leaves a package READY with a question too
  few.

*The report of the room*

* A report in CORRECTION_REQUESTED can be edited and submitted by the proctor before
  anyone approves it; one that was approved more than a day after the exam is submitted
  again when it is next opened.
* A late check-in marks a student HADIR over IZIN or SAKIT, and in a LOCKED report;
  opening a locked report notes the students that are new.  `LockedReportStays` says that
  nothing else changes there.
* Every teacher may write the report of a schedule that is deleted or has no proctor.
  Reports outlive their schedule: no foreign key holds them.

## 6. Plan

Done: the exam (`AnswerSheet`, `ExamAttempt`, `ExamGrading`, `AnswerSync`), its proofs; who
may work with the system (`Licensing`, `UserSessions`, `Access`) and its proofs; grading
runs and memory (`PostExamGrading`, `AssessmentMemory`) and their proofs; the school's
office (`SchoolOffice` and what it composes) and its proofs.

Left, in this order:

1. `ExamAttempt` and `ExamGrading` composed over one status.
2. Pure algorithms: choice of the context under a token budget, splitting of a data
   set, shuffling and relabelling of options against `answer_key`.
3. The QR code of a check-in beside the PIN, with the PIN it was issued for overwritten.

## 7. Not modelled, and why

* *AI governance.*  Candidates, data sets and settings are written by one administrator
  at a time.  `POST /ai/governance/candidates/ingest` only flushes, so its
  candidates are never stored; training jobs, model versions and registered models have
  no callers.  Read, not modelled: a candidate whose history was superseded stays
  ELIGIBLE; TEMPORAL_SPLIT may divide the group of a question although the builder
  promises "leakage-free" splits (`dataset_builder_service.py:43`).
* *Retrieval.*  Similarity and the token budget, which is greedy although the docstring
  says it omits "lower-similarity cases" (`rag_context_service.py:180`); `Candidates` is the
  set retrieval may choose from.
* *Operations without callers.*  Lock, extend and reopen of a schedule;
  `cancel_grading_run`.
* *Exam.*  Shuffling and relabelling of options, `allowed_student_ids`, the QR code, kiosk
  mode of the phone, the upper bound a callback's score does not have.
* *Office.*  The columns `classes_taught` and `subjects_taught` that listing the
  teachers brings up to date; audit events (`docs/TDD.md:481` asks for one with every
  mutation, which the code does not write); file formats of the imports.
* *Web views, migrations, start-up.*  No state of their own; the constraints the
  migrations create are in `SchoolRecords` and in the guards of the other modules.
