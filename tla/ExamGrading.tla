---------------------------- MODULE ExamGrading ----------------------------
(***************************************************************************)
(* Grading of one submitted attempt: the exam_answer_evaluations rows, the *)
(* log of AI events, and the four writers that meet on them: deliveries of *)
(* the AI callback, teachers who finalize, the background job that a       *)
(* student's submission starts and the regrade a teacher asks for.         *)
(*                                                                         *)
(* A transaction is cut where it waits for a row lock or for the language  *)
(* model.  Locks are not stored: a delivery in flight holds the attempt,   *)
(* a finalization in flight holds its evaluation, a job holds the attempt  *)
(* until its first commit.  The callback and the job lock the attempt      *)
(* before an evaluation, finalization the other way round; the database    *)
(* breaks the deadlock by aborting one of the two.                         *)
(*                                                                         *)
(* final_score is modelled by the scores it was computed from.             *)
(***************************************************************************)
EXTENDS Integers, FiniteSets

CONSTANTS
  Essays, Objective,  \* questions of the snapshot: type ES; types PG and IS
  Blank,              \* the essays the student leaves empty
  MaxScore,           \* max_score of a question
  Scores,             \* what the AI or a teacher may give
  Messages,           \* callbacks the AI service sends, each any number of times
  Workers,            \* threads that serve callbacks
  Teachers,           \* threads that serve finalizations
  Jobs,               \* background jobs that can be in flight
  Regrades,           \* regrade requests that can be in flight
  Submitters,         \* who hands in: the student, a late autosave, the sweep
  Faults,             \* what goes wrong: the model answers nothing, a crash
  MayReopen,          \* do resets or telemetry pull the attempt back to PAUSED
  Null

Questions == Essays \cup Objective
Rows == [status : {"AI_PENDING", "AUTO_GRADED", "AI_DRAFT", "FINALIZED"},
         source : {"SYSTEM", "AI", "TEACHER"}, score : Nat, version : Nat]
Runners == Jobs \cup Regrades

ASSUME GradingAssumption ==
  /\ Essays \cap Objective = {} /\ Blank \subseteq Essays
  /\ MaxScore \in Nat /\ Scores \subseteq Nat
  /\ \A m \in Messages : m.question \in Questions /\ m.score \in Nat /\ m.version \in Nat
  /\ Jobs \cap Regrades = {}
  /\ Submitters \subseteq {"student", "late", "sweep"} /\ Faults \subseteq {"llm", "crash"}
  /\ MayReopen \in BOOLEAN
ASSUME NullAssumption ==
  /\ Null \notin Messages /\ Null \notin Rows /\ Null \notin [Questions -> Nat]
  /\ Null \notin [Questions -> Rows \cup {Null}]
  /\ Null \notin [question : Questions, score : Nat] /\ Null \notin Questions
  /\ Null \notin Workers \cup Runners

VARIABLES
  attempt,   \* exam_attempts.status: OPEN stands for IN_PROGRESS and PAUSED
  final,     \* the scores final_score was computed from, or Null
  eval,      \* the evaluation row of each question, or Null
  events,    \* ai_grading_event_logs
  cb,        \* the message each worker holds while it has the attempt locked
  fin,       \* the finalization for which each teacher has an evaluation locked
  job,       \* the state of each job and regrade
  sweep      \* the sweep of expired attempts: has it found this one

vars == <<attempt, final, eval, events, cb, fin, job, sweep>>

JobStates == [pc : {"idle", "queued", "loop", "llm", "advance"},
              locked : BOOLEAN,
              view : [Questions -> Rows \cup {Null}] \cup {Null},
              todo : SUBSET Questions,
              question : Questions \cup {Null},
              loaded : Rows \cup {Null},
              scores : [Questions -> Nat] \cup {Null}]
NoJob == [pc |-> "idle", locked |-> FALSE, view |-> Null, todo |-> {},
          question |-> Null, loaded |-> Null, scores |-> Null]

TypeOK ==
  /\ attempt \in {"OPEN", "GRADING", "GRADED"}
  /\ final \in [Questions -> Nat] \cup {Null}
  /\ eval \in [Questions -> Rows \cup {Null}]
  /\ events \subseteq {m.event : m \in Messages}
  /\ cb \in [Workers -> Messages \cup {Null}]
  /\ fin \in [Teachers -> [question : Questions, score : Nat] \cup {Null}]
  /\ job \in [Runners -> JobStates]
  /\ sweep \in {"idle", "due"}

Init ==
  /\ attempt = "OPEN" /\ final = Null
  /\ eval = [q \in Questions |-> Null]
  /\ events = {}
  /\ cb = [c \in Workers |-> Null]
  /\ fin = [t \in Teachers |-> Null]
  /\ job = [j \in Runners |-> NoJob]
  /\ sweep = "idle"

-----------------------------------------------------------------------------
Evaluated == \A q \in Questions : eval[q] # Null
ScoresOf(table) == [q \in Questions |-> table[q].score]

\* No transaction other than p's holds the row lock of the attempt.
AttemptFree(p) ==
  /\ \A c \in Workers \ {p} : cb[c] = Null
  /\ \A j \in Runners \ {p} : ~job[j].locked

\* No transaction holds the row lock of the evaluation of q.
EvalFree(q) == \A t \in Teachers : fin[t] # Null => fin[t].question # q

\* Mutant of Draft: the status of the attempt instead of the evaluation's.
DraftGraded(score, version) ==
  [status |-> "GRADED", source |-> "AI", score |-> score, version |-> version]

Draft(score, version) ==
  [status |-> "AI_DRAFT", source |-> "AI", score |-> score, version |-> version]

\* What a session writes back when it flushes the object it loaded: only the
\* attributes it has changed, over whatever the row holds by now.
Flush(row, loaded, new) ==
  [status  |-> IF new.status  = loaded.status  THEN row.status  ELSE new.status,
   source  |-> IF new.source  = loaded.source  THEN row.source  ELSE new.source,
   score   |-> IF new.score   = loaded.score   THEN row.score   ELSE new.score,
   version |-> IF new.version = loaded.version THEN row.version ELSE new.version]

-----------------------------------------------------------------------------
(* Submission, by the student, or by an autosave past the deadline and by  *)
(* the sweep of expired attempts, which start no grading job.              *)

\* Every question is evaluated anew, over the rows of an earlier submission.
SubmitRows ==
  {table \in [Questions -> [status : {"AI_PENDING", "AUTO_GRADED"},
                            source : {"SYSTEM"}, score : {0, MaxScore},
                            version : {1}]] :
     /\ \A q \in Essays : table[q].status = "AI_PENDING" /\ table[q].score = 0
     /\ \A q \in Objective : table[q].status = "AUTO_GRADED"}

HandIn ==
  /\ AttemptFree(Null)
  /\ \A q \in Questions : EvalFree(q)
  /\ eval' \in SubmitRows
  /\ IF Essays # {} THEN attempt' = "GRADING" /\ final' = final
                    ELSE attempt' = "GRADED" /\ final' = ScoresOf(eval')

\* Mutant of SubmitAttempt: not idempotent.
SubmitAgain == HandIn

SubmitAttempt == attempt = "OPEN" /\ HandIn

\* POST /submit queues a background job when the attempt is in GRADING after
\* it, also when it already was before.
QueueJob(j) ==
  /\ attempt' = "GRADING"
  /\ job[j].pc = "idle"
  /\ job' = [job EXCEPT ![j].pc = "queued"]

StudentSubmits(j) ==
  /\ "student" \in Submitters
  /\ \/ SubmitAttempt
     \/ attempt \in {"GRADING", "GRADED"} /\ AttemptFree(Null)
        /\ UNCHANGED <<attempt, final, eval>>
  /\ QueueJob(j) \/ (attempt' # "GRADING" /\ UNCHANGED job)
  /\ UNCHANGED <<events, cb, fin, sweep>>

LateAutosave ==
  /\ "late" \in Submitters
  /\ SubmitAttempt
  /\ UNCHANGED <<events, cb, fin, job, sweep>>

\* The sweep reads the attempt without a lock, and hands it in on the status
\* it has read.
SweepFinds ==
  /\ "sweep" \in Submitters
  /\ attempt = "OPEN" /\ sweep = "idle"
  /\ sweep' = "due"
  /\ UNCHANGED <<attempt, final, eval, events, cb, fin, job>>

SweepSubmits ==
  /\ sweep = "due"
  /\ HandIn
  /\ sweep' = "idle"
  /\ UNCHANGED <<events, cb, fin, job>>

\* proctor_reset_device and telemetry set PAUSED on any attempt.
Reopen ==
  /\ MayReopen
  /\ AttemptFree(Null)
  /\ attempt' = "OPEN"
  /\ UNCHANGED <<final, eval, events, cb, fin, job, sweep>>

-----------------------------------------------------------------------------
(* process_ai_callback.                                                    *)

\* The attempt is locked, found in GRADING, and the event is new; otherwise
\* the delivery ends here without a trace.
CallbackBegin(c, m) ==
  /\ cb[c] = Null /\ AttemptFree(c)
  /\ attempt = "GRADING"
  /\ m.event \notin events
  /\ cb' = [cb EXCEPT ![c] = m]
  /\ UNCHANGED <<attempt, final, eval, events, fin, job, sweep>>

\* Mutant of CallbackCommit: versions are not compared.
CommitAnyVersion(c) ==
  LET m == cb[c]
  IN /\ m # Null
     /\ EvalFree(m.question)
     /\ IF eval[m.question].status = "FINALIZED"
          THEN UNCHANGED <<eval, events>>
          ELSE /\ events' = events \cup {m.event}
               /\ eval' = [eval EXCEPT ![m.question] = Draft(m.score, m.version)]
     /\ cb' = [cb EXCEPT ![c] = Null]
     /\ UNCHANGED <<attempt, final, fin, job, sweep>>

\* A FINALIZED evaluation rolls the delivery back, its event with it; an older
\* version is logged and leaves the evaluation alone.
CallbackCommit(c) ==
  LET m == cb[c]
      row == eval[m.question]
  IN /\ m # Null
     /\ EvalFree(m.question)
     /\ IF row.status = "FINALIZED"
          THEN UNCHANGED <<eval, events>>
          ELSE /\ events' = events \cup {m.event}
               /\ eval' = IF m.version >= row.version
                            THEN [eval EXCEPT ![m.question] = Draft(m.score, m.version)]
                            ELSE eval
     /\ cb' = [cb EXCEPT ![c] = Null]
     /\ UNCHANGED <<attempt, final, fin, job, sweep>>

-----------------------------------------------------------------------------
(* finalize_evaluation.                                                    *)

FinalizeBegin(t, q, s) ==
  /\ fin[t] = Null /\ eval[q] # Null /\ EvalFree(q)
  /\ s <= MaxScore
  /\ fin' = [fin EXCEPT ![t] = [question |-> q, score |-> s]]
  /\ UNCHANGED <<attempt, final, eval, events, cb, job, sweep>>

\* Mutant of FinalizeCommit: the source of the score is not updated.
FinalizeScoreOnly(t) ==
  /\ fin[t] # Null /\ AttemptFree(Null)
  /\ eval' = [eval EXCEPT ![fin[t].question] =
                [@ EXCEPT !.status = "FINALIZED", !.score = fin[t].score]]
  /\ final' = ScoresOf(eval')
  /\ attempt' = "GRADED"
  /\ fin' = [fin EXCEPT ![t] = Null]
  /\ UNCHANGED <<events, cb, job, sweep>>

\* Mutant of FinalizeCommit: the final score is that of the rows before.
FinalizeBeforeScore(t) ==
  /\ fin[t] # Null /\ AttemptFree(Null)
  /\ eval' = [eval EXCEPT ![fin[t].question] =
                [@ EXCEPT !.status = "FINALIZED", !.source = "TEACHER",
                          !.score = fin[t].score]]
  /\ final' = ScoresOf(eval)
  /\ attempt' = "GRADED"
  /\ fin' = [fin EXCEPT ![t] = Null]
  /\ UNCHANGED <<events, cb, job, sweep>>

\* The final score is recomputed over every row and the attempt is GRADED,
\* whatever its status was and whatever rows are still pending.
FinalizeCommit(t) ==
  /\ fin[t] # Null /\ AttemptFree(Null)
  /\ eval' = [eval EXCEPT ![fin[t].question] =
                [@ EXCEPT !.status = "FINALIZED", !.source = "TEACHER",
                          !.score = fin[t].score]]
  /\ final' = ScoresOf(eval')
  /\ attempt' = "GRADED"
  /\ fin' = [fin EXCEPT ![t] = Null]
  /\ UNCHANGED <<events, cb, job, sweep>>

-----------------------------------------------------------------------------
(* execute_ai_essay_grading_job and what its callers do around it.         *)

\* The attempt is locked; unless it is in GRADING there is nothing to grade.
JobBegin(j) ==
  /\ \/ j \in Jobs /\ job[j].pc = "queued"
     \/ j \in Regrades /\ job[j].pc = "idle" /\ attempt = "GRADING"
  /\ AttemptFree(j)
  /\ job' = [job EXCEPT ![j] = [NoJob EXCEPT !.pc = "loop",
               !.locked = TRUE, !.view = eval,
               !.todo = IF attempt = "GRADING" THEN Essays ELSE {}]]
  /\ UNCHANGED <<attempt, final, eval, events, cb, fin, sweep>>

\* The evaluations left to grade are tested one by one: the pending ones are
\* graded, or all of them in a regrade.  They were loaded when the job began;
\* a commit makes the session load each of them again when it comes to it.
JobPick(j, q) ==
  LET row  == IF job[j].locked THEN job[j].view[q] ELSE eval[q]
      left == job[j].todo \ {q}
  IN /\ job[j].pc = "loop" /\ q \in job[j].todo
     /\ job' = IF j \in Regrades \/ row.status = "AI_PENDING"
                 THEN [job EXCEPT ![j] = [@ EXCEPT !.pc = "llm", !.question = q,
                                                   !.loaded = row, !.todo = left]]
                 ELSE [job EXCEPT ![j] = [@ EXCEPT !.todo = left]]
     /\ UNCHANGED <<attempt, final, eval, events, cb, fin, sweep>>

\* The answer is graded, a blank one with zero; the commit ends the lock on
\* the attempt, for the evaluations that follow too.
JobWrite(j, s) ==
  LET q == job[j].question
  IN /\ job[j].pc = "llm"
     /\ q \in Blank => s = 0
     /\ EvalFree(q)
     /\ eval' = [eval EXCEPT ![q] = Flush(@, job[j].loaded, Draft(s, 1))]
     /\ job' = [job EXCEPT ![j] = [@ EXCEPT !.pc = "loop", !.question = Null,
                !.loaded = Null, !.locked = FALSE, !.view = Null]]
     /\ UNCHANGED <<attempt, final, events, cb, fin, sweep>>

\* The language model does not answer, or its answer is unusable.
JobSkip(j) ==
  /\ "llm" \in Faults
  /\ job[j].pc = "llm" /\ job[j].question \notin Blank
  /\ job' = [job EXCEPT ![j] = [@ EXCEPT !.pc = "loop", !.question = Null,
                                         !.loaded = Null]]
  /\ UNCHANGED <<attempt, final, eval, events, cb, fin, sweep>>

\* Mutant of JobEnd: a job with nothing to do leaves its transaction open.
JobEndsLocked(j) ==
  /\ job[j].pc = "loop" /\ job[j].todo = {}
  /\ job' = IF /\ j \in Jobs
               /\ \A q \in Questions : eval[q].status # "AI_PENDING"
              THEN [job EXCEPT ![j] = [@ EXCEPT !.pc = "advance",
                                                !.scores = ScoresOf(eval)]]
              ELSE [job EXCEPT ![j].pc = "idle"]
  /\ UNCHANGED <<attempt, final, eval, events, cb, fin, sweep>>

\* Mutant of JobEnd: only essays the AI has drafted count as graded.
JobEndsOnDrafts(j) ==
  /\ job[j].pc = "loop" /\ job[j].todo = {}
  /\ job' = IF /\ j \in Jobs
               /\ \A q \in Questions : eval[q].status = "AI_DRAFT"
              THEN [job EXCEPT ![j] = [@ EXCEPT !.pc = "advance",
                                                !.scores = ScoresOf(eval)]]
              ELSE [job EXCEPT ![j] = NoJob]
  /\ UNCHANGED <<attempt, final, eval, events, cb, fin, sweep>>

\* run_ai_grading_background reads every evaluation; if none is pending it
\* will set GRADED and the score of what it has read.
JobEnd(j) ==
  /\ job[j].pc = "loop" /\ job[j].todo = {}
  /\ job' = IF /\ j \in Jobs
               /\ \A q \in Questions : eval[q].status # "AI_PENDING"
              THEN [job EXCEPT ![j] = [@ EXCEPT !.pc = "advance",
                                                !.scores = ScoresOf(eval)]]
              ELSE [job EXCEPT ![j] = NoJob]
  /\ UNCHANGED <<attempt, final, eval, events, cb, fin, sweep>>

JobAdvance(j) ==
  /\ job[j].pc = "advance" /\ AttemptFree(j)
  /\ attempt' = "GRADED"
  /\ final' = job[j].scores
  /\ job' = [job EXCEPT ![j] = NoJob]
  /\ UNCHANGED <<eval, events, cb, fin, sweep>>

-----------------------------------------------------------------------------
(* Aborts: the transaction in flight is rolled back, the request is gone.  *)

AbortTeacher(t) == fin' = [fin EXCEPT ![t] = Null] /\ UNCHANGED <<cb, job>>
AbortWorker(c)  == cb' = [cb EXCEPT ![c] = Null] /\ UNCHANGED <<fin, job>>
AbortJob(j)     == job' = [job EXCEPT ![j] = NoJob] /\ UNCHANGED <<cb, fin>>

\* A finalization holds the evaluation that the holder of the attempt needs.
DeadlockAbort ==
  /\ \E t \in Teachers :
       /\ fin[t] # Null
       /\ \/ \E c \in Workers : /\ cb[c] # Null /\ cb[c].question = fin[t].question
                                /\ AbortTeacher(t) \/ AbortWorker(c)
          \/ \E j \in Runners : /\ job[j].locked /\ job[j].pc = "llm"
                                /\ job[j].question = fin[t].question
                                /\ AbortTeacher(t) \/ AbortJob(j)
  /\ UNCHANGED <<attempt, final, eval, events, sweep>>

\* The server process restarts; jobs live in its memory only.
Crash ==
  /\ "crash" \in Faults
  /\ cb' = [c \in Workers |-> Null]
  /\ fin' = [t \in Teachers |-> Null]
  /\ job' = [j \in Runners |-> NoJob]
  /\ sweep' = "idle"
  /\ UNCHANGED <<attempt, final, eval, events>>

-----------------------------------------------------------------------------
JobStep(j) ==
  \/ JobBegin(j) /\ j \in Jobs
  \/ \E q \in Essays : JobPick(j, q)
  \/ \E s \in Scores \cup {0} : JobWrite(j, s)
  \/ JobSkip(j)
  \/ JobEnd(j)
  \/ JobAdvance(j)

Next ==
  \/ \E j \in Jobs : StudentSubmits(j)
  \/ LateAutosave
  \/ SweepFinds
  \/ SweepSubmits
  \/ Reopen
  \/ \E c \in Workers, m \in Messages : CallbackBegin(c, m)
  \/ \E c \in Workers : CallbackCommit(c)
  \/ \E t \in Teachers, q \in Questions, s \in Scores : FinalizeBegin(t, q, s)
  \/ \E t \in Teachers : FinalizeCommit(t)
  \/ \E j \in Regrades : JobBegin(j)
  \/ \E j \in Runners : JobStep(j)
  \/ DeadlockAbort
  \/ Crash

Spec == Init /\ [][Next]_vars

(* Accepted requests and queued jobs are served, waits for a row lock are  *)
(* queues (hence strong fairness), and the database breaks deadlocks.      *)
Fairness ==
  /\ \A j \in Runners : SF_vars(JobStep(j))
  /\ \A c \in Workers : SF_vars(CallbackCommit(c))
  /\ \A t \in Teachers : SF_vars(FinalizeCommit(t))
  /\ WF_vars(DeadlockAbort)

FairSpec == Spec /\ Fairness

-----------------------------------------------------------------------------
(* Properties.                                                             *)

\* FINALIZED is the teacher's and the teacher's only: no AI writer creates it,
\* and no flush of a stale object mixes it with another source.
FinalizedIsTeachers ==
  \A q \in Questions :
    eval[q] # Null => (eval[q].status = "FINALIZED" <=> eval[q].source = "TEACHER")

\* What a teacher finalized only a teacher changes ("FINALIZED protection" of
\* process_ai_callback, "mengunci hasil penilaian" of /finalize-evaluation).
FinalizedIsLocked ==
  [][\A q \in Questions :
       eval[q] # Null /\ eval[q].status = "FINALIZED" /\ eval'[q] # eval[q]
         => \E t \in Teachers : fin[t] # Null /\ fin'[t] = Null
                                /\ eval'[q].score = fin[t].score]_vars

\* Callbacks delivered late, twice or out of order never bring back an older
\* version of an evaluation; only a new submission starts again from 1.
NoOlderVersion ==
  [][\A q \in Questions :
       eval[q] # Null /\ attempt # "OPEN" => eval'[q].version >= eval[q].version]_vars

\* The score shown for a graded attempt is the one of its evaluations.
FinalScoreAgrees == attempt = "GRADED" => Evaluated /\ final = ScoresOf(eval)

\* Every finalization a teacher asks for is answered, though it locks the rows
\* in the opposite order of the callback and of the job.
FinalizationAnswered == \A t \in Teachers : fin[t] # Null ~> fin[t] = Null

\* An attempt handed in is graded in the end.
GradingCompletes == attempt = "GRADING" ~> attempt = "GRADED"
=============================================================================
