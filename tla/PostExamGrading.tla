---------------------------- MODULE PostExamGrading ----------------------------
(***************************************************************************)
(* Grading of all essays of an exam after it, question by question for all *)
(* students, against the teachers who finalize and students whose attempts *)
(* are not over.                                                           *)
(*                                                                         *)
(* A grading run is executed by the request that starts it, which commits  *)
(* many times on the way; work says where it stands and what it has read.  *)
(* The language model answers anything: a draft has no score here, an      *)
(* evaluation only has the one a teacher gave.  Final scores are left to   *)
(* ExamGrading.                                                            *)
(***************************************************************************)
EXTENDS AssessmentMemory

CONSTANTS Attempts, Students, StudentOf,   \* a student may have several attempts
          Essays,                          \* essays of the snapshot: 1..Essays
          Runs, Null

Questions == 1..Essays

ASSUME PostExamAssumption ==
  /\ StudentOf \in [Attempts -> Students] /\ Essays \in Nat
  /\ Null \notin Scores \cup Attempts

VARIABLES
  schedule,  \* exam_schedules.status
  run,       \* grading_runs.status, or Null
  work,      \* requests under way, by run
  attempt,   \* exam_attempts.status
  eval,      \* exam_answer_evaluations: [status, score], or Null
  memory,    \* assessment_histories of each evaluation
  answer,    \* student_answers of each essay: no row, blank, or some text
  taught     \* history: the teacher's last decision on a text, or Null

vars == <<schedule, run, work, attempt, eval, memory, answer, taught>>

Cells == Attempts \X Questions
Sheets == [Cells -> {"none", "blank", "text"}]
Evaluations == [status : {"AI_PENDING", "AI_DRAFT", "FINALIZED"}, score : Scores \cup {Null}]
Works == [at : {"started", "found", "free", "created", "grading", "asked", "checked", "closing"},
          seen : SUBSET Runs,                      \* the runs it is to cancel
          next : Nat,                              \* the question it has come to
          answer : [Students -> Attempts \cup {Null}],
          failed : BOOLEAN,                        \* failed_batches > 0
          loaded : SUBSET Attempts,
          sheet : Sheets,                          \* the answers as they were read
          graded : SUBSET Attempts,                \* those found complete
          same : SUBSET Attempts]                  \* those that have their status

TypeOK ==
  /\ schedule \in {"READY", "LOCKED", "COMPLETED"}
  /\ run \in [Runs -> {"PROCESSING", "COMPLETED", "PARTIAL", "CANCELLED", Null}]
  /\ work \in [Runs -> Works \cup {Null}]
  /\ attempt \in [Attempts -> {"ABSENT", "OPEN", "GRADING", "GRADED"}]
  /\ eval \in [Cells -> Evaluations \cup {Null}]
  /\ memory \in [Cells -> Memories]
  /\ answer \in Sheets
  /\ taught \in [Cells -> Scores \cup {Null}]

Init ==
  /\ schedule \in {"READY", "COMPLETED"}
  /\ run = [r \in Runs |-> Null] /\ work = [r \in Runs |-> Null]
  /\ attempt \in [Attempts -> {"ABSENT", "OPEN", "GRADING"}]
  /\ eval = [c \in Cells |-> IF attempt[c[1]] = "GRADING"
                               THEN [status |-> "AI_PENDING", score |-> Null] ELSE Null]
  /\ memory = [c \in Cells |-> Blank]
  /\ answer \in Sheets
  /\ \A c \in Cells : attempt[c[1]] = "ABSENT" => answer[c] = "none"
  /\ taught = [c \in Cells |-> Null]

Pending(c) == eval[c] # Null /\ eval[c].status = "AI_PENDING"
Finalized(c) == eval[c] # Null /\ eval[c].status = "FINALIZED"
EvalsOf(a) == {c \in Cells : c[1] = a /\ eval[c] # Null}
Present == {a \in Attempts : attempt[a] # "ABSENT"}

-----------------------------------------------------------------------------
(* Starting a run.                                                         *)
At(r, at) == work[r] # Null /\ work[r].at = at
Goes(r, at) == work' = [work EXCEPT ![r].at = at]
Ends(r) == work' = [work EXCEPT ![r] = Null]

StartLocked(r) ==
  /\ run[r] = Null /\ work[r] = Null
  /\ schedule \in {"LOCKED", "COMPLETED"}
  /\ schedule' = "LOCKED"
  /\ work' = [work EXCEPT ![r] =
       [at |-> "started", seen |-> {}, next |-> 1, answer |-> [s \in Students |-> Null],
        failed |-> FALSE, loaded |-> {}, sheet |-> [c \in Cells |-> "none"],
        graded |-> {}, same |-> {}]]
  /\ UNCHANGED <<run, attempt, eval, memory, answer, taught>>

FindPrevious(r) ==
  /\ At(r, "started")
  /\ work' = [work EXCEPT ![r].at = "found", ![r].seen = {o \in Runs : run[o] = "PROCESSING"}]
  /\ UNCHANGED <<schedule, run, attempt, eval, memory, answer, taught>>

CancelPrevious(r) ==
  /\ At(r, "found") /\ Goes(r, "free")
  /\ run' = [o \in Runs |-> IF o \in work[r].seen THEN "CANCELLED" ELSE run[o]]
  /\ UNCHANGED <<schedule, attempt, eval, memory, answer, taught>>

CreateRun(r) ==
  /\ At(r, "free") /\ Goes(r, "created")
  /\ run' = [run EXCEPT ![r] = "PROCESSING"]
  /\ UNCHANGED <<schedule, attempt, eval, memory, answer, taught>>

\* Attempts are taken whatever their status, with all they have answered by now;
\* without any, or without essays, there is nothing to do.
Load(r) ==
  /\ At(r, "created")
  /\ IF Present = {} \/ Essays = 0
       THEN run' = [run EXCEPT ![r] = "COMPLETED"] /\ Ends(r)
       ELSE /\ work' = [work EXCEPT ![r].at = "grading", ![r].loaded = Present,
                             ![r].sheet = answer]
            /\ UNCHANGED run
  /\ UNCHANGED <<schedule, attempt, eval, memory, answer, taught>>

-----------------------------------------------------------------------------
(* One question after the other.                                           *)

\* The attempts that had a row in student_answers for the question.
Submissions(r, q) == {a \in work[r].loaded : work[r].sheet[a, q] # "none"}

\* What comes back is kept by student: of a student's attempts one is graded,
\* or none; a blank answer needs no model.
Outcomes(r, q) ==
  LET of(s) == {a \in Submissions(r, q) : StudentOf[a] = s}
  IN {f \in [Students -> Attempts \cup {Null}] :
        \A s \in Students :
          IF f[s] = Null THEN of(s) = {} \/ \E a \in of(s) : work[r].sheet[a, q] = "text"
                         ELSE f[s] \in of(s)}

SkipQuestion(r) ==
  /\ At(r, "grading") /\ work[r].next \in Questions
  /\ Submissions(r, work[r].next) = {}
  /\ work' = [work EXCEPT ![r].next = @ + 1]
  /\ UNCHANGED <<schedule, run, attempt, eval, memory, answer, taught>>

Halt(r) ==
  /\ At(r, "grading") \/ At(r, "asked")
  /\ At(r, "grading") => work[r].next \in Questions /\ Submissions(r, work[r].next) # {}
  /\ run[r] = "CANCELLED"
  /\ Ends(r)
  /\ UNCHANGED <<schedule, run, attempt, eval, memory, answer, taught>>

\* grade_question_batch
AskModel(r) ==
  LET q == work[r].next
  IN /\ At(r, "grading") /\ q \in Questions /\ Submissions(r, q) # {}
     /\ run[r] # "CANCELLED"
     /\ \E f \in Outcomes(r, q) :
          work' = [work EXCEPT ![r].at = "asked", ![r].answer = f,
                     ![r].failed = @ \/ \E a \in Submissions(r, q) : f[StudentOf[a]] = Null]
     /\ UNCHANGED <<schedule, run, attempt, eval, memory, answer, taught>>

\* The status is looked at before the rows are locked.
CheckCancelled(r) ==
  /\ At(r, "asked") /\ run[r] # "CANCELLED" /\ Goes(r, "checked")
  /\ UNCHANGED <<schedule, run, attempt, eval, memory, answer, taught>>

\* Mutant of Drafted: a draft is written whatever the row holds.
DraftedOver(c) == [status |-> "AI_DRAFT", score |-> Null]

\* Under the lock of the row, which is created if it is not there.
Drafted(c) == IF Finalized(c) THEN eval[c] ELSE [status |-> "AI_DRAFT", score |-> Null]

WriteBatch(r) ==
  LET w == work[r]
      G == {w.answer[s] : s \in Students} \ {Null}
  IN /\ At(r, "checked")
     /\ eval' = [c \in Cells |-> IF c[2] = w.next /\ c[1] \in G THEN Drafted(c) ELSE eval[c]]
     /\ work' = [work EXCEPT ![r].at = "grading", ![r].next = @ + 1]
     /\ UNCHANGED <<schedule, run, attempt, memory, answer, taught>>

-----------------------------------------------------------------------------
(* Closing a run, cancelled or not.                                        *)

\* Graded: some evaluation, and none pending.
Complete(a) == EvalsOf(a) # {} /\ \A c \in EvalsOf(a) : ~Pending(c)

Verdict(a, graded) == IF a \in graded THEN "GRADED" ELSE "GRADING"

\* The evaluations are read without a lock, and the attempts again.
ReadVerdicts(r) ==
  LET graded == {a \in work[r].loaded : Complete(a)}
  IN /\ At(r, "grading") /\ work[r].next \notin Questions
     /\ work' = [work EXCEPT ![r].at = "closing", ![r].graded = graded,
          ![r].same = {a \in work[r].loaded : attempt[a] = Verdict(a, graded)}]
     /\ UNCHANGED <<schedule, run, attempt, eval, memory, answer, taught>>

\* Mutant of Succeeded: no batch failed.
NoneFailed(w) == ~w.failed

\* No batch failed, and every attempt was found complete.
Succeeded(w) == ~w.failed /\ w.graded = w.loaded

CloseRun(r) ==
  LET w == work[r]
  IN /\ At(r, "closing") /\ Ends(r)
     /\ attempt' = [a \in Attempts |->
          IF a \in w.loaded \ w.same THEN Verdict(a, w.graded) ELSE attempt[a]]
     /\ run' = [run EXCEPT ![r] = IF Succeeded(w) THEN "COMPLETED" ELSE "PARTIAL"]
     /\ schedule' = IF Succeeded(w) THEN "COMPLETED" ELSE schedule
     /\ UNCHANGED <<eval, memory, answer, taught>>

\* The server dies, and the request with it.
Crash(r) ==
  /\ work[r] # Null /\ Ends(r)
  /\ UNCHANGED <<schedule, run, attempt, eval, memory, answer, taught>>

-----------------------------------------------------------------------------
(* Everybody else.                                                         *)

\* close_package, of an administrator or by the clock.
ClosePackage ==
  /\ schedule' = "COMPLETED"
  /\ UNCHANGED <<run, work, attempt, eval, memory, answer, taught>>

\* Mutant of SubmitAttempt: the essays keep the attempt SUBMITTED.
StaysSubmitted(a) ==
  /\ attempt[a] = "OPEN"
  /\ attempt' = [attempt EXCEPT ![a] = "SUBMITTED"]
  /\ eval' = [c \in Cells |-> IF c[1] = a THEN [status |-> "AI_PENDING", score |-> Null]
                              ELSE eval[c]]
  /\ UNCHANGED <<schedule, run, work, memory, answer, taught>>

\* submit_attempt, by the student or by the sweep.
SubmitAttempt(a) ==
  /\ attempt[a] = "OPEN"
  /\ attempt' = [attempt EXCEPT ![a] = "GRADING"]
  /\ eval' = [c \in Cells |-> IF c[1] = a THEN [status |-> "AI_PENDING", score |-> Null]
                              ELSE eval[c]]
  /\ UNCHANGED <<schedule, run, work, memory, answer, taught>>

\* A device reset sets PAUSED whatever the attempt was.
ResetDevice(a) ==
  /\ attempt[a] # "ABSENT"
  /\ attempt' = [attempt EXCEPT ![a] = "OPEN"]
  /\ UNCHANGED <<schedule, run, work, eval, memory, answer, taught>>

\* autosave_answer: another text, or none, for as long as the attempt is open;
\* an answer without a text stays as a blank row.
Autosave(c, written) ==
  /\ attempt[c[1]] = "OPEN"
  /\ answer' = [answer EXCEPT ![c] = written]
  /\ UNCHANGED <<schedule, run, work, attempt, eval, memory, taught>>

\* finalize_evaluation; a decision on a blank answer is not remembered, and
\* leaves what is remembered as it was.
Finalize(c, s, encoded) ==
  /\ eval[c] # Null
  /\ eval' = [eval EXCEPT ![c] = [status |-> "FINALIZED", score |-> s]]
  /\ IF answer[c] = "text"
       THEN /\ memory' = [memory EXCEPT ![c] = Capture(@, s, encoded)]
            /\ taught' = [taught EXCEPT ![c] = s]
       ELSE UNCHANGED <<memory, taught>>
  /\ attempt' = [attempt EXCEPT ![c[1]] = "GRADED"]
  /\ UNCHANGED <<schedule, run, work, answer>>

-----------------------------------------------------------------------------
RunStep(r) ==
  \/ StartLocked(r) \/ FindPrevious(r) \/ CancelPrevious(r) \/ CreateRun(r) \/ Load(r)
  \/ SkipQuestion(r) \/ Halt(r) \/ AskModel(r) \/ CheckCancelled(r) \/ WriteBatch(r)
  \/ ReadVerdicts(r) \/ CloseRun(r)

Next ==
  \/ \E r \in Runs : RunStep(r) \/ Crash(r)
  \/ ClosePackage
  \/ \E a \in Attempts : SubmitAttempt(a) \/ ResetDevice(a)
  \/ \E c \in Cells, written \in {"blank", "text"} : Autosave(c, written)
  \/ \E c \in Cells, s \in Scores, encoded \in BOOLEAN : Finalize(c, s, encoded)

Spec == Init /\ [][Next]_vars

-----------------------------------------------------------------------------
\* "Never overwrite": whichever runs are under way, started before or after,
\* what a teacher has finalized changes by a teacher's decision only, until
\* the student hands the attempt in again.
BatchKeepsFinalized ==
  [][\A c \in Cells : Finalized(c) =>
       \/ eval'[c].status = "FINALIZED"
       \/ attempt[c[1]] = "OPEN" /\ attempt'[c[1]] = "GRADING"]_vars

\* One version of an evaluation is current, the last; and what the model is shown
\* of it is the score the teacher gave when he last decided on a text, though the
\* student be let in again, empty the answer and be graded on the blank: such a
\* decision is not remembered and takes nothing back.
MemoryIsTeachers ==
  \A c \in Cells :
    /\ \A v \in DOMAIN memory[c] : memory[c][v].current <=> v = Len(memory[c])
    /\ \A v \in Candidates(memory[c]) : memory[c][v].score = taught[c]

\* Nobody has the exam before them.
RoomOver == \A a \in Attempts : attempt[a] # "OPEN"

\* Once the room is over, a run that reports COMPLETED leaves no essay of an
\* attempt it has closed to be graded, though the two attempts of a student
\* share one place in the model's answer and another run may be under way.
ClosesGraded ==
  \A r \in Runs :
    run[r] # "COMPLETED" /\ run'[r] = "COMPLETED" /\ work[r].loaded # {} =>
      \A a \in work[r].loaded : \A c \in EvalsOf(a) : ~Pending(c)
================================================================================
