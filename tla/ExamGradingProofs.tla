------------------------- MODULE ExamGradingProofs -------------------------
(***************************************************************************)
(* What ExamGrading guarantees for any number of essays, callbacks,        *)
(* teachers, jobs and regrades, with crashes, aborts and reopened attempts. *)
(*                                                                         *)
(* A job writes an evaluation long after it has loaded it, and writes only *)
(* the columns it changed.  That this never mixes a teacher's status with  *)
(* another's authorship rests on the agreement of status and source in     *)
(* every row, in the table and in the memory of every job.                 *)
(***************************************************************************)
EXTENDS ExamGrading, TLAPS

Sound(row) ==
  /\ row.status = "FINALIZED" <=> row.source = "TEACHER"
  /\ row.status = "AI_DRAFT" <=> row.source = "AI"

\* What a job remembers of the rows it has loaded.
Memory(state) ==
  /\ state.locked => state.view # Null
  /\ state.view # Null =>
       \A q \in Questions : state.view[q] # Null /\ Sound(state.view[q])
  /\ state.pc = "llm" => state.question # Null /\ state.loaded # Null
  /\ state.loaded # Null => Sound(state.loaded)

JobInv(j) == Memory(job[j]) /\ (job[j].pc # "idle" => Evaluated)

RowsInv ==
  \A q \in Questions : eval[q] # Null => Evaluated /\ Sound(eval[q])

InFlightInv ==
  /\ attempt # "OPEN" => Evaluated
  /\ \A c \in Workers : cb[c] # Null => Evaluated
  /\ \A t \in Teachers : fin[t] # Null => Evaluated

Inv == TypeOK /\ RowsInv /\ InFlightInv /\ \A j \in Runners : JobInv(j)

-----------------------------------------------------------------------------
(* Rows.                                                                   *)

\* What an AI writer stores is a row of the table, and a sound one.
LEMMA DraftSound ==
  ASSUME NEW s \in Nat, NEW v \in Nat
  PROVE  Draft(s, v) \in Rows /\ Sound(Draft(s, v))
  BY DEF Draft, Rows, Sound

\* Flushing a changed object over a newer row mixes two sound rows into a
\* sound one: status and source are written together or not at all.
LEMMA FlushSound ==
  ASSUME NEW row \in Rows, NEW loaded \in Rows, NEW s \in Nat, NEW v \in Nat,
         Sound(row), Sound(loaded)
  PROVE  /\ Flush(row, loaded, Draft(s, v)) \in Rows
         /\ Sound(Flush(row, loaded, Draft(s, v)))
  BY DEF Flush, Draft, Rows, Sound

\* The scores of a complete table are what final_score is computed from.
LEMMA ScoresType ==
  ASSUME NEW table \in [Questions -> Rows]
  PROVE  ScoresOf(table) \in [Questions -> Nat]
  BY DEF ScoresOf, Rows

\* Once every question has a sound row it keeps one: the steps that write the
\* table satisfy the invariant's part about rows and requests in flight.
LEMMA TableKept ==
  ASSUME Inv, eval' \in [Questions -> Rows], \A q \in Questions : Sound(eval'[q])
  PROVE  RowsInv' /\ InFlightInv' /\ Evaluated'
<1>1. Evaluated'
  BY NullAssumption DEF Evaluated
<1> QED
  BY <1>1 DEF RowsInv, InFlightInv

\* A complete, sound table.
LEMMA TableSound ==
  ASSUME Inv, Evaluated
  PROVE  eval \in [Questions -> Rows] /\ \A q \in Questions : Sound(eval[q])
  BY DEF Inv, TypeOK, RowsInv, Evaluated

-----------------------------------------------------------------------------
(* Jobs.                                                                   *)

\* A job that does nothing remembers nothing.
LEMMA NoJobSound == NoJob \in JobStates /\ Memory(NoJob) /\ NoJob.pc = "idle"
  BY DEF NoJob, JobStates, Memory

\* One runner goes to a state with a sound memory, the others stay.
LEMMA JobMoves ==
  ASSUME Inv, Evaluated => Evaluated', NEW j \in Runners, NEW state \in JobStates,
         job' = [job EXCEPT ![j] = state],
         Memory(state), state.pc # "idle" => Evaluated'
  PROVE  job' \in [Runners -> JobStates] /\ \A k \in Runners : JobInv(k)'
<1>1. \A k \in Runners : job'[k] = IF k = j THEN state ELSE job[k]
  BY DEF Inv, TypeOK
<1>2. job' \in [Runners -> JobStates]
  BY DEF Inv, TypeOK
<1>3. ASSUME NEW k \in Runners
      PROVE  JobInv(k)'
  <2>1. CASE k # j
    BY <1>1, <2>1 DEF Inv, JobInv, Memory
  <2>2. CASE k = j
    BY <1>1, <2>2 DEF JobInv, Memory
  <2> QED
    BY <2>1, <2>2
<1> QED
  BY <1>2, <1>3

\* Steps that leave the jobs and a complete table complete.
LEMMA JobsStay ==
  ASSUME Inv, Evaluated => Evaluated', UNCHANGED job
  PROVE  job' \in [Runners -> JobStates] /\ \A k \in Runners : JobInv(k)'
  BY DEF Inv, TypeOK, JobInv, Memory

-----------------------------------------------------------------------------
(* Steps.                                                                  *)

\* There is no row and no request at first.
LEMMA InitInv == Init => Inv
<1> SUFFICES ASSUME Init PROVE Inv
  OBVIOUS
<1>1. TypeOK
  BY NoJobSound DEF Init, TypeOK
<1>2. \A j \in Runners : JobInv(j)
  BY NoJobSound DEF Init, JobInv
<1> QED
  BY <1>1, <1>2 DEF Init, Inv, RowsInv, InFlightInv

\* A submission evaluates every question anew.
LEMMA HandInKeeps ==
  ASSUME Inv, HandIn
  PROVE  /\ attempt' \in {"GRADING", "GRADED"}
         /\ final' \in [Questions -> Nat] \cup {Null}
         /\ eval' \in [Questions -> Rows]
         /\ RowsInv' /\ InFlightInv' /\ Evaluated'
<1>1. eval' \in [Questions -> Rows] /\ \A q \in Questions : Sound(eval'[q])
  BY GradingAssumption DEF HandIn, SubmitRows, Rows, Sound
<1>2. RowsInv' /\ InFlightInv' /\ Evaluated'
  BY <1>1, TableKept
<1> QED
  BY <1>1, <1>2, ScoresType DEF HandIn, Inv, TypeOK

\* The submissions and the steps that write neither rows nor jobs.
LEMMA SubmissionInv ==
  ASSUME Inv, (\E j \in Jobs : StudentSubmits(j)) \/ LateAutosave \/ SweepFinds
              \/ SweepSubmits \/ Reopen
  PROVE  Inv'
<1>1. CASE LateAutosave \/ SweepSubmits
  <2>1. HandIn
    BY <1>1 DEF LateAutosave, SubmitAttempt, SweepSubmits
  <2>2. TypeOK'
    BY <1>1, <2>1, HandInKeeps DEF Inv, TypeOK, LateAutosave, SweepSubmits
  <2> QED
    BY <1>1, <2>1, <2>2, HandInKeeps, JobsStay DEF Inv, LateAutosave, SweepSubmits
<1>2. CASE SweepFinds \/ Reopen
  <2>1. TypeOK'
    BY <1>2 DEF Inv, TypeOK, SweepFinds, Reopen
  <2> QED
    BY <1>2, <2>1, JobsStay
    DEF Inv, RowsInv, InFlightInv, Evaluated, SweepFinds, Reopen
<1>3. ASSUME NEW j \in Jobs, StudentSubmits(j)
      PROVE  Inv'
  <2>1. /\ attempt' \in {"OPEN", "GRADING", "GRADED"}
        /\ final' \in [Questions -> Nat] \cup {Null}
        /\ eval' \in [Questions -> Rows \cup {Null}]
        /\ RowsInv' /\ InFlightInv' /\ Evaluated'
    <3>1. CASE HandIn
      BY <3>1, HandInKeeps
    <3>2. CASE attempt \in {"GRADING", "GRADED"} /\ UNCHANGED <<attempt, final, eval>>
      BY <1>3, <3>2
      DEF StudentSubmits, Inv, TypeOK, RowsInv, InFlightInv, Evaluated
    <3> QED
      BY <1>3, <3>1, <3>2 DEF StudentSubmits, SubmitAttempt
  <2>2. job' \in [Runners -> JobStates] /\ \A k \in Runners : JobInv(k)'
    <3>1. CASE UNCHANGED job
      BY <2>1, <3>1, JobsStay
    <3>2. CASE QueueJob(j)
      <4> DEFINE state == [job[j] EXCEPT !.pc = "queued"]
      <4>1. job[j] \in JobStates /\ Memory(job[j]) /\ job[j].pc = "idle" /\ j \in Runners
        BY <3>2 DEF QueueJob, Inv, TypeOK, JobInv, Runners
      <4>2. state \in JobStates /\ Memory(state)
        BY <4>1 DEF JobStates, Memory
      <4>3. job' = [job EXCEPT ![j] = state]
        BY <3>2 DEF QueueJob
      <4> HIDE DEF state
      <4> QED
        BY <2>1, <4>1, <4>2, <4>3, JobMoves
    <3> QED
      BY <1>3, <3>1, <3>2 DEF StudentSubmits
  <2>3. TypeOK'
    BY <1>3, <2>1, <2>2 DEF Inv, TypeOK, StudentSubmits
  <2> QED
    BY <2>1, <2>2, <2>3 DEF Inv
<1> QED
  BY <1>1, <1>2, <1>3

\* Callbacks and finalizations.
LEMMA RequestInv ==
  ASSUME Inv,
         \/ \E c \in Workers, m \in Messages : CallbackBegin(c, m)
         \/ \E c \in Workers : CallbackCommit(c)
         \/ \E t \in Teachers, q \in Questions, s \in Scores : FinalizeBegin(t, q, s)
         \/ \E t \in Teachers : FinalizeCommit(t)
  PROVE  Inv'
<1> USE GradingAssumption
<1>1. ASSUME NEW c \in Workers, NEW m \in Messages, CallbackBegin(c, m)
      PROVE  Inv'
  <2>1. TypeOK'
    BY <1>1 DEF Inv, TypeOK, CallbackBegin
  <2>2. RowsInv' /\ InFlightInv'
    BY <1>1 DEF Inv, RowsInv, InFlightInv, CallbackBegin, Evaluated
  <2> QED
    BY <1>1, <2>1, <2>2, JobsStay DEF Inv, CallbackBegin, Evaluated
<1>2. ASSUME NEW c \in Workers, CallbackCommit(c)
      PROVE  Inv'
  <2>1. cb[c] \in Messages
    BY <1>2 DEF CallbackCommit, Inv, TypeOK
  <2>2. cb[c].question \in Questions /\ Evaluated
    BY <1>2, <2>1 DEF CallbackCommit, Inv, InFlightInv
  <2>3. Draft(cb[c].score, cb[c].version) \in Rows
        /\ Sound(Draft(cb[c].score, cb[c].version))
    BY <2>1, DraftSound
  <2>4. eval' \in [Questions -> Rows] /\ \A q \in Questions : Sound(eval'[q])
    BY <1>2, <2>2, <2>3, TableSound DEF CallbackCommit
  <2>5. RowsInv' /\ InFlightInv' /\ Evaluated'
    BY <2>4, TableKept
  <2>6. TypeOK'
    BY <1>2, <2>1, <2>4 DEF Inv, TypeOK, CallbackCommit
  <2> QED
    BY <1>2, <2>5, <2>6, JobsStay DEF Inv, CallbackCommit
<1>3. ASSUME NEW t \in Teachers, NEW q \in Questions, NEW s \in Scores,
             FinalizeBegin(t, q, s)
      PROVE  Inv'
  <2>1. TypeOK'
    BY <1>3 DEF Inv, TypeOK, FinalizeBegin
  <2>2. RowsInv' /\ InFlightInv'
    BY <1>3 DEF Inv, RowsInv, InFlightInv, FinalizeBegin, Evaluated
  <2> QED
    BY <1>3, <2>1, <2>2, JobsStay DEF Inv, FinalizeBegin, Evaluated
<1>4. ASSUME NEW t \in Teachers, FinalizeCommit(t)
      PROVE  Inv'
  <2>1. fin[t] \in [question : Questions, score : Nat]
    BY <1>4 DEF FinalizeCommit, Inv, TypeOK
  <2>2. Evaluated
    BY <1>4 DEF FinalizeCommit, Inv, InFlightInv
  <2> DEFINE q == fin[t].question
             row == [eval[q] EXCEPT !.status = "FINALIZED", !.source = "TEACHER",
                                    !.score = fin[t].score]
  <2>3. q \in Questions /\ eval[q] \in Rows
    BY <2>1, <2>2, TableSound
  <2>4. row \in Rows /\ Sound(row)
    BY <2>1, <2>3 DEF Rows, Sound
  <2>5. eval' = [eval EXCEPT ![q] = row]
    BY <1>4 DEF FinalizeCommit
  <2>6. eval' \in [Questions -> Rows] /\ \A p \in Questions : Sound(eval'[p])
    <3> HIDE DEF row
    <3> QED
      BY <2>2, <2>3, <2>4, <2>5, TableSound
  <2>7. RowsInv' /\ InFlightInv' /\ Evaluated'
    BY <2>6, TableKept
  <2>8. ScoresOf(eval') \in [Questions -> Nat]
    BY <2>6, ScoresType
  <2>9. TypeOK'
    BY <1>4, <2>6, <2>8 DEF Inv, TypeOK, FinalizeCommit
  <2> QED
    BY <1>4, <2>7, <2>9, JobsStay DEF Inv, FinalizeCommit
<1> QED
  BY <1>1, <1>2, <1>3, <1>4

\* Background jobs and regrades.
LEMMA JobStepInv ==
  ASSUME Inv, NEW j \in Runners, JobBegin(j) \/ JobStep(j)
  PROVE  Inv'
<1> USE GradingAssumption
<1>1. job[j] \in JobStates /\ Memory(job[j])
  BY DEF Inv, TypeOK, JobInv
<1>2. ASSUME UNCHANGED <<eval, events, cb, fin, sweep>>, Evaluated,
             attempt' \in {attempt, "GRADED"},
             final' \in [Questions -> Nat] \cup {Null},
             NEW state \in JobStates, Memory(state), job' = [job EXCEPT ![j] = state]
      PROVE  Inv'
  <2>1. Evaluated'
    BY <1>2 DEF Evaluated
  <2>2. job' \in [Runners -> JobStates] /\ \A k \in Runners : JobInv(k)'
    BY <1>2, <2>1, JobMoves
  <2>3. TypeOK'
    BY <1>2, <2>2 DEF Inv, TypeOK
  <2> QED
    BY <1>2, <2>1, <2>2, <2>3 DEF Inv, RowsInv, InFlightInv
<1>3. CASE JobBegin(j)
  <2> DEFINE state == [NoJob EXCEPT !.pc = "loop", !.locked = TRUE, !.view = eval,
                         !.todo = IF attempt = "GRADING" THEN Essays ELSE {}]
  <2>1. Evaluated
    BY <1>3 DEF JobBegin, Inv, InFlightInv, JobInv
  <2>2. eval \in [Questions -> Rows \cup {Null}] /\ eval # Null
    BY NullAssumption DEF Inv, TypeOK
  <2>3. \A q \in Questions : eval[q] # Null /\ Sound(eval[q])
    BY <2>1, TableSound DEF Evaluated
  <2>4. state \in JobStates /\ Memory(state)
    BY <2>2, <2>3 DEF NoJob, JobStates, Memory, Questions
  <2>5. job' = [job EXCEPT ![j] = state]
    BY <1>3 DEF JobBegin
  <2>6. UNCHANGED <<attempt, final, eval, events, cb, fin, sweep>>
    BY <1>3 DEF JobBegin
  <2> HIDE DEF state
  <2> QED
    BY <1>2, <2>1, <2>4, <2>5, <2>6 DEF Inv, TypeOK
<1>4. ASSUME NEW q \in Essays, JobPick(j, q)
      PROVE  Inv'
  <2> DEFINE row == IF job[j].locked THEN job[j].view[q] ELSE eval[q]
             left == job[j].todo \ {q}
             graded == [job[j] EXCEPT !.pc = "llm", !.question = q,
                                      !.loaded = row, !.todo = left]
             passed == [job[j] EXCEPT !.todo = left]
  <2>1. q \in Questions /\ Evaluated
    BY <1>4 DEF JobPick, Inv, JobInv, Questions
  <2>2. row \in Rows /\ Sound(row)
    <3>1. CASE job[j].locked
      BY <1>1, <2>1, <3>1 DEF Memory, JobStates
    <3>2. CASE ~job[j].locked
      BY <2>1, <3>2, TableSound
    <3> QED
      BY <3>1, <3>2
  <2>3. row # Null /\ q # Null
    BY <2>1, <2>2, NullAssumption
  <2>4. \/ job' = [job EXCEPT ![j] = graded]
        \/ job' = [job EXCEPT ![j] = passed]
    BY <1>4 DEF JobPick
  <2>5. graded \in JobStates /\ Memory(graded)
    <3> HIDE DEF row
    <3> QED
      BY <1>1, <2>1, <2>2, <2>3 DEF JobStates, Memory
  <2>6. passed \in JobStates /\ Memory(passed)
    BY <1>1 DEF JobStates, Memory
  <2>7. UNCHANGED <<attempt, final, eval, events, cb, fin, sweep>>
    BY <1>4 DEF JobPick
  <2> HIDE DEF graded, passed
  <2> QED
    BY <1>2, <2>1, <2>4, <2>5, <2>6, <2>7 DEF Inv, TypeOK
<1>5. ASSUME NEW s \in Scores \cup {0}, JobWrite(j, s)
      PROVE  Inv'
  <2> DEFINE q == job[j].question
             row == Flush(eval[q], job[j].loaded, Draft(s, 1))
             state == [job[j] EXCEPT !.pc = "loop", !.question = Null,
                         !.loaded = Null, !.locked = FALSE, !.view = Null]
  <2>1. /\ q \in Questions /\ Evaluated
        /\ job[j].loaded \in Rows /\ Sound(job[j].loaded)
    BY <1>1, <1>5 DEF JobWrite, Memory, JobStates, Inv, JobInv
  <2>2. row \in Rows /\ Sound(row)
    BY <2>1, TableSound, FlushSound
  <2>3. eval' = [eval EXCEPT ![q] = row] /\ job' = [job EXCEPT ![j] = state]
    BY <1>5 DEF JobWrite
  <2>4. state \in JobStates /\ Memory(state)
    BY <1>1 DEF JobStates, Memory
  <2> HIDE DEF row, state
  <2>5. eval' \in [Questions -> Rows] /\ \A p \in Questions : Sound(eval'[p])
    BY <2>1, <2>2, <2>3, TableSound
  <2>6. RowsInv' /\ InFlightInv' /\ Evaluated'
    BY <2>5, TableKept
  <2>7. job' \in [Runners -> JobStates] /\ \A k \in Runners : JobInv(k)'
    BY <2>3, <2>4, <2>6, JobMoves
  <2>8. TypeOK'
    BY <1>5, <2>5, <2>7 DEF Inv, TypeOK, JobWrite
  <2> QED
    BY <2>6, <2>7, <2>8 DEF Inv
<1>6. CASE JobSkip(j)
  <2> DEFINE state == [job[j] EXCEPT !.pc = "loop", !.question = Null, !.loaded = Null]
  <2>1. Evaluated
    BY <1>6 DEF JobSkip, Inv, JobInv
  <2>2. state \in JobStates /\ Memory(state)
    BY <1>1 DEF JobStates, Memory
  <2>3. job' = [job EXCEPT ![j] = state]
    BY <1>6 DEF JobSkip
  <2>4. UNCHANGED <<attempt, final, eval, events, cb, fin, sweep>>
    BY <1>6 DEF JobSkip
  <2> HIDE DEF state
  <2> QED
    BY <1>2, <2>1, <2>2, <2>3, <2>4 DEF Inv, TypeOK
<1>7. CASE JobEnd(j)
  <2> DEFINE state == [job[j] EXCEPT !.pc = "advance", !.scores = ScoresOf(eval)]
  <2>1. Evaluated
    BY <1>7 DEF JobEnd, Inv, JobInv
  <2>2. ScoresOf(eval) \in [Questions -> Nat]
    BY <2>1, TableSound, ScoresType
  <2>3. state \in JobStates /\ Memory(state)
    BY <1>1, <2>2 DEF JobStates, Memory
  <2>4. job' = [job EXCEPT ![j] = state] \/ job' = [job EXCEPT ![j] = NoJob]
    BY <1>7 DEF JobEnd
  <2>5. UNCHANGED <<attempt, final, eval, events, cb, fin, sweep>>
    BY <1>7 DEF JobEnd
  <2> HIDE DEF state
  <2> QED
    BY <1>2, <2>1, <2>3, <2>4, <2>5, NoJobSound DEF Inv, TypeOK
<1>8. CASE JobAdvance(j)
  <2>1. Evaluated
    BY <1>8 DEF JobAdvance, Inv, JobInv
  <2>2. job[j].scores \in [Questions -> Nat] \cup {Null}
    BY <1>1 DEF JobStates
  <2> QED
    BY <1>2, <1>8, <2>1, <2>2, NoJobSound DEF JobAdvance
<1> QED
  BY <1>3, <1>4, <1>5, <1>6, <1>7, <1>8 DEF JobStep

\* An abort or a crash only forgets requests.
LEMMA AbortInv ==
  ASSUME Inv, DeadlockAbort \/ Crash
  PROVE  Inv'
<1>1. UNCHANGED <<attempt, final, eval, events>> /\ sweep' \in {"idle", "due"}
      /\ (Evaluated => Evaluated')
  BY DEF DeadlockAbort, Crash, Evaluated, Inv, TypeOK
<1>2. ASSUME cb' \in [Workers -> Messages \cup {Null}],
             fin' \in [Teachers -> [question : Questions, score : Nat] \cup {Null}],
             \A c \in Workers : cb'[c] # Null => cb[c] # Null,
             \A t \in Teachers : fin'[t] # Null => fin[t] # Null,
             job' \in [Runners -> JobStates], \A k \in Runners : JobInv(k)'
      PROVE  Inv'
  <2>1. TypeOK'
    BY <1>1, <1>2 DEF Inv, TypeOK
  <2> QED
    BY <1>1, <1>2, <2>1 DEF Inv, RowsInv, InFlightInv
<1>3. CASE Crash
  <2>1. job' \in [Runners -> JobStates] /\ \A k \in Runners : JobInv(k)'
    BY <1>3, NoJobSound DEF Crash, JobInv, Memory
  <2> QED
    BY <1>2, <1>3, <2>1 DEF Crash
<1>4. ASSUME NEW t \in Teachers, AbortTeacher(t)
      PROVE  Inv'
  BY <1>1, <1>2, <1>4, JobsStay DEF AbortTeacher, Inv, TypeOK
<1>5. ASSUME NEW c \in Workers, AbortWorker(c)
      PROVE  Inv'
  BY <1>1, <1>2, <1>5, JobsStay DEF AbortWorker, Inv, TypeOK
<1>6. ASSUME NEW j \in Runners, AbortJob(j)
      PROVE  Inv'
  <2>1. job' \in [Runners -> JobStates] /\ \A k \in Runners : JobInv(k)'
    BY <1>1, <1>6, NoJobSound, JobMoves DEF AbortJob
  <2> QED
    BY <1>2, <1>6, <2>1 DEF AbortJob, Inv, TypeOK
<1> QED
  BY <1>3, <1>4, <1>5, <1>6 DEF DeadlockAbort

\* Every step keeps the invariant.
LEMMA NextInv == Inv /\ [Next]_vars => Inv'
<1> SUFFICES ASSUME Inv, [Next]_vars PROVE Inv'
  OBVIOUS
<1>1. CASE UNCHANGED vars
  <2>1. TypeOK'
    BY <1>1 DEF Inv, TypeOK, vars
  <2> QED
    BY <1>1, <2>1, JobsStay DEF Inv, RowsInv, InFlightInv, Evaluated, vars
<1> QED
  BY <1>1, SubmissionInv, RequestInv, JobStepInv, AbortInv DEF Next, Runners

\* Types, agreement of status and source, and completeness of the table once a
\* submission has been evaluated hold in every reachable state.
THEOREM Invariance == Spec => []Inv
  BY InitInv, NextInv, PTL DEF Spec

\* Every column holds a value its enumeration admits.
THEOREM TypeCorrect == Spec => []TypeOK
  BY Invariance, PTL DEF Inv

\* A row is FINALIZED exactly when a teacher is its author, although jobs and
\* regrades flush objects they loaded long before, with any number of writers,
\* crashes and resubmissions.
THEOREM TeachersOnly == Spec => []FinalizedIsTeachers
<1>1. Inv => FinalizedIsTeachers
  BY DEF Inv, RowsInv, Sound, FinalizedIsTeachers
<1> QED
  BY Invariance, <1>1, PTL

-----------------------------------------------------------------------------
(* Callbacks of the AI service against teachers, for any number of         *)
(* questions, messages, threads that serve callbacks and teachers, with    *)
(* deadlocks broken by aborts, and crashes.                                *)
(*                                                                         *)
(* Background jobs and the sweep are left out, because what is proved here *)
(* is false with them: a job writes on a lock it no longer holds, the      *)
(* sweep hands in on a status it has read earlier.                         *)

CallbacksOnly == Runners = {} /\ "sweep" \notin Submitters
Closed == CallbacksOnly /\ ~MayReopen

\* A delivery in flight has the attempt locked, and found it in GRADING; the
\* sweep has found nothing; what is open has never been evaluated; and a
\* graded attempt shows the score of its rows.
CallbackInv ==
  /\ Inv
  /\ sweep = "idle"
  /\ \A c \in Workers : cb[c] # Null => attempt = "GRADING"
  /\ attempt = "OPEN" => \A q \in Questions : eval[q] = Null
  /\ FinalScoreAgrees

-----------------------------------------------------------------------------
\* Who finds the attempt free finds no delivery in flight.
LEMMA NoDelivery ==
  ASSUME AttemptFree(Null)
  PROVE  \A c \in Workers : cb[c] = Null
  BY NullAssumption DEF AttemptFree

\* Nothing is in flight and nothing evaluated at first.
LEMMA CallbackInit == Init => CallbackInv
<1> SUFFICES ASSUME Init PROVE CallbackInv
  OBVIOUS
<1> QED
  BY InitInv DEF Init, CallbackInv, FinalScoreAgrees

\* Handing in evaluates every question, and shows the score if no essay is
\* left to be graded.
LEMMA HandInCallbacks ==
  ASSUME CallbackInv, HandIn, UNCHANGED <<cb, sweep>>, Inv'
  PROVE  CallbackInv'
<1>1. /\ attempt' \in {"GRADING", "GRADED"}
      /\ attempt' = "GRADED" => final' = ScoresOf(eval')
  BY DEF HandIn
<1>2. Evaluated'
  BY HandInKeeps DEF CallbackInv
<1>3. \A c \in Workers : cb[c] = Null
  BY NoDelivery DEF HandIn
<1> QED
  BY <1>1, <1>2, <1>3 DEF CallbackInv, FinalScoreAgrees, ScoresOf, Evaluated

\* Steps that leave the attempt, its score and the rows, and start no delivery
\* unless the attempt is in GRADING.
LEMMA NothingWritten ==
  ASSUME CallbackInv, Inv', UNCHANGED <<attempt, final, eval>>, sweep' = "idle",
         \A c \in Workers : cb'[c] # Null => cb[c] # Null \/ attempt = "GRADING"
  PROVE  CallbackInv'
  BY DEF CallbackInv, FinalScoreAgrees, ScoresOf, Evaluated

\* Every step keeps the invariant: callback and finalization exclude each
\* other by the lock of the attempt, whichever evaluation they are about.
LEMMA CallbackNext == Closed => (CallbackInv /\ [Next]_vars => CallbackInv')
<1> SUFFICES ASSUME Closed, CallbackInv, [Next]_vars PROVE CallbackInv'
  OBVIOUS
<1> USE DEF Closed, CallbacksOnly
<1>1. Inv'
  BY NextInv DEF CallbackInv
<1>2. CASE UNCHANGED vars
  BY <1>1, <1>2, NothingWritten DEF vars, CallbackInv
<1>3. CASE LateAutosave
  BY <1>1, <1>3, HandInCallbacks DEF LateAutosave, SubmitAttempt
<1>4. CASE SweepSubmits
  BY <1>4 DEF SweepSubmits, CallbackInv
<1>5. ASSUME NEW c \in Workers, NEW m \in Messages, CallbackBegin(c, m)
      PROVE  CallbackInv'
  <2>1. \A d \in Workers : cb'[d] # Null => cb[d] # Null \/ attempt = "GRADING"
    BY <1>5 DEF CallbackBegin
  <2> QED
    BY <1>1, <1>5, <2>1, NothingWritten DEF CallbackBegin, CallbackInv
<1>6. ASSUME NEW c \in Workers, CallbackCommit(c)
      PROVE  CallbackInv'
  <2>1. attempt = "GRADING" /\ attempt' = "GRADING"
    BY <1>6 DEF CallbackCommit, CallbackInv
  <2> QED
    BY <1>1, <1>6, <2>1 DEF CallbackCommit, CallbackInv, FinalScoreAgrees
<1>7. ASSUME NEW t \in Teachers, NEW q \in Questions, NEW s \in Scores,
             FinalizeBegin(t, q, s)
      PROVE  CallbackInv'
  BY <1>1, <1>7, NothingWritten DEF FinalizeBegin, CallbackInv
<1>8. ASSUME NEW t \in Teachers, FinalizeCommit(t)
      PROVE  CallbackInv'
  <2>1. \A c \in Workers : cb'[c] = Null
    BY <1>8, NoDelivery DEF FinalizeCommit
  <2>2. attempt' = "GRADED" /\ sweep' = "idle"
    BY <1>8 DEF FinalizeCommit, CallbackInv
  <2>3. Evaluated'
    BY <1>1, <2>2 DEF Inv, InFlightInv
  <2>4. final' = ScoresOf(eval')
    BY <1>8 DEF FinalizeCommit
  <2>5. final' = ScoresOf(eval)'
    BY <2>4 DEF ScoresOf
  <2> QED
    BY <1>1, <2>1, <2>2, <2>3, <2>5 DEF CallbackInv, FinalScoreAgrees
<1>9. CASE DeadlockAbort
  <2>1. \A c \in Workers : cb'[c] # Null => cb[c] # Null
    BY <1>9 DEF DeadlockAbort, AbortTeacher, AbortWorker, AbortJob, CallbackInv, Inv, TypeOK
  <2> QED
    BY <1>1, <1>9, <2>1, NothingWritten DEF DeadlockAbort, CallbackInv
<1>10. CASE Crash
  BY <1>1, <1>10, NothingWritten DEF Crash
<1>11. ~SweepFinds /\ ~Reopen /\ Jobs = {} /\ Regrades = {}
  BY DEF SweepFinds, Reopen, Runners
<1> QED
  BY <1>2, <1>3, <1>4, <1>5, <1>6, <1>7, <1>8, <1>9, <1>10, <1>11 DEF Next

\* The invariant in every reachable state.
THEOREM CallbackInvariance == Closed => (Spec => []CallbackInv)
<1> SUFFICES ASSUME Closed PROVE Spec => []CallbackInv
  OBVIOUS
<1>1. CallbackInv /\ [Next]_vars => CallbackInv'
  BY CallbackNext
<1> QED
  BY CallbackInit, <1>1, PTL DEF Spec

\* With callbacks and teachers alone, the score of a graded attempt is the one
\* of its evaluations, whatever arrives late: who changes a row afterwards is
\* a teacher, and recomputes it under the lock.
THEOREM ScoreAgrees == Closed => (Spec => []FinalScoreAgrees)
<1> SUFFICES ASSUME Closed PROVE Spec => []FinalScoreAgrees
  OBVIOUS
<1>1. Spec => []CallbackInv
  BY CallbackInvariance
<1>2. CallbackInv => FinalScoreAgrees
  BY DEF CallbackInv
<1> QED
  BY <1>1, <1>2, PTL

-----------------------------------------------------------------------------
\* A finalized evaluation is changed by a teacher only, who puts his score in.
LEMMA LockedStep ==
  ASSUME Closed, CallbackInv, Next, NEW q \in Questions,
         eval[q] # Null, eval[q].status = "FINALIZED", eval'[q] # eval[q]
  PROVE  \E t \in Teachers : fin[t] # Null /\ fin'[t] = Null /\ eval'[q].score = fin[t].score
<1> USE DEF Closed, CallbacksOnly
<1>1. attempt # "OPEN" /\ Jobs = {} /\ Regrades = {} /\ Runners = {} /\ sweep = "idle"
  BY DEF CallbackInv, Runners
<1>2. ASSUME NEW c \in Workers, CallbackCommit(c)
      PROVE  FALSE
  <2>1. CASE cb[c].question = q
    BY <1>2, <2>1 DEF CallbackCommit
  <2>2. CASE cb[c].question # q
    BY <1>2, <2>2 DEF CallbackCommit, CallbackInv, Inv, TypeOK
  <2> QED
    BY <2>1, <2>2
<1>3. ASSUME NEW t \in Teachers, FinalizeCommit(t)
      PROVE  fin[t] # Null /\ fin'[t] = Null /\ eval'[q].score = fin[t].score
  <2>1. eval \in [Questions -> Rows \cup {Null}] /\ eval[q] \in Rows
        /\ fin \in [Teachers -> [question : Questions, score : Nat] \cup {Null}]
    BY DEF CallbackInv, Inv, TypeOK
  <2>2. q = fin[t].question
    BY <1>3, <2>1 DEF FinalizeCommit
  <2>3. eval'[q] = [eval[q] EXCEPT !.status = "FINALIZED", !.source = "TEACHER",
                                   !.score = fin[t].score]
    BY <1>3, <2>1, <2>2 DEF FinalizeCommit
  <2>4. eval'[q].score = fin[t].score
    BY <2>1, <2>3 DEF Rows
  <2> QED
    BY <1>3, <2>1, <2>4 DEF FinalizeCommit
<1>4. ~LateAutosave /\ ~SweepSubmits
  BY <1>1 DEF LateAutosave, SubmitAttempt, SweepSubmits
<1>5. ~SweepFinds /\ ~Reopen /\ ~DeadlockAbort /\ ~Crash
  BY DEF SweepFinds, Reopen, DeadlockAbort, Crash
<1>6. \A c \in Workers, m \in Messages : ~CallbackBegin(c, m)
  BY DEF CallbackBegin
<1>7. \A t \in Teachers, p \in Questions, s \in Scores : ~FinalizeBegin(t, p, s)
  BY DEF FinalizeBegin
<1> QED
  BY <1>1, <1>2, <1>3, <1>4, <1>5, <1>6, <1>7 DEF Next

\* What a teacher finalized only a teacher changes, however many callbacks are
\* under way for it and whatever their versions.
THEOREM FinalizedStays == Closed => (Spec => FinalizedIsLocked)
<1> SUFFICES ASSUME Closed PROVE Spec => FinalizedIsLocked
  OBVIOUS
<1> DEFINE Locks == \A q \in Questions :
       eval[q] # Null /\ eval[q].status = "FINALIZED" /\ eval'[q] # eval[q]
         => \E t \in Teachers : fin[t] # Null /\ fin'[t] = Null
                                /\ eval'[q].score = fin[t].score
<1>1. CallbackInv /\ [Next]_vars => [Locks]_vars
  BY LockedStep DEF vars
<1>2. Spec => []CallbackInv
  BY CallbackInvariance
<1> QED
  BY <1>1, <1>2, PTL DEF Spec, FinalizedIsLocked

-----------------------------------------------------------------------------
\* Without the sweep and jobs a row of an attempt that is not open is written
\* by callbacks and teachers, and keeps its version or gets a newer one.
LEMMA VersionStep ==
  ASSUME CallbacksOnly, Inv, sweep = "idle", Next, NEW q \in Questions,
         eval[q] # Null, attempt # "OPEN"
  PROVE  eval'[q].version >= eval[q].version
<1> USE DEF CallbacksOnly
<1>1. Jobs = {} /\ Regrades = {} /\ Runners = {}
  BY DEF Runners
<1>2. eval \in [Questions -> Rows \cup {Null}] /\ eval[q] \in Rows /\ eval[q].version \in Nat
  BY DEF Inv, TypeOK, Rows
<1>3. ASSUME eval'[q] = eval[q]
      PROVE  eval'[q].version >= eval[q].version
  BY <1>2, <1>3
<1>4. ASSUME NEW c \in Workers, CallbackCommit(c)
      PROVE  eval'[q].version >= eval[q].version
  <2>1. cb[c] \in Messages /\ cb[c].version \in Nat
    BY <1>4, GradingAssumption DEF CallbackCommit, Inv, TypeOK
  <2>2. CASE eval'[q] # eval[q]
    <3>1. cb[c].question = q /\ cb[c].version >= eval[q].version
      BY <1>2, <1>4, <2>2 DEF CallbackCommit
    <3>2. eval'[q] = Draft(cb[c].score, cb[c].version)
      BY <1>2, <1>4, <2>2, <3>1 DEF CallbackCommit
    <3> QED
      BY <3>1, <3>2 DEF Draft
  <2> QED
    BY <1>3, <2>2
<1>5. ASSUME NEW t \in Teachers, FinalizeCommit(t)
      PROVE  eval'[q].version >= eval[q].version
  <2>1. CASE q = fin[t].question
    <3>1. eval'[q] = [eval[q] EXCEPT !.status = "FINALIZED", !.source = "TEACHER",
                                     !.score = fin[t].score]
      BY <1>2, <1>5, <2>1 DEF FinalizeCommit
    <3> QED
      BY <1>2, <3>1 DEF Rows
  <2>2. CASE q # fin[t].question
    BY <1>2, <1>3, <1>5, <2>2 DEF FinalizeCommit
  <2> QED
    BY <2>1, <2>2
<1>6. ~LateAutosave /\ ~SweepSubmits
  BY DEF LateAutosave, SubmitAttempt, SweepSubmits
<1>7. CASE SweepFinds \/ Reopen \/ DeadlockAbort \/ Crash
  BY <1>3, <1>7 DEF SweepFinds, Reopen, DeadlockAbort, Crash
<1>8. ASSUME NEW c \in Workers, NEW m \in Messages, CallbackBegin(c, m)
      PROVE  eval'[q].version >= eval[q].version
  BY <1>3, <1>8 DEF CallbackBegin
<1>9. ASSUME NEW t \in Teachers, NEW p \in Questions, NEW s \in Scores, FinalizeBegin(t, p, s)
      PROVE  eval'[q].version >= eval[q].version
  BY <1>3, <1>9 DEF FinalizeBegin
<1> QED
  BY <1>1, <1>4, <1>5, <1>6, <1>7, <1>8, <1>9 DEF Next

\* Who does not sweep has nothing due.
LEMMA NeverDue ==
  CallbacksOnly => (sweep = "idle" /\ [Next]_vars => sweep' = "idle")
<1> SUFFICES ASSUME CallbacksOnly, sweep = "idle", [Next]_vars PROVE sweep' = "idle"
  OBVIOUS
<1>1. Jobs = {} /\ Regrades = {} /\ Runners = {}
  BY DEF CallbacksOnly, Runners
<1> QED
  BY <1>1 DEF Next, vars, CallbacksOnly, LateAutosave, SweepFinds, SweepSubmits, Reopen,
     CallbackBegin, CallbackCommit, FinalizeBegin, FinalizeCommit, DeadlockAbort, Crash

\* Callbacks delivered late, twice or in any order never bring back an older
\* version of an evaluation, also when the attempt is opened again in between.
THEOREM VersionsGrow == CallbacksOnly => (Spec => NoOlderVersion)
<1> SUFFICES ASSUME CallbacksOnly PROVE Spec => NoOlderVersion
  OBVIOUS
<1> DEFINE Grows == \A q \in Questions :
                      eval[q] # Null /\ attempt # "OPEN" => eval'[q].version >= eval[q].version
           Idle == sweep = "idle"
<1>1. Inv /\ Idle /\ [Next]_vars => [Grows]_vars
  BY VersionStep DEF vars
<1>2. Init => Idle
  BY DEF Init
<1>3. Idle /\ [Next]_vars => Idle'
  BY NeverDue
<1>4. Spec => []Inv
  BY Invariance
<1> HIDE DEF Idle
<1> QED
  BY <1>1, <1>2, <1>3, <1>4, PTL DEF Spec, NoOlderVersion
=============================================================================
