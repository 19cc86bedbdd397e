--------------------------- MODULE PostExamProofs ---------------------------
(***************************************************************************)
(* What PostExamGrading guarantees for any number of runs, attempts,       *)
(* students and essays: a teacher's decision outlasts every run, and what  *)
(* is remembered of it is the decision.                                    *)
(*                                                                         *)
(* A run that completes after the exam needs to know that what it read of  *)
(* the evaluations still holds when it is closed.                          *)
(***************************************************************************)
EXTENDS PostExamGrading, TLAPS, SequenceTheorems

Inv == TypeOK /\ MemoryIsTeachers

-----------------------------------------------------------------------------
(* Memories.                                                               *)

\* The last version is current, and no other is.
LastIsCurrent(m) == \A v \in DOMAIN m : m[v].current <=> v = Len(m)

\* The versions of a memory.
LEMMA MemoryParts ==
  ASSUME NEW m \in Memories
  PROVE  /\ Len(m) \in Nat /\ DOMAIN m = 1..Len(m)
         /\ \A v \in 1..Len(m) : m[v] \in Versions
  BY DEF Memories

\* After superseding no version is current.
LEMMA SupersededType ==
  ASSUME NEW m \in Memories, LastIsCurrent(m)
  PROVE  /\ Superseded(m) \in Memories /\ Len(Superseded(m)) = Len(m)
         /\ \A v \in 1..Len(m) : ~Superseded(m)[v].current
<1>1. /\ Len(m) \in Nat /\ DOMAIN m = 1..Len(m)
      /\ \A v \in 1..Len(m) : m[v] \in Versions
  BY MemoryParts
<1>2. \A v \in 1..Len(m) : m[v].current => v = Current(m)
  <2>1. ASSUME NEW v \in 1..Len(m), m[v].current
        PROVE  v = Current(m)
    <3>1. {w \in DOMAIN m : m[w].current} = {v}
      BY <1>1, <2>1 DEF LastIsCurrent
    <3> QED BY <3>1 DEF Current
  <2> QED BY <2>1
<1>3. ASSUME NEW v \in 1..Len(m)
      PROVE  Superseded(m)[v] \in Versions /\ ~Superseded(m)[v].current
  <2>1. Superseded(m)[v] =
          [m[v] EXCEPT !.current = @ /\ v # Current(m),
                       !.embedding = IF @ = "current" THEN "superseded" ELSE @]
    BY <1>1 DEF Superseded
  <2>2. m[v] \in Versions
    BY <1>1
  <2>3. Superseded(m)[v].current = (m[v].current /\ v # Current(m))
    BY <2>1, <2>2 DEF Versions
  <2>4. ~Superseded(m)[v].current
    BY <1>2, <2>3
  <2>5. Superseded(m)[v] \in Versions
    BY <2>1, <2>2 DEF Versions
  <2> QED BY <2>4, <2>5
<1>4. Superseded(m) \in [1..Len(m) -> Versions]
  BY <1>1, <1>3 DEF Superseded
<1>5. Superseded(m) \in Seq(Versions) /\ Len(Superseded(m)) = Len(m)
  BY <1>1, <1>4
<1> QED BY <1>3, <1>5 DEF Memories

\* A decision that is captured becomes the current version, the only one;
\* what retrieval sees of the evaluation is that decision.
LEMMA CaptureIsLast ==
  ASSUME NEW m \in Memories, LastIsCurrent(m), NEW s \in Scores, NEW encoded \in BOOLEAN
  PROVE  /\ Capture(m, s, encoded) \in Memories
         /\ LastIsCurrent(Capture(m, s, encoded))
         /\ \A v \in Candidates(Capture(m, s, encoded)) : Capture(m, s, encoded)[v].score = s
<1>1. /\ Len(m) \in Nat /\ DOMAIN m = 1..Len(m)
      /\ \A v \in 1..Len(m) : m[v] \in Versions
  BY MemoryParts
<1>2. CASE Unchanged(m, s)
  <2>1. Capture(m, s, encoded) = m
    BY <1>2 DEF Capture
  <2>2. ASSUME NEW v \in Candidates(m)
        PROVE  m[v].score = s
    <3>1. {w \in DOMAIN m : m[w].current} = {v}
      BY <1>1, <2>2 DEF LastIsCurrent, Candidates
    <3>2. Current(m) = v
      BY <3>1 DEF Current
    <3> QED BY <1>2, <3>2 DEF Unchanged
  <2> QED BY <2>1, <2>2
<1>3. CASE ~Unchanged(m, s)
  <2> DEFINE new == [score |-> s, current |-> TRUE,
                     embedding |-> IF encoded THEN "current" ELSE "none"]
             old == Superseded(m)
             all == Capture(m, s, encoded)
  <2>1. new \in Versions /\ new.current /\ new.score = s
    BY DEF Versions
  <2>2. old \in Seq(Versions) /\ Len(old) = Len(m) /\ \A v \in 1..Len(m) : ~old[v].current
    BY SupersededType DEF Memories
  <2>3. all = Append(old, new)
    BY <1>3 DEF Capture
  <2> HIDE DEF new, old, all
  <2>4. /\ all \in Seq(Versions) /\ Len(all) = Len(m) + 1 /\ DOMAIN all = 1..(Len(m) + 1)
        /\ \A v \in 1..Len(m) : all[v] = old[v]
        /\ all[Len(m) + 1] = new
    <3>1. /\ all \in Seq(Versions) /\ Len(all) = Len(m) + 1
          /\ \A v \in 1..Len(m) : all[v] = old[v]
          /\ all[Len(m) + 1] = new
      BY <2>1, <2>2, <2>3, AppendProperties
    <3>2. DOMAIN all = 1..Len(all)
      BY <3>1, LenProperties
    <3> QED BY <3>1, <3>2
  <2>5. LastIsCurrent(all)
    BY <1>1, <2>1, <2>2, <2>4 DEF LastIsCurrent
  <2>6. \A v \in Candidates(all) : v = Len(m) + 1
    BY <1>1, <2>2, <2>4 DEF Candidates
  <2>7. \A v \in Candidates(all) : all[v].score = s
    BY <2>1, <2>4, <2>6
  <2> QED BY <2>4, <2>5, <2>7 DEF all, Memories
<1> QED BY <1>2, <1>3

-----------------------------------------------------------------------------
(* The types.                                                              *)

LEMMA InitType ==
  ASSUME Init
  PROVE  Inv
<1>1. eval \in [Cells -> Evaluations \cup {Null}]
  <2>1. [status |-> "AI_PENDING", score |-> Null] \in Evaluations
    BY DEF Evaluations
  <2> QED BY <2>1 DEF Init
<1>2. \A c \in Cells : memory[c] = <<>> /\ <<>> \in Memories
  BY DEF Init, Blank, Memories
<1>3. memory \in [Cells -> Memories]
  BY <1>2 DEF Init
<1>4. TypeOK
  BY <1>1, <1>3 DEF Init, TypeOK
<1>5. MemoryIsTeachers
  BY <1>2 DEF Init, Blank, MemoryIsTeachers, Candidates
<1> QED BY <1>4, <1>5 DEF Inv

\* The request of a run is at another point, with some of its columns anew.
LEMMA WorkStep ==
  ASSUME TypeOK, NEW r \in Runs, NEW w \in Works \cup {Null},
         work' = [work EXCEPT ![r] = w],
         UNCHANGED <<schedule, run, attempt, eval, memory, answer, taught>>
  PROVE  TypeOK'
  BY DEF TypeOK

\* A run at work has a state.
LEMMA AtWork ==
  ASSUME TypeOK, NEW r \in Runs, work[r] # Null
  PROVE  work[r] \in Works
  BY DEF TypeOK

\* Steps of a run, and its death.
LEMMA RunType ==
  ASSUME TypeOK, NEW r \in Runs, RunStep(r) \/ Crash(r)
  PROVE  TypeOK'
<1> DEFINE w == work[r]
<1>1. CASE StartLocked(r)
  <2>1. [at |-> "started", seen |-> {}, next |-> 1, answer |-> [s \in Students |-> Null],
         failed |-> FALSE, loaded |-> {}, sheet |-> [c \in Cells |-> "none"],
         graded |-> {}, same |-> {}] \in Works
    BY DEF Works, Sheets
  <2>2. work' \in [Runs -> Works \cup {Null}]
    BY <1>1, <2>1 DEF StartLocked, TypeOK
  <2> QED BY <1>1, <2>2 DEF StartLocked, TypeOK
<1>2. CASE FindPrevious(r)
  <2>1. w \in Works
    BY <1>2, AtWork DEF FindPrevious, At
  <2>2. [w EXCEPT !.at = "found", !.seen = {o \in Runs : run[o] = "PROCESSING"}] \in Works
    BY <2>1 DEF Works
  <2> QED BY <1>2, <2>2, WorkStep DEF FindPrevious
<1>3. CASE CancelPrevious(r)
  <2>1. w \in Works
    BY <1>3, AtWork DEF CancelPrevious, At
  <2>2. [w EXCEPT !.at = "free"] \in Works
    BY <2>1 DEF Works
  <2>3. work' \in [Runs -> Works \cup {Null}]
    BY <1>3, <2>2 DEF CancelPrevious, Goes, TypeOK
  <2>4. run' \in [Runs -> {"PROCESSING", "COMPLETED", "PARTIAL", "CANCELLED", Null}]
    BY <1>3 DEF CancelPrevious, TypeOK
  <2> QED BY <1>3, <2>3, <2>4 DEF CancelPrevious, TypeOK
<1>4. CASE CreateRun(r)
  <2>1. w \in Works
    BY <1>4, AtWork DEF CreateRun, At
  <2>2. [w EXCEPT !.at = "created"] \in Works
    BY <2>1 DEF Works
  <2>3. work' \in [Runs -> Works \cup {Null}]
    BY <1>4, <2>2 DEF CreateRun, Goes, TypeOK
  <2> QED BY <1>4, <2>3 DEF CreateRun, TypeOK
<1>5. CASE Load(r)
  <2>1. w \in Works
    BY <1>5, AtWork DEF Load, At
  <2>2. [w EXCEPT !.at = "grading", !.loaded = Present, !.sheet = answer] \in Works
    BY <2>1 DEF Works, Present, TypeOK
  <2>3. /\ work' \in [Runs -> Works \cup {Null}]
        /\ run' \in [Runs -> {"PROCESSING", "COMPLETED", "PARTIAL", "CANCELLED", Null}]
    BY <1>5, <2>2 DEF Load, Ends, TypeOK
  <2> QED BY <1>5, <2>3 DEF Load, TypeOK
<1>6. CASE SkipQuestion(r)
  <2>1. w \in Works
    BY <1>6, AtWork DEF SkipQuestion, At
  <2>2. [w EXCEPT !.next = @ + 1] \in Works
    BY <2>1 DEF Works
  <2> QED BY <1>6, <2>2, WorkStep DEF SkipQuestion
<1>7. CASE Halt(r) \/ Crash(r)
  BY <1>7, WorkStep DEF Halt, Crash, Ends
<1>8. CASE AskModel(r)
  <2>1. w \in Works
    BY <1>8, AtWork DEF AskModel, At
  <2>2. PICK f \in Outcomes(r, w.next), b \in BOOLEAN :
          work' = [work EXCEPT ![r] = [w EXCEPT !.at = "asked", !.answer = f, !.failed = b]]
    <3>1. \A f : (w.failed \/ \E a \in Submissions(r, w.next) : f[StudentOf[a]] = Null)
                   \in BOOLEAN
      BY <2>1, Zenon DEF Works
    <3> QED BY <1>8, <3>1 DEF AskModel
  <2>3. f \in [Students -> Attempts \cup {Null}]
    BY DEF Outcomes
  <2>4. [w EXCEPT !.at = "asked", !.answer = f, !.failed = b] \in Works
    BY <2>1, <2>3 DEF Works
  <2> QED BY <1>8, <2>2, <2>4, WorkStep DEF AskModel
<1>9. CASE CheckCancelled(r)
  <2>1. w \in Works
    BY <1>9, AtWork DEF CheckCancelled, At
  <2>2. [w EXCEPT !.at = "checked"] \in Works
    BY <2>1 DEF Works
  <2> QED BY <1>9, <2>2, WorkStep DEF CheckCancelled, Goes
<1>10. CASE WriteBatch(r)
  <2>1. w \in Works
    BY <1>10, AtWork DEF WriteBatch, At
  <2>2. [w EXCEPT !.at = "grading", !.next = @ + 1] \in Works
    <3>1. w.next \in Nat /\ w.next + 1 \in Nat
      BY <2>1 DEF Works
    <3> QED BY <2>1, <3>1 DEF Works
  <2>3. work' \in [Runs -> Works \cup {Null}]
    BY <1>10, <2>2 DEF WriteBatch, TypeOK
  <2>4. \A c \in Cells : Drafted(c) \in Evaluations \cup {Null}
    BY DEF Drafted, Evaluations, TypeOK
  <2>5. eval' \in [Cells -> Evaluations \cup {Null}]
    BY <1>10, <2>4 DEF WriteBatch, TypeOK
  <2> QED BY <1>10, <2>3, <2>5 DEF WriteBatch, TypeOK
<1>11. CASE ReadVerdicts(r)
  <2>1. w \in Works
    BY <1>11, AtWork DEF ReadVerdicts, At
  <2>2. PICK graded \in SUBSET Attempts, same \in SUBSET Attempts :
          work' = [work EXCEPT ![r] = [w EXCEPT !.at = "closing", !.graded = graded,
                                                !.same = same]]
    <3> DEFINE g == {a \in w.loaded : Complete(a)}
               e == {a \in w.loaded : attempt[a] = Verdict(a, g)}
    <3>1. g \in SUBSET Attempts /\ e \in SUBSET Attempts
      BY <2>1 DEF Works
    <3>2. work' = [work EXCEPT ![r] = [w EXCEPT !.at = "closing", !.graded = g, !.same = e]]
      BY <1>11 DEF ReadVerdicts
    <3> HIDE DEF g, e
    <3> QED BY <3>1, <3>2
  <2>3. [w EXCEPT !.at = "closing", !.graded = graded, !.same = same] \in Works
    BY <2>1 DEF Works
  <2> QED BY <1>11, <2>2, <2>3, WorkStep DEF ReadVerdicts
<1>12. CASE CloseRun(r)
  <2>1. work' \in [Runs -> Works \cup {Null}]
    BY <1>12 DEF CloseRun, Ends, TypeOK
  <2>2. attempt' \in [Attempts -> {"ABSENT", "OPEN", "GRADING", "GRADED"}]
    BY <1>12 DEF CloseRun, Verdict, TypeOK
  <2>3. run' \in [Runs -> {"PROCESSING", "COMPLETED", "PARTIAL", "CANCELLED", Null}]
    BY <1>12 DEF CloseRun, TypeOK
  <2>4. schedule' \in {"READY", "LOCKED", "COMPLETED"}
    BY <1>12 DEF CloseRun, TypeOK
  <2> QED BY <1>12, <2>1, <2>2, <2>3, <2>4 DEF CloseRun, TypeOK
<1> QED BY <1>1, <1>2, <1>3, <1>4, <1>5, <1>6, <1>7, <1>8, <1>9, <1>10, <1>11, <1>12 DEF RunStep

\* What others write in the rows of one attempt.
LEMMA OthersType ==
  ASSUME Inv,
         \/ ClosePackage
         \/ \E a \in Attempts : SubmitAttempt(a) \/ ResetDevice(a)
         \/ \E c \in Cells, written \in {"blank", "text"} : Autosave(c, written)
         \/ \E c \in Cells, s \in Scores, encoded \in BOOLEAN : Finalize(c, s, encoded)
  PROVE  TypeOK'
<1>1. CASE ClosePackage
  BY <1>1 DEF ClosePackage, Inv, TypeOK
<1>2. ASSUME NEW a \in Attempts, SubmitAttempt(a) PROVE TypeOK'
  <2>1. [status |-> "AI_PENDING", score |-> Null] \in Evaluations
    BY DEF Evaluations
  <2>2. eval' \in [Cells -> Evaluations \cup {Null}]
    BY <1>2, <2>1 DEF SubmitAttempt, Inv, TypeOK
  <2> QED BY <1>2, <2>2 DEF SubmitAttempt, Inv, TypeOK
<1>3. ASSUME NEW a \in Attempts, ResetDevice(a) PROVE TypeOK'
  BY <1>3 DEF ResetDevice, Inv, TypeOK
<1>4. ASSUME NEW c \in Cells, NEW s \in Scores, NEW encoded \in BOOLEAN, Finalize(c, s, encoded)
      PROVE  TypeOK'
  <2>1. [status |-> "FINALIZED", score |-> s] \in Evaluations /\ c[1] \in Attempts
    BY DEF Evaluations, Cells
  <2>2. eval' \in [Cells -> Evaluations \cup {Null}]
    BY <1>4, <2>1 DEF Finalize, Inv, TypeOK
  <2>3. attempt' \in [Attempts -> {"ABSENT", "OPEN", "GRADING", "GRADED"}]
    BY <1>4, <2>1 DEF Finalize, Inv, TypeOK
  <2>4. memory[c] \in Memories /\ LastIsCurrent(memory[c])
    BY DEF Inv, TypeOK, MemoryIsTeachers, LastIsCurrent
  <2>5. Capture(memory[c], s, encoded) \in Memories
    BY <2>4, CaptureIsLast
  <2>6. memory' \in [Cells -> Memories] /\ taught' \in [Cells -> Scores \cup {Null}]
    BY <1>4, <2>4, <2>5 DEF Finalize, Inv, TypeOK
  <2> QED BY <1>4, <2>2, <2>3, <2>6 DEF Finalize, Inv, TypeOK
<1>5. ASSUME NEW c \in Cells, NEW written \in {"blank", "text"}, Autosave(c, written)
      PROVE  TypeOK'
  <2>1. answer' \in Sheets
    BY <1>5 DEF Autosave, Sheets, Inv, TypeOK
  <2> QED BY <1>5, <2>1 DEF Autosave, Inv, TypeOK
<1> QED BY <1>1, <1>2, <1>3, <1>4, <1>5

-----------------------------------------------------------------------------
(* The teacher's decisions.                                                *)

\* A step that captures nothing.
LEMMA NothingCaptured ==
  ASSUME Inv, UNCHANGED <<memory, taught>>
  PROVE  MemoryIsTeachers'
  BY DEF Inv, MemoryIsTeachers

\* A run captures nothing and leaves what is finalized.
LEMMA RunFinalizesNothing ==
  ASSUME TypeOK, NEW r \in Runs, RunStep(r) \/ Crash(r)
  PROVE  /\ UNCHANGED <<memory, taught>>
         /\ \A c \in Cells : Finalized(c) => eval'[c] = eval[c]
<1>1. CASE WriteBatch(r)
  <2>1. \A c \in Cells : eval'[c] \in {eval[c], Drafted(c)}
    BY <1>1 DEF WriteBatch
  <2>2. \A c \in Cells : Drafted(c) = eval[c] \/ (~Finalized(c) /\ Drafted(c).status = "AI_DRAFT")
    BY DEF Drafted
  <2>3. UNCHANGED <<memory, taught>>
    BY <1>1 DEF WriteBatch
  <2> QED BY <2>1, <2>2, <2>3 DEF Finalized
<1>2. CASE ~WriteBatch(r)
  <2>1. UNCHANGED <<eval, memory, taught>>
    BY <1>2 DEF RunStep, StartLocked, FindPrevious, CancelPrevious, CreateRun, Load,
       SkipQuestion, Halt, AskModel, CheckCancelled, ReadVerdicts, CloseRun, Crash
  <2> QED BY <2>1 DEF Finalized
<1> QED BY <1>1, <1>2

\* Handing in evaluates the attempt anew, and leaves the others.
LEMMA HandedIn ==
  ASSUME TypeOK, NEW a \in Attempts, SubmitAttempt(a)
  PROVE  /\ UNCHANGED <<memory, taught>>
         /\ \A c \in Cells : IF c[1] = a THEN eval'[c].status = "AI_PENDING"
                                         ELSE eval'[c] = eval[c]
         /\ attempt[a] = "OPEN" /\ attempt'[a] = "GRADING"
  BY DEF SubmitAttempt, TypeOK

\* A teacher's decision on a text is the one that is remembered; any other
\* leaves the memory and what was taught before.
LEMMA FinalizeRemembers ==
  ASSUME Inv, NEW c \in Cells, NEW s \in Scores, NEW encoded \in BOOLEAN,
         Finalize(c, s, encoded)
  PROVE  MemoryIsTeachers'
<1>1. /\ memory[c] \in Memories /\ LastIsCurrent(memory[c])
      /\ memory \in [Cells -> Memories] /\ taught \in [Cells -> Scores \cup {Null}]
  BY DEF Inv, TypeOK, MemoryIsTeachers, LastIsCurrent
<1>2. CASE answer[c] # "text"
  BY <1>2, NothingCaptured DEF Finalize
<1>3. CASE answer[c] = "text"
  <2>1. /\ memory'[c] = Capture(memory[c], s, encoded) /\ taught'[c] = s
        /\ \A o \in Cells : o # c => memory'[o] = memory[o] /\ taught'[o] = taught[o]
    BY <1>1, <1>3 DEF Finalize
  <2>2. /\ LastIsCurrent(Capture(memory[c], s, encoded))
        /\ \A v \in Candidates(Capture(memory[c], s, encoded)) :
             Capture(memory[c], s, encoded)[v].score = s
    BY <1>1, CaptureIsLast
  <2>3. LastIsCurrent(memory'[c]) /\ \A v \in Candidates(memory'[c]) : memory'[c][v].score = s
    BY <2>1, <2>2
  <2>4. ASSUME NEW o \in Cells
        PROVE  /\ \A v \in DOMAIN memory'[o] : memory'[o][v].current <=> v = Len(memory'[o])
               /\ \A v \in Candidates(memory'[o]) : memory'[o][v].score = taught'[o]
    <3>1. CASE o = c
      BY <2>1, <2>3, <3>1 DEF LastIsCurrent
    <3>2. CASE o # c
      <4>1. memory'[o] = memory[o] /\ taught'[o] = taught[o]
        BY <2>1, <3>2
      <4> QED BY <4>1 DEF Inv, MemoryIsTeachers
    <3> QED BY <3>1, <3>2
  <2> QED BY <2>4 DEF MemoryIsTeachers
<1> QED BY <1>2, <1>3

\* What a step keeps, and what it does to a finalized evaluation.
LEMMA Step ==
  ASSUME Inv, Next
  PROVE  /\ Inv'
         /\ \A c \in Cells : Finalized(c) =>
              \/ eval'[c].status = "FINALIZED"
              \/ attempt[c[1]] = "OPEN" /\ attempt'[c[1]] = "GRADING"
<1>1. ASSUME NEW r \in Runs, RunStep(r) \/ Crash(r)
      PROVE  /\ Inv'
             /\ \A c \in Cells : Finalized(c) => eval'[c].status = "FINALIZED"
  <2>1. TypeOK /\ TypeOK'
    BY <1>1, RunType DEF Inv
  <2>2. /\ UNCHANGED <<memory, taught>>
        /\ \A c \in Cells : Finalized(c) => eval'[c] = eval[c]
    BY <1>1, <2>1, RunFinalizesNothing
  <2>3. MemoryIsTeachers'
    BY <2>2, NothingCaptured
  <2>4. \A c \in Cells : Finalized(c) => eval'[c].status = "FINALIZED"
    BY <2>2 DEF Finalized
  <2> QED BY <2>1, <2>3, <2>4 DEF Inv
<1>2. CASE ClosePackage
  <2>1. UNCHANGED <<eval, memory, taught>>
    BY <1>2 DEF ClosePackage
  <2>2. MemoryIsTeachers'
    BY <2>1, NothingCaptured
  <2>3. TypeOK'
    BY <1>2, OthersType
  <2> QED BY <2>1, <2>2, <2>3 DEF Inv, Finalized
<1>3. ASSUME NEW a \in Attempts, SubmitAttempt(a)
      PROVE  /\ Inv'
             /\ \A c \in Cells : Finalized(c) =>
                  \/ eval'[c].status = "FINALIZED"
                  \/ attempt[c[1]] = "OPEN" /\ attempt'[c[1]] = "GRADING"
  <2>1. /\ UNCHANGED <<memory, taught>>
        /\ \A c \in Cells : IF c[1] = a THEN eval'[c].status = "AI_PENDING"
                                        ELSE eval'[c] = eval[c]
        /\ attempt[a] = "OPEN" /\ attempt'[a] = "GRADING"
    BY <1>3, HandedIn DEF Inv
  <2>2. MemoryIsTeachers'
    BY <2>1, NothingCaptured
  <2>3. TypeOK'
    BY <1>3, OthersType
  <2> QED BY <2>1, <2>2, <2>3 DEF Inv, Finalized
<1>4. ASSUME NEW a \in Attempts, ResetDevice(a)
      PROVE  /\ Inv'
             /\ \A c \in Cells : Finalized(c) => eval'[c].status = "FINALIZED"
  <2>1. UNCHANGED <<eval, memory, taught>>
    BY <1>4 DEF ResetDevice
  <2>2. MemoryIsTeachers'
    BY <2>1, NothingCaptured
  <2>3. TypeOK'
    BY <1>4, OthersType
  <2> QED BY <2>1, <2>2, <2>3 DEF Inv, Finalized
<1>5. ASSUME NEW c \in Cells, NEW s \in Scores, NEW encoded \in BOOLEAN, Finalize(c, s, encoded)
      PROVE  /\ Inv'
             /\ \A o \in Cells : Finalized(o) => eval'[o].status = "FINALIZED"
  <2>1. TypeOK'
    BY <1>5, OthersType
  <2>2. \A o \in Cells : eval'[o] = IF o = c THEN [status |-> "FINALIZED", score |-> s]
                                             ELSE eval[o]
    BY <1>5 DEF Finalize, Inv, TypeOK
  <2> QED BY <1>5, <2>1, <2>2, FinalizeRemembers DEF Inv, Finalized
<1>6. ASSUME NEW c \in Cells, NEW written \in {"blank", "text"}, Autosave(c, written)
      PROVE  /\ Inv'
             /\ \A o \in Cells : Finalized(o) => eval'[o].status = "FINALIZED"
  <2>1. UNCHANGED <<eval, memory, taught>>
    BY <1>6 DEF Autosave
  <2>2. MemoryIsTeachers'
    BY <2>1, NothingCaptured
  <2>3. TypeOK'
    BY <1>6, OthersType
  <2> QED BY <2>1, <2>2, <2>3 DEF Inv, Finalized
<1> QED BY <1>1, <1>2, <1>3, <1>4, <1>5, <1>6 DEF Next

-----------------------------------------------------------------------------
(* The theorems.                                                           *)

\* Types, and what is remembered.
THEOREM PostExamInvariant == Spec => []Inv
<1>1. Init => Inv
  BY InitType
<1>2. Inv /\ [Next]_vars => Inv'
  <2> SUFFICES ASSUME Inv, [Next]_vars PROVE Inv'
    OBVIOUS
  <2>1. CASE Next
    BY <2>1, Step
  <2>2. CASE UNCHANGED vars
    <3>1. UNCHANGED <<schedule, run, work, attempt, eval, memory, answer, taught>>
      BY <2>2 DEF vars
    <3>2. TypeOK'
      BY <3>1 DEF Inv, TypeOK
    <3> QED BY <3>1, <3>2, NothingCaptured DEF Inv
  <2> QED BY <2>1, <2>2
<1> QED BY <1>1, <1>2, PTL DEF Spec

\* Every variable keeps its type.
THEOREM PostExamTypeCorrect == Spec => []TypeOK
<1>1. Inv => TypeOK
  BY DEF Inv
<1> QED BY <1>1, PostExamInvariant, PTL

\* Retrieval shows the model no score of an evaluation but the one the teacher
\* gave when he last decided on a text, whatever the student writes or erases
\* when he is let in again.
THEOREM MemoryFollowsTeachers == Spec => []MemoryIsTeachers
<1>1. Inv => MemoryIsTeachers
  BY DEF Inv
<1> QED BY <1>1, PostExamInvariant, PTL

\* No run, whenever it was started, takes back what a teacher has finalized.
THEOREM RunsKeepFinalized == Spec => BatchKeepsFinalized
<1> DEFINE Kept == \A c \in Cells : Finalized(c) =>
                     \/ eval'[c].status = "FINALIZED"
                     \/ attempt[c[1]] = "OPEN" /\ attempt'[c[1]] = "GRADING"
<1>1. Inv /\ [Next]_vars => [Kept]_vars
  BY Step
<1>2. BatchKeepsFinalized <=> [][Kept]_vars
  BY DEF BatchKeepsFinalized
<1> HIDE DEF Kept
<1> QED BY <1>1, <1>2, PostExamInvariant, PTL DEF Spec

-----------------------------------------------------------------------------
(* When the room is over.                                                  *)

\* A run has loaded nothing before Load; and when it is to be closed, what it
\* found complete has nothing pending.
NotLoaded ==
  \A r \in Runs :
    work[r] # Null /\ work[r].at \in {"started", "found", "free", "created"} =>
      work[r].loaded = {}

VerdictsHold ==
  \A r \in Runs : At(r, "closing") => \A a \in work[r].graded : \A c \in EvalsOf(a) : ~Pending(c)

\* Only handing in makes an evaluation pending.
LEMMA NothingBecomesPending ==
  ASSUME TypeOK, RoomOver, [Next]_vars, NEW c \in Cells, Pending(c)'
  PROVE  Pending(c)
<1>1. CASE UNCHANGED eval
  BY <1>1 DEF Pending
<1>2. ASSUME NEW r \in Runs, WriteBatch(r)
      PROVE  Pending(c)
  <2>1. eval'[c] \in {eval[c], Drafted(c)}
    BY <1>2 DEF WriteBatch
  <2>2. Drafted(c) = eval[c] \/ Drafted(c).status = "AI_DRAFT"
    BY DEF Drafted
  <2> QED BY <2>1, <2>2 DEF Pending
<1>3. ASSUME NEW a \in Attempts, SubmitAttempt(a)
      PROVE  Pending(c)
  BY <1>3 DEF SubmitAttempt, RoomOver
<1>4. ASSUME NEW o \in Cells, NEW s \in Scores, NEW encoded \in BOOLEAN,
             Finalize(o, s, encoded)
      PROVE  Pending(c)
  <2>1. eval'[c] = IF c = o THEN [status |-> "FINALIZED", score |-> s] ELSE eval[c]
    BY <1>4 DEF Finalize, TypeOK
  <2> QED BY <2>1 DEF Pending
<1>5. CASE UNCHANGED vars
  BY <1>1, <1>5 DEF vars
<1>6. ASSUME NEW r \in Runs, RunStep(r) \/ Crash(r), ~WriteBatch(r)
      PROVE  Pending(c)
  <2>1. UNCHANGED eval
    BY <1>6 DEF RunStep, StartLocked, FindPrevious, CancelPrevious, CreateRun, Load,
       SkipQuestion, Halt, AskModel, CheckCancelled, ReadVerdicts, CloseRun, Crash
  <2> QED BY <1>1, <2>1
<1>7. CASE \/ ClosePackage \/ \E a \in Attempts : ResetDevice(a)
           \/ \E o \in Cells, written \in {"blank", "text"} : Autosave(o, written)
  BY <1>1, <1>7 DEF ClosePackage, ResetDevice, Autosave
<1> QED BY <1>2, <1>3, <1>4, <1>5, <1>6, <1>7 DEF Next

\* The work of a run other than the one that steps is as it was; so is all of
\* it when somebody else steps.
LEMMA OthersWork ==
  ASSUME TypeOK, [Next]_vars, NEW o \in Runs, work'[o] # work[o]
  PROVE  RunStep(o) \/ Crash(o)
<1>1. ASSUME NEW r \in Runs, RunStep(r) \/ Crash(r), o # r
      PROVE  work'[o] = work[o]
  <2>1. \E w : work' = [work EXCEPT ![r] = w]
    <3>1. CASE Load(r)
      BY <3>1 DEF Load, Ends
    <3>2. CASE AskModel(r)
      BY <3>2 DEF AskModel
    <3>3. CASE ReadVerdicts(r)
      BY <3>3 DEF ReadVerdicts
    <3>4. CASE StartLocked(r) \/ FindPrevious(r) \/ CancelPrevious(r) \/ CreateRun(r)
      BY <3>4 DEF StartLocked, FindPrevious, CancelPrevious, CreateRun, Goes
    <3>5. CASE SkipQuestion(r) \/ Halt(r) \/ CheckCancelled(r) \/ WriteBatch(r)
      BY <3>5 DEF SkipQuestion, Halt, CheckCancelled, WriteBatch, Goes, Ends
    <3>6. CASE CloseRun(r) \/ Crash(r)
      BY <3>6 DEF CloseRun, Crash, Ends
    <3> QED BY <1>1, <3>1, <3>2, <3>3, <3>4, <3>5, <3>6 DEF RunStep
  <2> QED BY <1>1, <2>1 DEF TypeOK
<1>2. CASE \/ ClosePackage
           \/ \E a \in Attempts : SubmitAttempt(a) \/ ResetDevice(a)
           \/ \E c \in Cells, written \in {"blank", "text"} : Autosave(c, written)
           \/ \E c \in Cells, s \in Scores, encoded \in BOOLEAN : Finalize(c, s, encoded)
  BY <1>2 DEF ClosePackage, SubmitAttempt, ResetDevice, Autosave, Finalize
<1>3. CASE UNCHANGED vars
  BY <1>3 DEF vars
<1> QED BY <1>1, <1>2, <1>3 DEF Next

\* A step of a run leaves it with nothing loaded until Load, and to be closed
\* only by ReadVerdicts.
LEMMA OwnWork ==
  ASSUME TypeOK, NotLoaded, NEW r \in Runs, RunStep(r) \/ Crash(r), work'[r] # Null
  PROVE  /\ work'[r].at \in {"started", "found", "free", "created"} => work'[r].loaded = {}
         /\ work'[r].at = "closing" => ReadVerdicts(r)
<1> DEFINE w == work[r]
<1>1. ~Crash(r) /\ ~Halt(r) /\ ~CloseRun(r)
  BY DEF Crash, Halt, CloseRun, Ends, TypeOK
<1>2. CASE StartLocked(r)
  <2>1. work'[r].at = "started" /\ work'[r].loaded = {}
    BY <1>2 DEF StartLocked, TypeOK
  <2> QED BY <2>1
<1>3. w # Null => w \in Works
  BY AtWork
<1>4. CASE FindPrevious(r) \/ CancelPrevious(r) \/ CreateRun(r)
  <2>1. w \in Works /\ w.loaded = {}
    BY <1>3, <1>4 DEF FindPrevious, CancelPrevious, CreateRun, At, NotLoaded
  <2>2. work'[r].at # "closing" /\ work'[r].loaded = {}
    <3>1. CASE FindPrevious(r)
      BY <2>1, <3>1 DEF FindPrevious, TypeOK, Works
    <3>2. CASE CancelPrevious(r)
      BY <2>1, <3>2 DEF CancelPrevious, Goes, TypeOK, Works
    <3>3. CASE CreateRun(r)
      BY <2>1, <3>3 DEF CreateRun, Goes, TypeOK, Works
    <3> QED BY <1>4, <3>1, <3>2, <3>3
  <2> QED BY <2>2
<1>5. CASE Load(r)
  <2>1. w \in Works
    BY <1>3, <1>5 DEF Load, At
  <2>2. work'[r].at = "grading"
    BY <1>5, <2>1 DEF Load, Ends, TypeOK, Works
  <2> QED BY <2>2
<1>6. CASE SkipQuestion(r) \/ AskModel(r) \/ CheckCancelled(r) \/ WriteBatch(r)
  <2>1. w \in Works
    BY <1>3, <1>6 DEF SkipQuestion, AskModel, CheckCancelled, WriteBatch, At
  <2>2. work'[r].at \in {"grading", "asked", "checked"}
    <3>1. CASE SkipQuestion(r)
      BY <2>1, <3>1 DEF SkipQuestion, At, TypeOK, Works
    <3>2. CASE AskModel(r)
      BY <2>1, <3>2 DEF AskModel, TypeOK, Works
    <3>3. CASE CheckCancelled(r)
      BY <2>1, <3>3 DEF CheckCancelled, Goes, TypeOK, Works
    <3>4. CASE WriteBatch(r)
      BY <2>1, <3>4 DEF WriteBatch, TypeOK, Works
    <3> QED BY <1>6, <3>1, <3>2, <3>3, <3>4
  <2> QED BY <2>2
<1>7. CASE ReadVerdicts(r)
  <2>1. w \in Works
    BY <1>3, <1>7 DEF ReadVerdicts, At
  <2>2. work'[r].at = "closing"
    BY <1>7, <2>1 DEF ReadVerdicts, TypeOK, Works
  <2> QED BY <1>7, <2>2
<1> QED BY <1>1, <1>2, <1>4, <1>5, <1>6, <1>7 DEF RunStep

\* What a run is to be closed with is what it has read, and still holds.
LEMMA VerdictsStep ==
  ASSUME Inv, RoomOver, NotLoaded, VerdictsHold, [Next]_vars
  PROVE  NotLoaded' /\ VerdictsHold'
<1>1. TypeOK
  BY DEF Inv
<1>2. ASSUME NEW r \in Runs, work'[r] # Null,
             work'[r].at \in {"started", "found", "free", "created"}
      PROVE  work'[r].loaded = {}
  <2>1. CASE work'[r] = work[r]
    BY <1>2, <2>1 DEF NotLoaded
  <2>2. CASE work'[r] # work[r]
    BY <1>1, <1>2, <2>2, OthersWork, OwnWork
  <2> QED BY <2>1, <2>2
<1>3. ASSUME NEW r \in Runs, At(r, "closing")', NEW a \in work'[r].graded,
             NEW c \in Cells, c[1] = a, Pending(c)'
      PROVE  FALSE
  <2>1. Pending(c)
    BY <1>1, <1>3, NothingBecomesPending
  <2>2. c \in EvalsOf(a)
    BY <1>3, <2>1 DEF EvalsOf, Pending
  <2>3. CASE work'[r] = work[r]
    <3>1. At(r, "closing") /\ a \in work[r].graded
      BY <1>3, <2>3 DEF At
    <3> QED BY <2>1, <2>2, <3>1 DEF VerdictsHold
  <2>4. CASE work'[r] # work[r]
    <3>1. ReadVerdicts(r)
      BY <1>1, <1>3, <2>4, OthersWork, OwnWork DEF At
    <3>2. work[r] \in Works
      BY <1>1, <3>1, AtWork DEF ReadVerdicts, At
    <3>3. work'[r].graded = {b \in work[r].loaded : Complete(b)}
      BY <1>1, <3>1, <3>2 DEF ReadVerdicts, TypeOK, Works
    <3>4. Complete(a)
      BY <1>3, <3>3
    <3> QED BY <2>1, <2>2, <3>4 DEF Complete
  <2> QED BY <2>3, <2>4
<1>4. NotLoaded'
  BY <1>2 DEF NotLoaded
<1>5. VerdictsHold'
  BY <1>3 DEF VerdictsHold, EvalsOf
<1> QED BY <1>4, <1>5

\* A run that has loaded attempts is completed by CloseRun only.
LEMMA CompletedByClose ==
  ASSUME TypeOK, NotLoaded, [Next]_vars, NEW r \in Runs,
         run[r] # "COMPLETED", run'[r] = "COMPLETED", work[r].loaded # {}
  PROVE  CloseRun(r) /\ Succeeded(work[r])
<1>1. PICK o \in Runs : Load(o) \/ CloseRun(o)
  <2>1. ASSUME NEW o \in Runs, RunStep(o) \/ Crash(o), ~Load(o), ~CloseRun(o)
        PROVE  run'[r] \in {run[r], "CANCELLED", "PROCESSING"}
    <3>1. CASE CancelPrevious(o)
      BY <3>1 DEF CancelPrevious
    <3>2. CASE CreateRun(o)
      BY <3>2 DEF CreateRun, TypeOK
    <3>3. CASE ~CancelPrevious(o) /\ ~CreateRun(o)
      BY <2>1, <3>3 DEF RunStep, StartLocked, FindPrevious, SkipQuestion, Halt, AskModel,
         CheckCancelled, WriteBatch, ReadVerdicts, Crash
    <3> QED BY <3>1, <3>2, <3>3
  <2>2. CASE \/ ClosePackage
             \/ \E a \in Attempts : SubmitAttempt(a) \/ ResetDevice(a)
             \/ \E c \in Cells, written \in {"blank", "text"} : Autosave(c, written)
             \/ \E c \in Cells, s \in Scores, encoded \in BOOLEAN : Finalize(c, s, encoded)
    BY <2>2 DEF ClosePackage, SubmitAttempt, ResetDevice, Autosave, Finalize
  <2>3. CASE UNCHANGED vars
    BY <2>3 DEF vars
  <2> QED BY <2>1, <2>2, <2>3 DEF Next
<1>2. o = r
  <2>1. run' = run \/ run' = [run EXCEPT ![o] = "COMPLETED"] \/ run' = [run EXCEPT ![o] = "PARTIAL"]
    BY <1>1 DEF Load, CloseRun
  <2> QED BY <2>1 DEF TypeOK
<1>3. ~Load(r)
  BY DEF Load, At, NotLoaded
<1>4. CloseRun(r)
  BY <1>1, <1>2, <1>3
<1>5. Succeeded(work[r])
  BY <1>4 DEF CloseRun, TypeOK
<1> QED BY <1>4, <1>5

\* As long as nobody has the exam before them, whatever runs and teachers do
\* at the same time and whatever the model leaves out, a run that closes the
\* exam as COMPLETED leaves none of its essays pending.
THEOREM CompletedRunsLeaveNothing == Spec /\ []RoomOver => [][ClosesGraded]_vars
<1>1. Init => NotLoaded /\ VerdictsHold
  BY DEF Init, NotLoaded, VerdictsHold, At
<1>2. Inv /\ RoomOver /\ NotLoaded /\ VerdictsHold /\ [Next]_vars =>
        NotLoaded' /\ VerdictsHold'
  BY VerdictsStep
<1>3. Inv /\ NotLoaded /\ VerdictsHold /\ [Next]_vars => [ClosesGraded]_vars
  <2> SUFFICES ASSUME Inv, NotLoaded, VerdictsHold, [Next]_vars,
                      NEW r \in Runs, run[r] # "COMPLETED", run'[r] = "COMPLETED",
                      work[r].loaded # {}, NEW a \in work[r].loaded, NEW c \in EvalsOf(a)
               PROVE  ~Pending(c)
    BY DEF ClosesGraded
  <2>1. CloseRun(r) /\ Succeeded(work[r])
    BY CompletedByClose DEF Inv
  <2>2. At(r, "closing") /\ a \in work[r].graded
    BY <2>1 DEF CloseRun, Succeeded
  <2> QED BY <2>2 DEF VerdictsHold
<1> QED BY <1>1, <1>2, <1>3, PostExamInvariant, PTL DEF Spec
=============================================================================
