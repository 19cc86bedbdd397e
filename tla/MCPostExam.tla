------------------------------ MODULE MCPostExam ------------------------------
(***************************************************************************)
(* Two runs over the attempts of one exam; what others do meanwhile is     *)
(* counted.  In one scene the room is open, in another everybody has       *)
(* handed in, a student two attempts, and no device is reset any more; in  *)
(* the third nobody has answered the essays; in the fourth there is no run *)
(* and all is up to one student and his teacher.                           *)
(***************************************************************************)
EXTENDS PostExamGrading, TLC

CONSTANTS a1, a2, a3, x, y
VARIABLES left, scene

Budget == [empty |-> 0, room |-> 3, over |-> 1, silent |-> 1, again |-> 7]

MCStudentOf == [a \in Attempts |-> IF a = a3 THEN y ELSE x]
Room == [empty |-> {}, room |-> {a1}, over |-> {a1, a2}, silent |-> {a3}, again |-> {a1}]

Held(c) == CASE c = <<a2, 2>> -> "blank" [] c[1] = a3 -> "none" [] OTHER -> "text"

MCInit ==
  /\ scene \in DOMAIN Room /\ left = Budget[scene]
  /\ answer = [c \in Cells |-> IF c[1] \in Room[scene] THEN Held(c) ELSE "none"]
  /\ Init
  /\ \A a \in Attempts : (attempt[a] # "ABSENT") <=> (a \in Room[scene])
  /\ scene \notin {"room", "again"} => \A a \in Attempts : attempt[a] # "OPEN"

Others ==
  \/ ClosePackage
  \/ /\ scene \in {"room", "again"}
     /\ \/ \E a \in Attempts : SubmitAttempt(a) \/ ResetDevice(a)
        \/ \E c \in Cells, written \in {"blank", "text"} : Autosave(c, written)
  \/ \E c \in Cells, s \in Scores, encoded \in BOOLEAN :
       /\ c[2] # 1 => s = 5 /\ encoded       \* one essay is enough for these
       /\ Finalize(c, s, encoded)

MCNext ==
  /\ \/ scene # "again" /\ (\E r \in Runs : RunStep(r) \/ Crash(r)) /\ UNCHANGED left
     \/ left > 0 /\ left' = left - 1 /\ Others
  /\ UNCHANGED scene

MCSpec == MCInit /\ [][MCNext]_<<vars, left, scene>>

\* In the scene of an exam that is over and stays so, a run that reports
\* COMPLETED leaves no essay of an attempt it has closed to be graded.
CompletedIsGraded == [][scene = "over" => ClosesGraded]_vars

Symmetry == Permutations(Runs)
================================================================================
