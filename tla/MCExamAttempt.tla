--------------------------- MODULE MCExamAttempt ---------------------------
(* Instances of ExamAttempt for TLC: phones and tokens are interchangeable. *)
EXTENDS ExamAttempt, TLC

Phones == Permutations(Devices)
Symmetry == Phones \cup Permutations(Tokens)
AllCommands == {"lock", "unlock", "reset", "telemetry", "clear"}
LockCommands == {"lock", "unlock", "clear"}
NoUnlock == {"lock", "reset", "telemetry", "clear"}
=============================================================================
