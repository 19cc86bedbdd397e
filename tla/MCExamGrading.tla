--------------------------- MODULE MCExamGrading ---------------------------
(* Instances of ExamGrading for TLC.                                       *)
EXTENDS ExamGrading

\* Two versions of one evaluation, each under an event of its own.
TwoVersions ==
  {[event |-> "e1", question |-> "essay1", score |-> 1, version |-> 1],
   [event |-> "e2", question |-> "essay1", score |-> 2, version |-> 2]}
OneMessage == {m \in TwoVersions : m.event = "e1"}
NoMessage == {m \in TwoVersions : m.event = "none"}
=============================================================================
