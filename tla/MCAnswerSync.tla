---------------------------- MODULE MCAnswerSync ----------------------------
(* Instances of AnswerSync for TLC: phones, tokens and values are             *)
(* interchangeable.                                                           *)
EXTENDS AnswerSync, TLC

Symmetry ==
  Permutations(Phones) \cup Permutations(Tokens) \cup Permutations(Values)
=============================================================================
