--------------------------- MODULE AssessmentMemory ---------------------------
(***************************************************************************)
(* What is remembered of a teacher's gradings, and what of it the language *)
(* model is shown later: assessment_histories, one version per decision of *)
(* the teacher on an evaluation, and the embeddings retrieval searches.    *)
(*                                                                         *)
(* A memory holds the versions of one evaluation.  A score stands for all  *)
(* of score, feedback and teacher that make two decisions the same one.    *)
(***************************************************************************)
EXTENDS Naturals, Sequences, FiniteSets

CONSTANT Scores

Versions == [score : Scores, current : BOOLEAN, embedding : {"none", "current", "superseded"}]
Memories == Seq(Versions)

Blank == <<>>

\* get_current_by_evaluation; 0 when there is none.
Current(memory) ==
  LET V == {v \in DOMAIN memory : memory[v].current}
  IN IF V = {} THEN 0 ELSE CHOOSE v \in V : TRUE

\* Mutant of Unchanged: a decision the teacher has taken before is no news.
KnownDecision(memory, s) == \E v \in DOMAIN memory : memory[v].score = s

\* The decision is the one that is remembered already.
Unchanged(memory, s) == Current(memory) # 0 /\ memory[Current(memory)].score = s

\* mark_superseded of the history, then of the embeddings of all versions
\* before; both happen before the new version is encoded.
Superseded(memory) ==
  [v \in DOMAIN memory |->
     [memory[v] EXCEPT !.current = @ /\ v # Current(memory),
                       !.embedding = IF @ = "current" THEN "superseded" ELSE @]]

\* capture_finalized_evaluation; the model that encodes may be missing, in
\* which case the version stays without an embedding, and nothing comes back
\* to it.
Capture(memory, s, encoded) ==
  IF Unchanged(memory, s) THEN memory
  ELSE Append(Superseded(memory),
              [score |-> s, current |-> TRUE,
               embedding |-> IF encoded THEN "current" ELSE "none"])

\* get_rag_candidates: the versions shown to the model.
Candidates(memory) ==
  {v \in DOMAIN memory : memory[v].current /\ memory[v].embedding = "current"}
===============================================================================
