------------------------ MODULE MCAssessmentService ------------------------
(* Instances of AssessmentService for TLC. *)
EXTENDS AssessmentService, TLC

\* Nothing tells keys, seals, findings or calls apart; liveness runs use none.
Symmetry == Permutations(Keys) \cup Permutations(SealIds)
               \cup Permutations(Findings) \cup Permutations(Calls)
=============================================================================
