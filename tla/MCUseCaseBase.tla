---------------------------- MODULE MCUseCaseBase ----------------------------
(* Two entities, the second without the features of one scenario, and two  *)
(* goroutines, enough for any pair of handlers to interleave.              *)
EXTENDS UseCaseBase, TLC

CONSTANTS h1, h2

MCEntities == {1, 2}
MCScenarios == {1, 2}
MCFeatured == [e \in MCEntities |-> IF e = 1 THEN {1, 2} ELSE {1}]
MCHandlers == {h1, h2}
Symmetry == Permutations(MCHandlers)

=============================================================================
