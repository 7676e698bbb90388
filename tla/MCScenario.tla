----------------------------- MODULE MCScenario -----------------------------
(***************************************************************************)
(* Scenario on a small instance, with the number of fiscal lines and pumps *)
(* set by the .cfg.                                                        *)
(***************************************************************************)
EXTENDS Scenario, TLC

CONSTANTS p1, p2, fiscal1

Symmetry == Permutations(Pumps)
=============================================================================
