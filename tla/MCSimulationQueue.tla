------------------------- MODULE MCSimulationQueue -------------------------
(* Instances of SimulationQueue for TLC. *)
EXTENDS SimulationQueue, TLC

RunSymmetry == Permutations(Runs)
Symmetry == Permutations(Runs) \cup Permutations(Workers)

=============================================================================
