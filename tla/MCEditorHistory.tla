-------------------------- MODULE MCEditorHistory --------------------------
(* Symmetry for model checking EditorHistory.                               *)
EXTENDS EditorHistory, TLC

Symmetry == Permutations(Cars)

=============================================================================
