-------------------------- MODULE MCScenarioStore --------------------------
(* Request bodies and symmetry for model checking ScenarioStore.            *)
EXTENDS ScenarioStore, TLC

\* What the editor sends: always a scene and its map (buildScenarioPayload).
EditorBodies ==
  [scene : Scenes, map : Maps \ {NoMap}, clear : BOOLEAN]

\* What an API client may send: any field may be left out.
ApiBodies ==
  [scene : Scenes \cup {Omitted}, map : (Maps \ {NoMap}) \cup {Omitted},
   clear : BOOLEAN]

Symmetry == Permutations(Clients)

=============================================================================
