-------------------------- MODULE MCWorkspaceClose --------------------------
(* Workspaces, graphs and exports that differ in nothing but their name.    *)
EXTENDS WorkspaceClose, TLC

Symmetry ==
  Permutations(Workspaces) \cup Permutations(Graphs) \cup Permutations(Exports)
=============================================================================
