-------------------------- MODULE HostWorkspaces --------------------------
(***************************************************************************)
(* The workspaces the host has open: the entries of WorkspaceSessionStore  *)
(* in src/pip-editor/relation-host/workspace/workspace-store.ts,   *)
(* as its commands and its dialogs share them.                             *)
(***************************************************************************)
CONSTANT Workspaces

VARIABLE open   \* the workspaces in the store

\* remove
Remove(w) == open' = open \ {w}
=============================================================================
