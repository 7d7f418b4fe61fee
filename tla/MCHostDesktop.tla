------------------------------ MODULE MCHostDesktop ------------------------------
(* Instances of HostDesktop for TLC.                                       *)
EXTENDS HostDesktop, TLC

CONSTANTS none, manager, notes, probe

(* A singleton of the host on both surfaces, as the built-in ones are, a   *)
(* singleton of a workspace, and a plugin with many instances.             *)
MCScope == manager :> "host" @@ notes :> "workspace" @@ probe :> "host"
MCInstancePolicy == manager :> "singleton" @@ notes :> "singleton" @@ probe :> "multiple"
MCSurfaces == manager :> {"host", "workspace"} @@ notes :> {"workspace"} @@ probe :> {"host", "workspace"}
MCPluginSize == manager :> 6 @@ notes :> 5 @@ probe :> 5

MCPoints == {4, 24}
MCDeltas == {-9, 9}

Symmetric == Permutations(Workspaces)
=============================================================================
