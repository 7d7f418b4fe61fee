----------------------------- MODULE SystemPlugins -----------------------------
(***************************************************************************)
(* The runtime of the system plugins: instances, the keys of the           *)
(* singletons, and the overlay graph with a node for each instance         *)
(* (src/pip-editor/relation-host-io/system-plugin).                        *)
(*                                                                         *)
(* An instance id is <<plugin, workspace, n>>: n = 0 for a singleton, the  *)
(* n-th UUID otherwise.  The states of instances and the type nodes, which *)
(* never change, are left out.                                             *)
(***************************************************************************)
EXTENDS Naturals, SequencesExt, Lists

CONSTANTS
    Plugins,
    Scope,              \* plugin -> "host" or "workspace"
    InstancePolicy,     \* plugin -> "singleton" or "multiple"
    Surfaces,           \* plugin -> where it has windows
    NoWorkspace

(* What the registry asks of a definition.                                 *)
Registered ==
    /\ Scope \in [Plugins -> {"host", "workspace"}]
    /\ InstancePolicy \in [Plugins -> {"singleton", "multiple"}]
    /\ Surfaces \in [Plugins -> (SUBSET {"host", "workspace"}) \ {{}}]
    /\ \A p \in Plugins : Scope[p] = "workspace" => "host" \notin Surfaces[p]
ASSUME RegistryAssumption == Registered

PluginOf(id) == id[1]
IsSingleton(id) == InstancePolicy[PluginOf(id)] = "singleton"

NewRuntime == [instances |-> << >>, singletons |-> {}, nodes |-> {}, uuids |-> 0]

Ids(runtime) == {i.id : i \in Range(runtime.instances)}
Live(runtime, id) == id \in Ids(runtime)

SingletonKey(plugin, workspace) ==
    <<plugin, IF Scope[plugin] = "host" THEN NoWorkspace ELSE workspace>>

(* The instance that ensure() returns.                                     *)
EnsuredId(runtime, plugin, workspace) ==
    IF InstancePolicy[plugin] = "singleton"
    THEN <<plugin, SingletonKey(plugin, workspace)[2], 0>>
    ELSE <<plugin, NoWorkspace, runtime.uuids + 1>>

(* A key without its instance counts for nothing.                          *)
Ensured(runtime, plugin, workspace) ==
    LET id == EnsuredId(runtime, plugin, workspace)
        key == SingletonKey(plugin, workspace)
        instance == [id |-> id, workspace |-> key[2]]
    IN IF /\ InstancePolicy[plugin] = "singleton"
          /\ [key |-> key, id |-> id] \in runtime.singletons
          /\ Live(runtime, id)
       THEN runtime
       ELSE [instances |-> Append(runtime.instances, instance),
             singletons |-> runtime.singletons \cup
                 IF InstancePolicy[plugin] = "singleton" THEN {[key |-> key, id |-> id]} ELSE {},
             nodes |-> runtime.nodes \cup {id},
             uuids |-> runtime.uuids + IF InstancePolicy[plugin] = "singleton" THEN 0 ELSE 1]

(* Mutant: the overlay graph is left alone.                                *)
DisposedButShown(runtime, ids) ==
    [runtime EXCEPT
        !.instances = Only(@, {i \in Range(@) : i.id \notin ids}),
        !.singletons = {s \in @ : s.id \notin ids}]

(* The plugin's own dispose() may throw: what follows is in its finally.   *)
Disposed(runtime, ids) ==
    [runtime EXCEPT
        !.instances = Only(@, {i \in Range(@) : i.id \notin ids}),
        !.singletons = {s \in @ : s.id \notin ids},
        !.nodes = @ \ ids]

(* disposeAll() goes on behind an exception.                               *)
AllDisposed(runtime) == Disposed(runtime, Ids(runtime))

(* Mutant: closing a window disposes of singletons, too.                   *)
ReleasesAll(runtime, ids) == Only(ids, Ids(runtime))

(* releasePresentation() of each: a singleton outlives its windows.        *)
Releases(runtime, ids) == Only(ids, {id \in Ids(runtime) : ~IsSingleton(id)})

(* The instances a closing workspace releases with its windows, and those  *)
(* of its own scope.                                                       *)
Disposals(runtime, windows, workspace) ==
    LET released == Releases(runtime, windows)
        scoped == Only(runtime.instances,
                       {i \in Range(runtime.instances) :
                            i.workspace = workspace /\ i.id \notin Range(released)})
    IN released \o [k \in DOMAIN scoped |-> scoped[k].id]

(* An exception from one disposal keeps the rest from happening.           *)
UpToFailure(ids, failing) ==
    LET bad == {k \in DOMAIN ids : ids[k] = failing}
    IN IF bad = {} THEN ids ELSE SubSeq(ids, 1, CHOOSE k \in bad : \A j \in bad : k <= j)

(* A window whose instance is gone gets one, by its plugin.                *)
Restored(runtime, id, workspace) ==
    IF Live(runtime, id) THEN runtime ELSE Ensured(runtime, PluginOf(id), workspace)

(* So do all the windows in a place, one after the other.                  *)
AllRestored(runtime, ids, workspace) ==
    LET restored[k \in 0..Len(ids)] ==
            IF k = 0 THEN runtime ELSE Restored(restored[k - 1], ids[k], workspace)
    IN restored[Len(ids)]
=============================================================================
