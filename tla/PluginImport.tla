---------------------------- MODULE PluginImport ----------------------------
(***************************************************************************)
(* Importing a PIP into the editor: importPip() walks the closure of an A3 *)
(* element, an A4 node type or an A5 node map, hands each package to the   *)
(* registry of its kind, opens the map and persists the trusted hashes.    *)
(* Imports are started by file drops and by the launch package, and        *)
(* nothing serialises them: between two of the awaits of one import the    *)
(* other imports and the buttons of the plugin manager run.                *)
(*                                                                         *)
(* JavaScript runs to completion: a continuation whose promise has settled *)
(* (pc in Micro) runs before the next click, load or answer of the host.   *)
(*                                                                         *)
(* Decoding, hashing and the confirmation (always true in the catalog)     *)
(* change nothing and are over when an import begins.  The code a package  *)
(* runs is external: its entry may fail, and may define its tag first.     *)
(***************************************************************************)
EXTENDS Naturals, Sequences, FiniteSets

CONSTANTS
    Imports,            \* calls of importPip
    Elements,           \* A3 packages, one value for each content
    NodeTypes,          \* A4 packages
    ElementPlugins,     \* the A3 packages of an import, in the order of its closure
    NodeTypePlugins,    \* the A4 packages of an import
    NodeMaps,           \* the imports whose layer is A5
    PackageId,          \* manifest.packageId; contents with one id exclude each other
    Tag,                \* the custom element tag an A3 package declares
    Dependencies,       \* the exact A3 packages an A4 package refers to
    Registers,          \* the capabilities an A4 entry registers
    ThrowingCleanup,    \* A4 packages whose own disposable throws
    MaxClicks,          \* bound on the clicks in the plugin manager
    None

Plugins == Elements \cup NodeTypes
Capabilities == UNION {Registers[t] : t \in NodeTypes}

ASSUME PluginImportAssumption ==
    /\ NodeMaps \subseteq Imports
    /\ ElementPlugins \in [Imports -> Seq(Elements)]
    /\ NodeTypePlugins \in [Imports -> Seq(NodeTypes)]
    /\ Elements \cap NodeTypes = {}
    /\ \A e \in Elements, t \in NodeTypes : PackageId[e] # PackageId[t]
    /\ Dependencies \in [NodeTypes -> SUBSET Elements]
    /\ DOMAIN PackageId = Plugins /\ DOMAIN Tag = Elements /\ DOMAIN Registers = NodeTypes
    /\ ThrowingCleanup \subseteq NodeTypes
    /\ MaxClicks \in Nat
    /\ None \notin Imports \cup Plugins

VARIABLES
    plugins,      \* #plugins of the two registries
    active,       \* those with active = true
    defined,      \* the tags customElements knows
    owner,        \* #types, #commands, ...: the package that registered a capability
    installing,   \* #installing: the import whose call of install loads a package id
    listed,       \* elementPackages and nodeTypePackages, shown in the manager
    disabled,     \* disabledElements and disabledNodeTypes
    pc,           \* where each import stands
    position,     \* the package of its closure it is at
    installed,    \* positions that returned "installed": what it rolls back
    workspaces,   \* the imports whose node map is open as a workspace
    trusted,      \* the persisted hashes
    clicks,
    threw,        \* history: listed, for their cleanup threw while they were uninstalled
    overtaken     \* history: listed by an answer from before a rollback uninstalled them

registry == <<plugins, active, defined, owner, installing>>
manager == <<listed, disabled, threw, overtaken>>
progress == <<pc, position, installed>>
vars == <<registry, manager, progress, workspaces, trusted, clicks>>

Micro == {"next", "resumed", "answered", "rollback"}
Settled == {"done", "failed"}
Loading == {"loading", "reloading"}     \* reloading: a node type that was disabled
PC == Micro \cup Settled \cup Loading \cup {"idle", "waiting", "trusting"}

Closure(i) == ElementPlugins[i] \o NodeTypePlugins[i]
AtEnd(i) == position[i] > Len(Closure(i))
Current(i) == Closure(i)[position[i]]
SameId(p) == {q \in Plugins : PackageId[q] = PackageId[p]}
Hashes(i) == {Closure(i)[n] : n \in DOMAIN Closure(i)} \cup {i}

(* No continuation is pending: the event loop may take its next task. *)
Quiet == \A i \in Imports : pc[i] \notin Micro

(* Promise reactions run in the order they were queued: those that joined  *)
(* a load run #installOnce before any import goes on from its own install. *)
Continues(i, at) == pc[i] = at /\ \A j \in Imports : pc[j] # "resumed"

TypeOK ==
    /\ plugins \subseteq Plugins
    /\ active \subseteq plugins
    /\ \A p, q \in plugins : PackageId[p] = PackageId[q] => p = q
    /\ defined \subseteq {Tag[e] : e \in Elements}
    /\ owner \in [Capabilities -> NodeTypes \cup {None}]
    /\ installing \in [{PackageId[p] : p \in Plugins} -> Imports \cup {None}]
    /\ listed \subseteq Plugins
    /\ disabled \subseteq {PackageId[p] : p \in Plugins}
    /\ pc \in [Imports -> PC]
    /\ \A i \in Imports :
          /\ position[i] \in 1..(Len(Closure(i)) + 1)
          /\ installed[i] \subseteq 1..(position[i] - 1)
          /\ pc[i] \in Loading \cup {"waiting", "resumed", "answered"} => ~AtEnd(i)
    /\ workspaces \subseteq NodeMaps
    /\ trusted \subseteq Plugins \cup Imports
    /\ clicks \in 0..MaxClicks
    /\ threw \cup overtaken \subseteq listed

Init ==
    /\ plugins = {} /\ active = {} /\ defined = {}
    /\ owner = [c \in Capabilities |-> None]
    /\ installing = [id \in {PackageId[p] : p \in Plugins} |-> None]
    /\ listed = {} /\ disabled = {}
    /\ pc = [i \in Imports |-> "idle"]
    /\ position = [i \in Imports |-> 1]
    /\ installed = [i \in Imports |-> {}]
    /\ workspaces = {} /\ trusted = {} /\ clicks = 0
    /\ threw = {} /\ overtaken = {}

-----------------------------------------------------------------------------
\* Mutant of Released: a package that goes releases nothing.
ReleasesNothing(S) == owner

(* The owners left when the packages of S release what they registered. *)
Released(S) == [c \in Capabilities |-> IF owner[c] \in S THEN None ELSE owner[c]]

(* uninstall() throws: what is active under the id has such a disposable.  *)
Throws(p) == ThrowingCleanup \cap SameId(p) \cap active # {}

\* Mutant of Advance: a package that is installed again stays shown as disabled.
AdvanceKeepsDisabled(i, p, status) ==
    /\ UNCHANGED disabled
    /\ listed' = IF listed \cap SameId(p) # {} THEN listed ELSE listed \cup {p}
    /\ position' = [position EXCEPT ![i] = @ + 1]
    /\ installed' = [installed EXCEPT ![i] =
           IF status = "installed" THEN @ \cup {position[i]} ELSE @]

(* The continuation of the catalog behind await elements.install() or      *)
(* nodeTypes.install(): it shows the package as enabled and lists it, the  *)
(* import goes to the next one.                                            *)
Advance(i, p, status) ==
    /\ disabled' = disabled \ {PackageId[p]}
    /\ listed' = IF listed \cap SameId(p) # {} THEN listed ELSE listed \cup {p}
    /\ position' = [position EXCEPT ![i] = @ + 1]
    /\ installed' = [installed EXCEPT ![i] =
           IF status = "installed" THEN @ \cup {position[i]} ELSE @]

Goto(i, where) == pc' = [pc EXCEPT ![i] = where]

Throw(i) ==
    /\ Goto(i, "rollback")
    /\ UNCHANGED <<registry, manager, position, installed, workspaces, trusted, clicks>>

Begin(i) ==
    /\ Quiet
    /\ pc[i] = "idle"
    /\ Goto(i, "next")
    /\ UNCHANGED <<registry, manager, position, installed, workspaces, trusted, clicks>>

-----------------------------------------------------------------------------
(* #installOnce up to its await.  A disabled element is enabled at once; a *)
(* disabled node type has released everything and is loaded again.         *)

AlreadyActive(i) ==
    /\ Current(i) \in active
    /\ Goto(i, "answered")
    /\ UNCHANGED <<registry, manager, position, installed, workspaces, trusted, clicks>>

ReactivateElement(i) ==
    /\ Current(i) \in (plugins \ active) \cap Elements
    /\ active' = active \cup {Current(i)}
    /\ Goto(i, "answered")
    /\ UNCHANGED <<plugins, defined, owner, installing, manager, position, installed,
                   workspaces, trusted, clicks>>

StartLoad(i) ==
    /\ installing' = [installing EXCEPT ![PackageId[Current(i)]] = i]
    /\ Goto(i, IF Current(i) \in plugins THEN "reloading" ELSE "loading")
    /\ UNCHANGED <<plugins, active, defined, owner, manager, position, installed,
                   workspaces, trusted, clicks>>

InstallOnce(i) ==
    LET p == Current(i)
        conflict == plugins \cap (SameId(p) \ {p}) # {}
        occupied == p \in Elements \ plugins /\ Tag[p] \in defined
    IN  \/ (conflict \/ occupied) /\ Throw(i)
        \/ AlreadyActive(i)
        \/ ReactivateElement(i)
        \/ /\ ~conflict /\ ~occupied
           /\ p \notin active /\ p \notin plugins \cap Elements
           /\ StartLoad(i)

(* A second install of an id joins the pending one. *)
Join(i) ==
    /\ Goto(i, "waiting")
    /\ UNCHANGED <<registry, manager, position, installed, workspaces, trusted, clicks>>

\* Mutant of Install: #installing is not consulted.
InstallAlways(i) == InstallOnce(i)

Install(i) ==
    IF installing[PackageId[Current(i)]] # None THEN Join(i) ELSE InstallOnce(i)

InstallElement(i) ==
    /\ Continues(i, "next") /\ ~AtEnd(i) /\ Current(i) \in Elements
    /\ Install(i)

InstallNodeType(i) ==
    /\ Continues(i, "next") /\ ~AtEnd(i) /\ Current(i) \in NodeTypes
    /\ IF Dependencies[Current(i)] \subseteq active THEN Install(i) ELSE Throw(i)

(* pending.then(() => this.#installOnce(plugin)): the package is active by *)
(* now, so this finds it, or other content under its id, and never loads.  *)
Resume(i) == pc[i] = "resumed" /\ InstallOnce(i)

(* The registry's answer reaches the catalog some microtasks later.  By    *)
(* then the rollback of another import may have uninstalled the package.   *)
Catalogue(i) ==
    /\ Continues(i, "answered")
    /\ Advance(i, Current(i), "already-active")
    /\ overtaken' = (overtaken \cup ({Current(i)} \ plugins)) \cap listed'
    /\ Goto(i, "next")
    /\ UNCHANGED <<registry, threw, workspaces, trusted, clicks>>

-----------------------------------------------------------------------------
(* The load of i settles: it leaves #installing, and the imports that      *)
(* joined it run #installOnce or are rejected with it.                     *)
Joined(i) == {j \in Imports : pc[j] = "waiting" /\ PackageId[Current(j)] = PackageId[Current(i)]}

\* Mutant of Settle: a failed load does not reject those who joined it.
SettleAlone(i, own, others) ==
    /\ installing' = [installing EXCEPT ![PackageId[Current(i)]] = None]
    /\ pc' = [j \in Imports |-> IF j = i THEN own
                                ELSE IF j \in Joined(i) /\ own = "next" THEN others ELSE pc[j]]

Settle(i, own, others) ==
    /\ installing' = [installing EXCEPT ![PackageId[Current(i)]] = None]
    /\ pc' = [j \in Imports |-> IF j = i THEN own
                                ELSE IF j \in Joined(i) THEN others ELSE pc[j]]

(* The end of a load is a task of its own, and the catalog awaited it      *)
(* before anyone joined it: the package is listed before those go on.      *)
LoadSucceeds(i) ==
    /\ Settle(i, "next", "resumed")
    /\ plugins' = plugins \cup {Current(i)}
    /\ active' = active \cup {Current(i)}
    /\ Advance(i, Current(i), IF pc[i] = "reloading" THEN "reactivated" ELSE "installed")
    /\ UNCHANGED <<threw, overtaken, workspaces, trusted, clicks>>

LoadFails(i) ==
    /\ Settle(i, "rollback", "rollback")
    /\ UNCHANGED <<plugins, active, owner, manager, position, installed,
                   workspaces, trusted, clicks>>

ElementLoaded(i) ==
    /\ Quiet /\ pc[i] \in Loading /\ Current(i) \in Elements
    /\ LET tag == Tag[Current(i)]
       IN  \/ LoadSucceeds(i) /\ defined' = defined \cup {tag} /\ UNCHANGED owner
           \/ LoadFails(i) /\ defined' \in {defined, defined \cup {tag}}

(* Registration is synchronous once the module is loaded.  A capability    *)
(* that is taken makes it throw, and what it had registered is released.   *)
NodeTypeLoaded(i) ==
    /\ Quiet /\ pc[i] \in Loading /\ Current(i) \in NodeTypes
    /\ UNCHANGED defined
    /\ \/ /\ \A c \in Registers[Current(i)] : owner[c] = None
          /\ owner' = [c \in Capabilities |->
                          IF c \in Registers[Current(i)] THEN Current(i) ELSE owner[c]]
          /\ LoadSucceeds(i)
       \/ LoadFails(i)

-----------------------------------------------------------------------------
(* The closure is active: an A5 map is opened, or the catalog refuses it   *)
(* (other content under its id and version, a graph it cannot load).       *)
OpenNodeMap(i) ==
    /\ Continues(i, "next") /\ AtEnd(i)
    /\ \/ /\ workspaces' = workspaces \cup ({i} \cap NodeMaps)
          /\ Goto(i, "trusting")
          /\ UNCHANGED <<registry, manager, position, installed, trusted, clicks>>
       \/ i \in NodeMaps /\ Throw(i)

\* Mutant of TrustHashes: hashes are persisted one by one, and one may fail.
TrustOneByOne(i) ==
    /\ Quiet
    /\ pc[i] = "trusting"
    /\ \/ trusted' = trusted \cup Hashes(i) /\ Goto(i, "done")
       \/ \E h \in Hashes(i) : trusted' = trusted \cup {h} /\ Goto(i, "failed")
    /\ UNCHANGED <<registry, manager, position, installed, workspaces, clicks>>

TrustHashes(i) ==
    /\ Quiet
    /\ pc[i] = "trusting"
    /\ \/ trusted' = trusted \cup Hashes(i) /\ Goto(i, "done")
       \/ UNCHANGED trusted /\ Goto(i, "failed")
    /\ UNCHANGED <<registry, manager, position, installed, workspaces, clicks>>

(* What throws when the packages of S are uninstalled is recorded; what is *)
(* off the list is forgotten.                                              *)
Leaves(S) ==
    /\ threw' = (threw \cup (ThrowingCleanup \cap active \cap S)) \cap listed'
    /\ overtaken' = overtaken \cap listed'

(* Uninstall what this import installed, last first, by package ids: what  *)
(* is active under the id by now may have other content.  A cleanup that   *)
(* throws ends the rollback: its package is gone, but stays listed.        *)
Rollback(i) ==
    LET throwing == {n \in installed[i] : Throws(Closure(i)[n])}
        undone == {n \in installed[i] : \A m \in throwing : n >= m}
        gone == UNION {SameId(Closure(i)[n]) : n \in undone}
        unlisted == UNION {SameId(Closure(i)[n]) : n \in undone \ throwing}
    IN  /\ Continues(i, "rollback")
        /\ plugins' = plugins \ gone
        /\ active' = active \ gone
        /\ owner' = Released(gone)
        /\ listed' = listed \ unlisted
        /\ Leaves(gone)
        /\ Goto(i, "failed")
        /\ UNCHANGED <<defined, installing, disabled, position, installed,
                       workspaces, trusted, clicks>>

-----------------------------------------------------------------------------
(* The buttons of the plugin manager, on a package it lists. *)
Click(p) ==
    /\ Quiet
    /\ p \in listed
    /\ clicks < MaxClicks
    /\ clicks' = clicks + 1
    /\ UNCHANGED <<defined, installing, progress, workspaces, trusted>>

Disable(p) ==
    /\ Click(p)
    /\ active' = active \ SameId(p)
    /\ owner' = Released(SameId(p))
    /\ disabled' = disabled \cup {PackageId[p]}
    /\ UNCHANGED <<plugins, listed, threw, overtaken>>

Uninstall(p) ==
    /\ Click(p)
    /\ plugins' = plugins \ SameId(p)
    /\ active' = active \ SameId(p)
    /\ owner' = Released(SameId(p))
    /\ listed' = IF Throws(p) THEN listed ELSE listed \ SameId(p)
    /\ Leaves(SameId(p))
    /\ UNCHANGED disabled

Step(i) ==
    \/ InstallElement(i)
    \/ InstallNodeType(i)
    \/ Resume(i)
    \/ Catalogue(i)
    \/ ElementLoaded(i)
    \/ NodeTypeLoaded(i)
    \/ OpenNodeMap(i)
    \/ TrustHashes(i)
    \/ Rollback(i)

Next ==
    \/ \E i \in Imports : Begin(i) \/ Step(i)
    \/ \E p \in Plugins : Disable(p) \/ Uninstall(p)

Spec == Init /\ [][Next]_vars

(* Continuations run, a module evaluates or fails, the host answers.  An   *)
(* import need not begin, and nobody has to click.                         *)
FairSpec == Spec /\ \A i \in Imports : WF_vars(Step(i))

-----------------------------------------------------------------------------
(* The capabilities the host offers are exactly those of the active node   *)
(* types: whatever loads failed, rolled back, raced or were disabled, no   *)
(* command or projection of a package outlives it, and none is missing.    *)
CapabilitiesAreOwned ==
    /\ \A c \in Capabilities : owner[c] # None => owner[c] \in active /\ c \in Registers[owner[c]]
    /\ \A t \in active \cap NodeTypes : \A c \in Registers[t] : owner[c] = t

(* The manager shows every installed package once, as disabled exactly the *)
(* inactive ones, and nothing else, though the registries and the React    *)
(* state behind the list are separate and are written by several imports   *)
(* and buttons.  What is listed without being installed, in the place of   *)
(* other content under its id maybe, threw while it was uninstalled or was *)
(* listed by an answer that a rollback had overtaken, and only an answer   *)
(* on its way leaves an active package shown as disabled (use-plugin-      *)
(* catalog.ts:70-82, 93-105, 109-121).                                     *)
ManagerShowsRegistry ==
    /\ \A p, q \in listed : PackageId[p] = PackageId[q] => p = q
    /\ \A p \in plugins : \E q \in listed : q = p \/ q \in SameId(p) \cap (threw \cup overtaken)
    /\ listed \subseteq plugins \cup threw \cup overtaken
    /\ \A p \in plugins \ active : PackageId[p] \in disabled
    /\ \A p \in active : PackageId[p] \in disabled =>
           \E i \in Imports : pc[i] = "answered" /\ Current(i) = p

(* Concurrent installs of a package share one execution of its module: two *)
(* imports never load the same id at once, and whoever waits for a load    *)
(* waits for one that runs.                                                *)
OneExecution ==
    \A i, j \in Imports :
        /\ pc[i] \in Loading /\ pc[j] \in Loading /\ PackageId[Current(i)] = PackageId[Current(j)]
              => i = j
        /\ pc[i] = "waiting" => \E k \in Imports : pc[k] \in Loading /\ i \in Joined(k)

(* Trust is persisted only for closures whose every activation and opening *)
(* step succeeded: a trusted hash belongs to an import that finished.      *)
TrustFollowsActivation ==
    \A h \in trusted : \E i \in Imports : h \in Hashes(i) /\ pc[i] = "done"

(* Every import that began settles: neither a failed load nor two imports  *)
(* that wait for loads of each other leave one waiting for ever.           *)
ImportsSettle == \A i \in Imports : pc[i] # "idle" ~> pc[i] \in Settled

(* No failing step leaves a partial workspace or partially persisted       *)
(* trust: the map of an import that failed is not open.                    *)
NoPartialWorkspace == \A i \in workspaces : pc[i] # "failed"
=============================================================================
