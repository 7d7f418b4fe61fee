# Relation Map: a TLA+ model of the editor, its storage and its Seed

This directory holds TLA+ modules that model the Relation Map editor, the
storage of its workspaces and the Seed that starts it, the TLC configurations that check them on small instances, and
theorems about them that TLAPS checks for every value of the constants.
`PROJECT.json` lists the components, the runs, the mutants (a plausible bug for
every property, which makes TLC find that property violated), the source lines
behind each definition, the hazards, and the theorems. Paths below are relative
to `src/`; `host/` stands for `pip-editor/relation-host/`.

1. [The system](#1-the-system)
2. [The modules and the code](#2-the-modules-and-the-code)
3. [The runs](#3-the-runs)
4. [Fairness](#4-fairness)
5. [What the runs found](#5-what-the-runs-found)
6. [What the models show beside the properties](#6-what-the-models-show-beside-the-properties)
7. [What is proved](#7-what-is-proved)
8. [What is not modelled](#8-what-is-not-modelled)
9. [The plan](#9-the-plan)

## 1. The system

Relation Map is an editor for relation graphs. It is distributed as layers:

| layer | code | what it is |
|---|---|---|
| A0 Seed | `pip-seed/{runtime,cli,tauri}` (Rust) | starts, serves packages, keeps trust, policies and profiles on the disk |
| A1 Loader | `pip-seed/loader` | reads the profile and imports the editor |
| A2 Editor | `pip-editor` | the relation kernel, the PIP package format, the relation host |
| A3, A4, A5 | `pip-editor-io`, imported packages | custom elements, node types, node maps |

Everything in A2 runs on one JavaScript thread. Concurrency is that of promises
and of the event loop: code between two `await`s is atomic, and whatever was read
before an `await` may be stale behind it. Rust connections run on threads.

### Components, their state and their operations

| component | state | operations | what makes it correct |
|---|---|---|---|
| Relation kernel `pip-editor/relation` | none (pure functions on graphs) | `applyRelationPatch` and the validity of graphs | a patch is atomic; its inverse applies and leads back |
| Workspace session store `host/workspace/workspace-store.ts` | graph, roots, views, selections, undo and redo of every open workspace | `commitPatch`, `commitCreation`, `undo`, `redo`, `closeProjectionRoot`, `select`, window operations, `markSaved` | the published graph is valid; views and selections name nodes that exist; the newest history entry applies |
| Host request dispatch `host/relation-host-actions.ts` | `commandQueues` | `runCommand` and one case for every request of an element | commands of a workspace run one by one and in order; a failure stays local |
| Execution queue `host/execution/event-queue.ts` | `#items`, `#space` | `push`, `shift`, the abort signal | bounded; no wake-up lost |
| Execution session manager `host/execution/session-manager.ts` | sessions: queue, status, outputs, receipts | `start`, `push`, `close`, `cancel`, `trigger`, `markWorkspaceStale`, the drain loop | a frame is executed once; a completed session is drained; the end is final |
| Trigger runtime `host/execution/trigger-runtime.ts` | active clocks and hooks | `sync`, firing, disposal | no session is lost; a session that runs executes the published graph |
| Export and close `host/relation-host.tsx` | saved fingerprint, the dialog | `exportWorkspace`, `requestClose`, `closeNow` | nothing is lost without a question |
| Registries `host/activation` | installed packages, `#installing`, capabilities, custom elements | `install`, `disable`, `uninstall` | capabilities belong to active packages; a module is executed once |
| Import `host/packages/import-pip.ts`, catalog `host/use-plugin-catalog.ts` | the progress of an import, the lists in the manager, trusted hashes | `importPip`, its rollback, the manager's buttons | all or nothing; the manager shows the registries |
| System plugins `relation-host-io/system-plugin`, `host/use-system-plugins.ts` | instances, keys of the singletons, the overlay graph | open, release, restore, dispose | the graph shows the instances there are; a singleton outlives its windows |
| Host presentation `host/workspace/host-presentation-store.ts` | frames, the active and the front window, the camera | place, drop, drag, resize, activate, close | a window belongs to an open workspace or an instance; frames stay on the desktop |
| Host desktop `host/relation-host.tsx`, `host/view` | tabs, the dialog, the creator, gestures, the last render | clicks, keys, drags, wheel, pinch | store, instances and layout stay in step |
| Resource workspace `pip-editor/pip/workspace` | the directory, `intent.pip`, the session's index and dirty mark | `write`, `remove`, `read`, save, open | the index names what the directory holds, after failures and crashes, too |
| Bundles `pip-editor/pip/bundle` | temporary files, a destination being filled | bundle and unbundle, on Node, in the browser and in memory | a bundle holds what its index says; a destination is whole or not there; failures leave nothing |
| PIP codec and policy `pip-editor/pip` | none (pure functions on bytes) | encode, decode, limits | what is written is what is read |
| Seed runtime and shells `pip-seed/{runtime,cli,tauri}` | `trusted.json`, the policy, profiles, the user's packages; the running loader and editor | start, trust, install, save, activate | files change as a whole; what runs is the system's, trusted, or named by the user; a saved profile resolves |
| Domain plugins, scripts, views | suites of node types; build steps; React state | commands, frames | rules of single suites |

### How they interact

Elements send requests to the **dispatch**. A command waits for the ones before it
in its workspace, computes a patch and calls `commitPatch` of the **store**, which
uses the **kernel**. Every publication re-renders the host; the effects behind a
render tell the **session manager** which sessions are stale and let the **trigger
runtime** synchronise clocks and hooks, which start and feed sessions. Sessions
take frames from **queues**. An **import** goes through the **catalog** to both
**registries**, opens a workspace in the store, and asks the Seed to persist
trust. **Export** reads a rendered workspace and marks the store's. The
**desktop** ties three stores together, each with its own notifications: the
workspaces, the layout and the instances of **system plugins**. **Bundles** are
made of a resource workspace whose session goes on working. The **Seed** answers
the requests of the page: connections of the CLI run on threads, the desktop
shell on its main thread, and both use one directory without a lock.

### What is hard here

* *Stale after `await`*: patches, exports and firings are computed from a state that others change meanwhile.
* *Overlap*: pushes that wake while another push comes by; two firings of one trigger; two imports with packages in common; a drain loop that ends while a push continues.
* *Partial failure*: an operation in the middle of a patch, a package in the middle of a closure, a cleanup that throws in a rollback, trust that cannot be persisted after everything else worked.
* *History*: entries are bound to revisions, and everything that publishes moves the revision on.
* *Limits*: full queues, the end of the promise chain that is forgotten from time to time.
* *Rendered state*: handlers act on the last render; a click renders before the next event, a wheel, a drag or the end of a promise only some time later.
* *Files*: a write that fails or is cut short, a temporary name that two writers share, a destination that appears while it is being made, a crash between two steps.

`hazards` in `PROJECT.json` lists these at their lines, with the properties that
cover each, or the reason why none does.

## 2. The modules and the code

    RelationGraph ──┬── RelationPatch ────────┐
                    ├── RevisionedGraph  <────┤ implements
                    └── WorkspaceSession ─────┘
    BoundedBuffer <─implements─ ExecutionEventQueue ── ExecutionSession <─implements─ ExecutionScope
    HostWorkspaces ──┬── HostCommands      TriggerRuntime
                     └── WorkspaceClose    PluginImport
    SystemPlugins + HostPresentation ── HostDesktop
    ResourceWorkspace ── WorkspaceBundles
    SeedPackages ── SeedRuntime

A name with `Proofs` behind it holds the theorems of a module, a name with `MC`
before it the instance that TLC checks. `RelationProofs` has the theorems of the
kernel and of both modules built on it, `HostWorkspacesProofs` those of
`HostCommands` and `WorkspaceClose`, which share the set of open workspaces.
`Lists` has the one list operator that the community modules have in no form the
prover can unfold.

**RelationGraph** holds the kernel as operators: a node is the list of its
relations in the pre-order of `walkRelations`, with the ids of the enclosing
relations as `path`. Constant object values are left out: no operation looks at
them. `Accepts` is "the operation does not throw", `Perform` its effect, `InverseOf`
what the inverse patch gets, `Stages` the clone and the inverse after each turn of the
loop. `Preorder` and `IsTree` say what the lists of a graph and of a patch are: in the code
they are nested arrays, so that they could be nothing else. **RelationPatch** runs the loop of
`applyRelationPatch` one operation at a time, so that the inverse can be checked
in the middle of a patch. **RevisionedGraph** is the abstract promise: the graph
is always valid and changes as a whole, one revision at a time.

**WorkspaceSession** is one workspace in the store; workspaces share only the
list they are in. Each action is one method of the store with everything it
changes (frames normalised and cut to live nodes, selections filtered, history
pushed); a call that throws changes nothing and is no step. `unindexed` is history: the
last patch went through a graph that could not be indexed. `Request` is what the dispatch,
the navigation bar and the gestures compute and store with `setWindow` or `updateViews`. They
compute it from the workspace their rendering closed over, or had before an `await`: `Current`, or
`rendered`, which `Render` takes and which may grow old. Neither method compares the trail
it is given with the graph; `revived` notes the missing nodes that come in so, and
`dropped` those that a creation removed, whose selections and trails it does not free. Window
geometry, stacking, diagnostics and system windows are left out. The history
entry kinds `graph`, `roots` and `views` are the combinations of optional
fields that occur.

**ExecutionEventQueue** is the queue with the gap between `shift` resolving a
promise and the woken push running. `event-queue.ts:1` calls it "a bounded FIFO", but a push that
arrives in this gap overtakes the one that was woken, so the abstract **BoundedBuffer** promises the bound
and no order.
**ExecutionSession** adds one session around the queue: `Continue` is the code of
`push` behind its `await`, `Started` that of `start`, `DrainLoop` the head of the
loop in `#drain`, and `FrameDone` the end of a frame's execution, which is one
asynchronous step there. **ExecutionScope** takes that step apart: `Begin` is a call
of `executeScope` (a round of a scope, with the number of its generation and what the
last round left for delayed inputs), `NextRank` the loop over ranks behind
`Promise.allSettled`, `EndScope` its end; `LacksInput`, `EnterScope` and `Execute` are the
ways of `executeNode`, and `Perform` is the arbiter, with `Key` as the key of the effect
and `receipts` as `#receipts`. A plan is a tree, a node has one input and
one effect at most; runtimes return what `Returns` allows, or throw, which stands for
their states, for operators and for handlers that fail.

**HostCommands** is `runCommand`: `behind` is `previous`, `queue` is
`commandQueues`, `Return` the `finally`. A graph is its revision. `Publish` stands
for every publication that goes past the queue.

**TriggerRuntime** composes the trigger runtime with the trigger sessions of the
manager. `Sync` is the pair of effects behind a render (mark stale, then
synchronise). A firing has the phases between its awaits: `mapping` (in
`mapInput`), then `pushing` to an existing session, or `starting` one that is
registered only when `start` returns.

**WorkspaceClose** has the store, the last render (`shown`), the dialog, and
exports with their graph of the click; `Finish` is the code behind the `await`.
A graph is its fingerprint.

**PluginImport** composes `importPip`, both registries, the lists of the catalog
and the buttons of the plugin manager. Promise reactions run before the next task
of the event loop: an import whose continuation is queued has a `pc` in `Micro`,
and tasks (a module that has loaded, an answer of the host, a click) need `Quiet`. What a
registry answers reaches the catalog some microtasks later: the import is `answered` until
`Catalogue` lists the package, and a rollback may come in between. `threw` and
`overtaken` are history: what is listed although its cleanup threw while it was
uninstalled, or because such an answer came too late.
The custom element registry of the browser is the set `defined`, which only grows.

**SystemPlugins** and **HostPresentation** hold the two stores as operators on a
record: `Ensured`, `Releases`, `Disposed` are the methods of the runtime,
`Presented`, `RestoredTab` and the others those of the layout. Frames have one axis, for the code
treats both alike. **HostDesktop** is the state around them. `shown` is
the last render, and a handler takes from it what the code takes from its props or its closure;
`lane` says what the render on its way was caused by, which decides how long it may wait and whether its
effects run with it; `restoring` is the effect that creates the instances windows lack.
A click in a window activates it at the pointer down (`Brought`), before the button under it is
clicked: so do the crosses, `CloseWindow` and `CloseHostPlugin`, and what is edited or opened in a window.
`late` is a history variable: a handler of a render from before a close has met the closed workspace.

**ResourceWorkspace** is the directory, `intent.pip` and the session, with each call
cut at its awaits: `Write` is the code before the store is called, `NodeWrite`,
`BrowserCreate`, `BrowserClose` and `StoreRemove` are the stores, `Resume` is the code behind
the await. `loose` and `unsaved` are history: paths whose calls overlapped, and paths
changed since `intent.pip` was written. **WorkspaceBundles** lets jobs work beside
that session: a job is a record with the list it took at its start, what it has
still to do and what it has done. An unbundler keeps the file it opened, whatever its
name leads to later. Contents are told apart by identity, as SHA-256 does.

**SeedPackages** has what Seed reads out of packages, as operators: `Parses` (sections,
manifest, file name, limits of the policy), the catalog, references, profiles and the closure
of a launch package. **SeedRuntime** is the processes and their threads. A step is one
call the others can see; a file is an inode that paths lead to, so that two
writers of one temporary file write into one inode. The directories that Seed only reads are
`Folders`; which one is the system's a process decides at its start (`SystemPlace`): the one beside
the executable, or, for the command line, the one of the loader that `--pip` names. That loader, and
one picked in the dialog of the desktop (`Asks`), may lie anywhere (`NamedLoaders`);
`named` is what the user named for a process.
`Boot` to `Serve` are the start of both shells, `CliWrite`, `DesktopWrite` and the others the
routes, `OpenTemporary`, `WriteTemporary`, `CommitTemporary` the save of the trust store and of profiles,
`CreatePolicy`, `SyncPolicy`, `CommitPolicy` that of the policy, `CreatePackage`,
`WritePackage`, `VerifyPackage` an install. Any write may fail and leave a part of its bytes.

The MC modules define small graphs, patches, closures, packages and bundles. Definitions whose
comment begins with "Mutant" belong to no specification; `PROJECT.json` says which
definition each one replaces and which property then fails.

## 3. The runs

All runs finish within three minutes on two cores.

| run | instance | question |
|---|---|---|
| `relation_patch` | two nodes, three relation ids, nesting depth 2, one patch of up to four operations of all kinds | does the inverse lead back after every operation, is the order of siblings kept by puts, is a patch atomic |
| `workspace` | document with nodes `a` and `b`, five patches (one refused by a validator, one whose inverse throws), three revisions, one window with a trail of two, requests of the current rendering and of an older one | does only the newest entry apply, can the last change always be taken back, do selections and trails name live nodes, is the published graph a `RevisionedGraph` |
| `execution_session` | three frames, capacity 1, continuous or not; a plan with a node that waits for another, a scope with feedback of its own and a scope whose input is delayed, two rounds each | has every node that counts as executed had its effect, is the queue a bounded buffer that loses no wake-up, is a completed session drained, is each frame executed once, are ends final, do closed sessions settle |
| `host_commands` | three commands (one unknown), two workspaces | do commands run one by one and in order, do they conflict, does each command settle |
| `trigger_runtime` | two triggers, two firings, three sessions, one new graph | are sessions reachable and current, do they end with their workspace |
| `workspace_close` | one workspace, three graphs, two exports | is what counts as saved in a file, what does it take to lose a change |
| `plugin_import` | two node maps with a common element, an element and a node type with other content under used ids, two clicks, a cleanup that throws | do registries, capabilities, lists and trust agree, does every import settle |
| `host_desktop` | two workspaces, a singleton of the host, a singleton of a workspace and a plugin with many instances, five events, one export, one disposal that throws | do the overlay graph, the windows, the dialog and the frames stay in step with what is open |
| `storage` | two resources, two callers with three calls, two jobs, a given bundle that is missing, sound, lying or torn, one failure, one crash | does the index name what is there, are bundles sound and destinations whole, do failures leave nothing |
| `seed` | a CLI with two connections and a desktop shell, nine packages in two directories, four command lines (one with a loader of its own), two starts, two requests, one failing write, one crash | does the trust store hold whole closures, is all that runs the system's, trusted or named, do profiles resolve, is the policy atomic |
| `plugin_partial_open`, `seed_trust_commit` | as `plugin_import` with two maps, and as `seed` | the two findings of section 5 |

Type invariants that are proved (section 7) have no run of their own.

### Why the bounds are enough

* *Patches.* Three operations are the least with which an operation lies between
  two others that touch the same relation; two nodes and three ids give
  references across nodes, replaced and nested subtrees, and re-used ids. All three
  properties are proved for patches and graphs of any size.
* *Revisions.* Three publications are a change, its undo and its redo, and a
  change, another change and an undo. A run ends with its last revision (`MaxRevision`).
  The user works in one window (`Windows`) and goes to one projection (`Targets`), which is enough to
  lead through a node of another root and lose it. An old rendering is one of `Renderings`: a trail
  of two at its end, or turned back, with a second window. The document begins with nothing
  selected (`InitialSelection`). `NavigationLive` and
  `SelectionLive` are proved for any number of windows, trails, renderings and selections.
* *Queues.* With one place and three frames a push waits, is woken, is overtaken
  and waits again, while another one continues. The safety of the queue and of the
  session is proved for any capacity and any number of frames.
* *Scopes.* The inner scopes are entered again in the second round of the outer one, with
  another input; two rounds are the least with which numbers of rounds can be
  confused, and the third ends in the limit (1024 in the code). Every node may fail in every round.
* *Commands.* Three commands in one workspace are a chain whose end is forgotten
  while the last is running; two workspaces show the independence.
* *Firings.* Two firings overlap with each other, with a change of the graph and
  with closing; a third would do nothing the second does not do to the registered session.
* *Exports.* Two exports overlap with each other and with edits; three graphs are
  one saved, one exported and one that is neither.
* *Imports.* A second and third import overlap with the first in every phase; the
  closures have a common package, a conflict and a shared capability. The safety
  properties are proved for any imports.
* *Desktop.* Five events are a workspace or window, a gesture or a key on it, and
  the close or the end of an export between that and the render. Renders are no events: they may come
  at any point. Any disposal may be the one that throws. The shortest way to a dangling window
  through the cross of a workspace that an export has just closed needs a sixth event, and a run of more than five million
  states; `NothingDangles` is proved for any number.
* *Storage.* Two jobs meet at a destination and three calls of a session
  overlap on one path, or change a resource that a bundler has, or has not, read yet.
  Two contents of one length tell the check of a hash from that of a length. All
  of its safety properties are proved for any number of jobs and calls.
* *Seed.* Two threads of one process, and a second process, share a directory; two requests overlap
  in every way, and the second start sees what the first, a crash or a failed write left behind. The second
  directory has a loader and the editor it asks for, so that a process can have another
  system directory than the others.

No run checks deadlock: each ends with its bound, or everything may be settled
and closed. That nothing is stuck before that is what the liveness properties say.

## 4. Fairness

* A woken push and every continuation behind a resolved promise run (`ResumePush`,
  `Continue`, `Started`, `Begin`, `Return`, `Register`): the event loop
  runs queued reactions, weak fairness for each.
* `FrameDone`, and in `ExecutionScope` the steps of the active frame: runtimes
  and handlers return, with a result or an error, as those of the repository do.
* `Sync`: React runs the effects behind a render.
* `Reject \/ Continue \/ Start`: `mapInput` returns or throws.
* `Complete`: sessions that are closed complete, which `ClosedSessionsSettle` of
  `ExecutionSession` establishes.
* `Step(i)` of an import: a module evaluates or fails, the host answers.
* Nothing is assumed of users, of publications, or of the functions of plugin
  commands. `EveryCommandSettles` assumes for a workspace that the functions of its
  own commands return (`Returning`), and of other workspaces nothing.

## 5. What the runs found

* **A failed import leaves a workspace** (`plugin_partial_open`,
  `host/packages/import-pip.ts:70`). Trust is persisted after the map was opened,
  outside the `try` that rolls back, where `doc/project_structure.md:392` says that
  no failing step leaves a partial workspace.
* **The trust store is not written atomically** (`seed_trust_commit`,
  `pip-seed/runtime/src/runtime.rs:210`). Line 193 speaks of one atomic rename. The
  temporary file has one name for all threads and processes, so a second save
  truncates the inode that the first one renames; until the second one has written, and
  for ever if it fails, `trusted.json` is empty, and every later start and request that reads it is
  refused.

Properties of passing runs exclude these behaviours by name where they must, and
nothing more: `dropped` and `revived` in `WorkspaceSession` (until the next patch, undo or redo),
`raced` and `blind` in `WorkspaceClose`, `tangled` in `TriggerRuntime`
(firings that overlap or outlive their activation) and in `RelationPatch`, `unindexed` in
`WorkspaceSession`, `crowded`
in `WorkspaceBundles` (unbundlers of the browser in one directory), `loose` and
`unsaved` in `ResourceWorkspace`, `threw` and `overtaken` in `PluginImport`, `late` in `HostDesktop`, and crashes in
`PolicySavesAreAtomic`, `FailedJobsLeaveNothing` and `DestinationsAreWhole`.

## 6. What the models show beside the properties

The models reach these states; but for the first, no document promises otherwise, so no run states
them as properties.

* A push between a `shift` and the continuation of the push it woke takes the free
  place (`event-queue.ts:16`): what `event-queue.ts:1` calls "a bounded FIFO" is bounded, and its items
  leave in the order in which they came in, but pushes do not come in in the order of their
  calls.

* Undo is offered again after an undo and then refused (`workspace-store.ts:246`):
  an entry is bound to the revision that followed it, and undoing a later entry
  publishes a further revision. `OnlyNewestEntryApplies` is the general form.
* A frame that an older rendering has closed over, or `start-execution` has kept over its
  `await`, is written back with its trail (`host/relation-host-actions.ts:112-127,204-227`,
  `host/relation-host.tsx:217`), and `setWindow` does not look at the nodes: a window may have a trail
  through a node that a patch has removed meanwhile, until the next patch, undo or redo cuts it.
* A creation whose patch removes a node leaves it selected and in trails as long
  (`workspace-store.ts:218-239`).
* A change made during an export counts as exported: `markSaved` fingerprints the graph at the
  end of the export, not the one that was exported (`host/relation-host.tsx:112`).
* A patch may pass through a graph that cannot be indexed (two relations with one
  id, put by two operations of the patch) and be valid at its end. It is accepted,
  but applying its inverse may throw (`pip-editor/relation/patch.ts:17,47`), and then undo is
  refused for good: `LastChangeIsReversible` fails without `~unindexed`, on the patch
  `Tangle` of the `workspace` run.
* Undoing `remove-relation` puts the relation behind its siblings (`patch.ts:43`):
  the graph has the same content in another order, and its fingerprint differs
  from the saved one. `OrderSurvivesPuts` shows that puts do keep the order.
* Undoing a patch that created a node whose projection was opened later leaves a
  root without a node (`workspace-store.ts:251`); exporting refuses such a document
  (`pip-editor/relation/document.ts:49`). Trails are still cut to live nodes.
* Two firings of one trigger that both wait in `mapInput` both start a session; the
  first one is orphaned (`session-manager.ts:83-86`). The same happens to a firing
  that outlives its trigger's activation.
* A push that was woken before an abort and finds the queue full again registers
  with a signal that has fired already and waits for ever (`event-queue.ts:19`).
* The inner rounds of a scope count on from the round of the scope around it
  (`session-manager.ts:154,167`). With delays in both, the second inner round within the
  first outer one and the first inner round within the second outer one have one number, so the
  effects of a node have one key, and the arbiter answers the later one with the receipt of
  the earlier (`effect-arbiter.ts:9`). `EffectsArePerformed` excludes nodes in two such scopes, with
  `Rounds`. A node that two flows of one plan contain has one key in both, too; plans are trees here.
* A cancelled session executes its active frame to the end, effects included: only
  runtimes and handlers look at the signal (`session-manager.ts:115,165-175`).
* A failed import leaves an element it reactivated enabled (`import-pip.ts:61`).
* The rollback of one import uninstalls an element that another, overlapping
  import had found active; that one goes on and activates a node type without it
  (`use-plugin-catalog.ts:89-93` looks before the load and not after it).
* An import that was told that a package is active lists it some microtasks later; the rollback of
  another import may have uninstalled it by then, and the manager shows a package that is gone
  (`import-pip.ts:66`, `use-plugin-catalog.ts:70-82,93-105`; `overtaken`).
* Two packages with one tag that are loaded at the same time are both installed
  (`host/activation/element-registry.ts:43-50`). The constants of the runs give
  each id a tag of its own.
* A custom element cannot be undefined, so a package that was uninstalled, by the
  user or a rollback, cannot be installed again before a reload
  (`element-registry.ts:45,63`; `occupied` in `InstallOnce`).
* An export that closes its workspace ends after a render; Ctrl-W before the next one asks about
  the closed workspace, and the dialog then reads the name of no workspace
  (`host/relation-host.tsx:180-203,289`). The cross of its window activates the closed workspace
  before it asks, so that, if the window was not the active one, nothing is
  (`view/workspace-window.tsx:258`). `DanglingNeedsRace` excludes both with `late`.
* An effect from a render before a close may create an instance for a workspace that is
  closed by then; nothing disposes of it (`host/use-system-plugins.ts:66-83`). For a window of a
  plugin with many instances whose instance is gone, the effect of every render makes
  a further one, for `ensure` gives it a new id.
* A `dispose()` that throws keeps `closeNow` from removing the workspace: it
  stays open without its instances. A cleanup that throws while the manager disables or uninstalls leaves the
  package listed (`use-plugin-catalog.ts:76-82,99-105`).
* A cancelled pan leaves `previewCamera` in place, and the end of a pan may publish a
  camera that a wheel has replaced since. A canvas that is mounted again opens the creator again,
  since `creatorRequest` stays positive (`view/host-canvas.tsx:121-125`).
* `markSaved` of a resource session clears the dirty mark of writes that came behind
  the index that was saved (`resource-store.ts:91`); nothing saves them until the next write.
* A crash of the browser while it unbundles leaves a directory that refuses the next attempt, and
  two unbundlers in one directory remove each other's files.
* Of two overlapping saves of the trust store the later rename forgets what the earlier one
  committed (`runtime.rs:205`). An install that fails in the middle of its
  write leaves a torn file under the final name, which refuses a second install (`runtime.rs:240`).
* The command line takes the directory of a loader it is given for the system's
  (`pip-seed/cli/src/main.rs:92`): an editor beside it runs, and can be activated, without being trusted, and the
  packages beside the executable are none of the system's for this process. The desktop runs such a
  loader, too, but keeps its system directory. `RunsOnlyTrusted` says so.
* A profile that was saved by such a process resolves beside that directory only; a
  process with another one refuses to start with it.
* A process that is killed while it saves the policy leaves a temporary file that refuses the
  saves of a later process with its id (`runtime.rs:96`).

## 7. What is proved

TLAPS proves the following for all values of the constants that satisfy the named
assumptions. The assumptions are typings (the initial document is valid, bounds
are natural numbers, markers such as `NoCommand` are not members of the set they
mark), and TLC evaluates each of them in a passing run.

| module | theorem | argument |
|---|---|---|
| `RelationProofs` | `InverseAlwaysLeadsBack` | see "The inverse of a patch" below. |
| | `PutsKeepOrder` | the same invariant with equality for `SameContent`: a put replaces a stretch of its list, and its inverse the stretch it has put (`StepBackExactly`). |
| | `PatchesAreAtomic` | refinement of `RevisionedGraph`: `Finish` is `Publish`, all other steps leave the published graph alone. |
| | `LoopRunsThePatch`, `PublicationsAreApplied` | the two readings of a patch agree: the loop of `RelationPatch` computes, operation by operation, what `ApplyOperations` says of the whole (an operation more leaves the stages before it as they were, `StagesGrow`), and publishes exactly `Applied`. So `WorkspaceSession` may take a patch to be one step. |
| | `LastChangeCanBeTakenBack` | the entry on top of one of the stacks leads from the graph back to a closed one (`ReversibleInv`), which a publication establishes for the entry it leaves and nothing else disturbs. A graph with the content of a closed one is closed, so the result passes the validation, too. |
| | `TypeCorrect` | `TypeOK` is inductive. The work is in the lemmas on stacks (pushing and popping), on cutting a trail to its live prefix, which needs the least missing position, and on the frames an entry brings back. |
| | `HistoryOrder` | `OnlyNewestEntryApplies` is not inductive: popping the newest entry exposes the one below. `HistoryOrdered` adds that the revisions of a stack increase strictly and none lies above the current revision; then an entry below the top is bound to an older revision for ever. |
| | `SelectionIsLive` | inductive; every publication filters both kinds of selection by the graph it publishes, except creations, which may leave selections of what they remove: `dropped`, which the next patch, undo or redo empties. |
| | `NavigationIsLive` | inductive together with `TypeOK`, for the frames of closed windows, too. The cases that need care are frames brought back by an entry, cut by `GraphSafeFrames`, creations, which keep frames as they are, and the frames of any rendering, whose missing nodes are those of `revived`: no other step, and no sequence of them, lets such a trail in. |
| | `SessionImplementsRevisionedGraph` | refinement: initial states map to initial states, each action that publishes to `Publish`, all others to a stutter. |
| `HostWorkspacesProofs` | `Serial` | `SerialInOrder` is strengthened by `Order`: requests are numbered; the command each one waits for was asked for before it; every command that was asked for before and has not settled is ahead of it along `behind`; and the end of the chain is in `commandQueues` as long as anything before it is unsettled. The last part is what makes forgetting the entry harmless. |
| | `NoConflicts` | `OneRuns`: by `Order` two commands of one workspace are never running at once, so no commit happens between another's begin and its commit. |
| | `TypeCorrect`, `Forgetful` | inductive with the type. |
| `ExecutionSessionProofs` | `NoWakeupIsLost` | the queue's invariant says where each push's frame is: waiting pushes are those in `space`, the others in `items` or `taken`, and no list holds a frame twice. |
| | `QueueImplementsBuffer` | refinement of `BoundedBuffer`, step by step, from the same invariant. |
| | `FramesRunOnce` | results belong to the frames that were taken, one each and in their order. |
| | `CompletionIsComplete` | an idle drain loop has woken everybody it could, and an aborted session has an end other than "completed"; without these a session could complete while a push is on its way. |
| | `EndStaysFinal` | an action property: every step from an end keeps it, from the typing of the status and of the loop. |
| | `ScopesImplementSession`, `CompletionWithScopes` | refinement with the identity: no step of a frame's execution touches the session, the last one is `FrameDone`. What is proved of `ExecutionSession` holds with every plan. |
| | `EffectsHappen` | `ScopeInv`, for any finite tree of scopes. A node's key is the number of the round its scope is in, so the question is whether a number can come back. Inside a single scope with delays it cannot: the nodes around a node all count that scope's rounds (`Counted`), a node that has yet to run has receipts of earlier rounds only (`Fresh`), and it has its turn once in a round (`RankByRank`, `BusyInRunning`). |
| `TriggerRuntimeProofs` | `RunningSessionsAreReachable`, `RunningSessionsAreCurrent` | for triggers that are not `tangled`: one firing at most is on its way, with the graph of the activation, and it starts a session only when the registered one takes no frames. For all triggers: no two share a session. |
| | `MarkedGraphsAreWritten`, `ClosingLosesNothing` | an export older than its workspace has raced it or was blind to it, or another export has written the newer graph already. |
| `PluginImportProofs` | `Owned` | `CapabilitiesAreOwned` is inductive with the domain of `owner`: a package becomes active only in the step that gives it all it registers, and stops being active only in a step that releases everything it owns. |
| | `ModulesRunOnce` | `LoadInv`: whose loads `#installing` holds, what is installed beside a load, and what an install that resumes finds. |
| | `ManagerAgrees` | what is installed is listed, or something of its id that threw or was overtaken is in its place; what is listed and not installed threw while it was uninstalled, or was listed by an answer that a rollback had overtaken; and only an answer on its way leaves an active package shown as disabled. Inductive with what an `answered` import was told. |
| | `TrustIsEarned`, `TypeCorrect` | trust is the last step of an import that had all others behind it. |
| `HostDesktopProofs` | `TypeCorrect`, `Mirrored` | `TypeOK` is inductive with the registry of instances being `Consistent`: instances, keys of singletons and nodes of the overlay belong together, and no UUID comes twice. What a handler does to a list of windows or of disposals, one at a time, is proved with `Along` and `Iterate`. |
| | `HostSingletonsKept` | not inductive: `Seen` adds that whatever the restoring effect has seen has its instances, and that an idle screen shows what there is. No step disposes of an instance of the host's (`HostKept`). |
| | `NothingDangles` | `Screen` says what the last render and the desktop have in common between two events; then a handler of the render finds what it asks for (`Fits`), or it is one that runs after another event of the same commit, and `late` notes that. The pointer down of a click and the click itself are two updates of one step, so each is shown to keep the windows there are (`Brought`). |
| | `WallsStand` | an action property: no gesture takes a window further right than it was, or over the wall, and the sizes of frames are clamped wherever one is made. |
| `WorkspaceBundlesProofs` | `IndexHolds` | `WInv` says what a call under way has done: one that shares its path with no other leaves entry and resource alone until the store has changed the resource, and from then on the path is unsaved and no save covers it. The index of `intent.pip` and that of a save obey the same law outside what is unsaved, which is what a crash and a reopening need. |
| | `BundlesHold` | `JInv`: what a job has done is its list but for what it has still to do (`Done`), and each step extends this by one entry whose content was compared with the entry (a bundler) or taken from the open file (an unbundler). For the bundler in memory as long as the session's index is the one it listed. |
| | `NothingIsLeft` | the part of `JInv` on temporaries: each belongs to a job of Node that works. |
| | `DestinationsHoldWhole` | `DInv`: in Node only the rename touches the directory, with a list that `JInv` knows to be done; in the browser the directory is what the one unbundler at work has noted down (`PlaceOf`), so its catch takes away exactly what is there. |
| `SeedRuntimeProofs` | `TrustIsOfClosures` | not of `trusted.json` alone but of every inode and of every list that a thread is about to write: each is a union of closures that somebody asked to trust. A list that is cut short or overlaid by another one is no list any more, so nothing is claimed of it. |
| | `PolicySavesHold` | whose inode is whose: two files never share one, the writers of shared temporaries stay out of those of the policy, and the thread that syncs a temporary policy is the only one of its process, since a boot runs alone. |
| | `OnlyTrustedRuns` | for any directories, and loaders that lie in any of them. `RInv`: what a thread has looked up before it starts or replaces an editor was in the trust store when it looked, and so asked for; a boot has the closure of its launch package asked for, with the loader and the editor it names, before it uses them; and the system directory is the shipped one or that of the loader that was named, from the start of a process on, while its other threads rest. |
| | `ProfilesStayValid` | `VInv`: a package that can be loaded is never written again, for a package that is being written has one creator and no bytes yet; a reference can mean only the file that carries its package's name, so the package it meant stays the one it means as the registry grows, beside the system directory of the process that saved it. |

### The inverse of a patch

`InverseLeadsBack` is not inductive: it says that the inverse works in the clone as it is
now, where the next operation changes the clone, and the inverse of the next operation restores it only up
to the order of siblings. What is inductive is `LeadsBack(work, inverse, source.nodes)`: from
*every* indexed graph with the content of the clone, each operation of the inverse is accepted, the
graph stays indexed, and the end has the content of the published graph. The steps to it:

1. A list in pre-order has each subtree as one stretch of it (`SubtreeExists`). So replacing,
   pushing and taking out a subtree are all a `Splice` (`ReplaceSubtreeIs`, `PushSubtreeIs`,
   `WithoutSubtreeIs`), and a splice has the relations outside the stretch and those of the
   piece (`RangeSplice`). It is in pre-order if its two seams are (`PreorderSplice`), and taken
   back by another splice (`SpliceBack`).
2. An operation leaves forests forests (`StepForward`), and its inverse undoes it in any graph
   with the content of the result (`StepBack`): the list is in another order there, so the stretch is
   elsewhere, but what is inside it and outside it is the same.
3. A patch is a stage function. With one operation more in front, its stages are those of the
   rest, shifted by one (`StagesShift`), so that the inverse of one more operation keeps
   `LeadsBack` (`OneMoreLeadsBack`).

The assumptions are that lists are pre-orders of forests and that what `put-relation` carries is one tree,
which nested arrays always are.

### What is assumed of plans

`PlanAssumption` has plans whose scopes form a finite tree: every non-empty set of nodes has one whose
scope is not in the set. `compileScope` refuses a node that contains itself
(`pip-editor-io/relation-projections/flow/compiler.js:27`) and ranks nodes by the bindings
that are not delayed (`:11-24`). Left out are nodes in two flows (section 6) and a node that is bound
to itself without a delay, which `ranks` lets pass (`:15`) and whose input is never there.

### Only model-checked

All liveness (`ClosedSessionsSettle`, `EveryCommandSettles`, `SessionsEnd`, `ImportsSettle`), for the
prover has no `ENABLED` or fairness. Every safety property that a run checks has its theorem. That
`Preorder` holds of the traversal of every nested array is an induction over data, which the
prover cannot do either; `RelationGraph` starts from lists in pre-order.

## 8. What is not modelled

* Encoding, decoding and validation of packages in the editor: pure functions of bytes that
  finish before anything changes. Their place in an import, an export and a bundle is there.
  The Rust counterparts, on which trust and start-up depend, are in `SeedPackages`.
* JSON well-formedness, the syntax of ids and the values of constant objects.
* What views draw, the second axis, the scaling of contents, and the button that
  switches the resize mode. Windows of a workspace's own projections have navigation and
  selections (`WorkspaceSession`), not frames.
* The trace of a session, the states of node runtimes, and the values of operators.
* The states of system plugins, and what each of them does.
* In the Seed: the export of native applications, `--verify`, tokens and windows.
* Domain plugins and build scripts.

* In an import, how many microtasks an install takes that has nothing to load: its answer is one
  step, its listing the next.
* In the Seed, writes to the directories it only reads (`Folders`), which include those of `--pip` when
  they are not the user's registry, and the empty parent of a bare file name given to `--pip`.
* The failing removal of what a failed unbundling has made.

Six hazards have no property, with the reason beside them in `PROJECT.json`: roots without a node,
firings that overlap, changes during an export, an import whose
rollback takes a package from another one, a bundle file that is overwritten, and a dialog about a closed
workspace. The models have these behaviours. The repository promises nothing that they break, so
the properties exclude them by name and say that nothing else leads there.

## 9. The plan

Done, in this order: the kernel, the session store, the queue and the session, the
commands, the triggers, closing, imports, the scopes of a frame; then the Seed, the resource workspace
and its bundles, the system plugins, the layout and the desktop; and the proofs of
section 7. What would come next:

1. **IoPolicy** (`pip/io-policy.ts`): that it and `pip/policy.rs`, which `SeedPackages`
   has, set the same limits, as operators on bounded inputs.
2. **NativeExport** (`pip-seed/cli`, `pip-seed/tauri`): bytes appended to a launcher and
   read back at its start.
