------------------------- MODULE WorkspaceSession -------------------------
(***************************************************************************)
(* One open workspace in the WorkspaceSessionStore                         *)
(* (src/pip-editor/relation-host/workspace/workspace-store.ts): the graph  *)
(* it publishes, its projection roots and their window frames, what is     *)
(* selected, and the undo and redo stacks.  Workspaces share nothing in    *)
(* the store but the list they are in, so one of them stands for all.  The *)
(* saved fingerprint belongs to WorkspaceClose.                            *)
(*                                                                         *)
(* The workspace's views are in the free layout.  Of a projection's frame  *)
(* only the navigation is kept: the trail of projection nodes it went      *)
(* through and the position in it; an empty trail is a frame without       *)
(* navigation.  Window geometry, stacking and system windows are left out. *)
(* A call that throws changes nothing and is no step here.                 *)
(*                                                                         *)
(* A request is made with the workspace a rendering closed over, and       *)
(* start-execution awaits before it writes such a frame back: what a       *)
(* window is given is computed from the session as it is or as it was at   *)
(* an earlier rendering, and the store does not compare the two.           *)
(***************************************************************************)
EXTENDS RelationGraph, Integers, FiniteSets

CONSTANTS
  InitialGraph,     \* the graph the document opens with
  InitialRoots,     \* its rootNodeIds
  InitialSelection, \* its initialSelection, or its roots
  Changes,          \* operation lists the patches of this run consist of
  Validates(_),     \* the graph passes every installed A4 validator
  Selections,       \* bound: the sets of nodes a user selects in this run
  Windows,          \* bound: the projections the user works in during this run
  Targets,          \* bound: the projections the user goes to
  Renderings,       \* bound: the renderings whose requests may come late
  MaxTrail,         \* bound: projections in one navigation trail
  MaxRevision       \* bound: the last revision a run reaches

ASSUME WorkspaceAssumption ==
  /\ InitialGraph.revision \in Nat
  /\ InitialGraph = [revision |-> InitialGraph.revision, nodes |-> InitialGraph.nodes]
  /\ ValidNodes(InitialGraph.nodes)
  /\ InPreorder(InitialGraph.nodes)
  /\ \A change \in Changes : change \in Seq(Range(change))
  /\ \A change \in Changes : \A i \in DOMAIN change : IsOperation(change[i])
  /\ InitialRoots \subseteq DOMAIN InitialGraph.nodes
  /\ InitialSelection \subseteq DOMAIN InitialGraph.nodes
  /\ Selections \subseteq SUBSET NodeIds
  /\ Windows \cup Targets \subseteq NodeIds
  /\ MaxTrail \in Nat

VARIABLES
  graph,       \* [revision, nodes]
  roots,       \* rootNodeIds
  frames,      \* views.projections: projection root -> frame
  selection,   \* selected nodes
  scoped,      \* scopedSelections: projection root -> selected nodes
  undo, redo,  \* history entries, the newest last
  rendered,    \* the session at an earlier rendering: its nodes and frames
  unindexed,   \* history: the last patch went through a graph without an index
  dropped,     \* history: nodes creations removed since the last patch
  revived      \* history: missing nodes that frames brought since the last patch

vars == <<graph, roots, frames, selection, scoped, undo, redo, rendered,
          unindexed, dropped, revived>>
-----------------------------------------------------------------------------
(* Frames. *)

\* normalizeProjectionNavigation: the position lies inside the trail.
Frame ==
  {frame \in [trail : Seq(NodeIds), at : Nat] :
     frame.at \in (IF frame.trail = <<>> THEN {0} ELSE DOMAIN frame.trail)}

DefaultFrame == [trail |-> <<>>, at |-> 0]

\* normalizeFreeLayout: exactly the roots have a frame, a new one the default.
NormalizeFrames(views, ids) ==
  [id \in ids |-> IF id \in DOMAIN views THEN views[id] ELSE DefaultFrame]

\* The longest prefix of the trail whose projections all exist.
LivePrefix(trail, nodes) ==
  LET missing == {i \in DOMAIN trail : trail[i] \notin DOMAIN nodes}
  IN  IF missing = {} THEN trail
      ELSE SubSeq(trail, 1, (CHOOSE i \in missing : \A j \in missing : i <= j) - 1)

GraphSafeFrame(frame, nodes) ==
  LET trail == LivePrefix(frame.trail, nodes)
  IN  [trail |-> trail, at |-> IF frame.at <= Len(trail) THEN frame.at ELSE Len(trail)]

\* Mutant: stored frames come back as they were stored.
FramesAsStored(views, ids, nodes) == NormalizeFrames(views, ids)

\* graph_safe_views
GraphSafeFrames(views, ids, nodes) ==
  [id \in ids |-> GraphSafeFrame(NormalizeFrames(views, ids)[id], nodes)]

\* Mutant: the scoped selections are carried over as they are.
AllScoped(nodes) == scoped

\* graph_safe_selections, for the selection and for every scope.
LiveSelection(nodes) == selection \cap DOMAIN nodes
LiveScoped(nodes) == [id \in DOMAIN scoped |-> scoped[id] \cap DOMAIN nodes]
-----------------------------------------------------------------------------
(* History entries.  A "graph" entry holds a patch only, a "roots" entry   *)
(* the roots to go back to as well, a "views" entry the frames too.        *)

GraphEntry(patch) ==
  [kind |-> "graph", patch |-> patch, roots |-> {}, frames |-> <<>>]
RootsEntry(patch, ids) ==
  [kind |-> "roots", patch |-> patch, roots |-> ids, frames |-> <<>>]
ViewsEntry(patch, ids, views) ==
  [kind |-> "views", patch |-> patch, roots |-> ids, frames |-> views]

\* What history() leaves of the roots and the frames.
RestoredRoots(entry) == IF entry.kind = "graph" THEN roots ELSE entry.roots

RestoredFrames(entry) ==
  LET ids == RestoredRoots(entry)
      kept == IF entry.kind = "views" THEN DOMAIN entry.frames \cap ids ELSE {}
  IN  [id \in ids |-> IF id \in kept THEN entry.frames[id]
                      ELSE NormalizeFrames(frames, ids)[id]]

InverseEntry(entry) ==
  LET patch == InversePatch(graph, entry.patch)
  IN  IF entry.kind = "graph" THEN GraphEntry(patch)
      ELSE ViewsEntry(patch, roots, NormalizeFrames(frames, roots))

\* The patch is applied and its result passes the validators.
Commits(patch) ==
  /\ Applies(graph, patch)
  /\ Validates(Applied(graph, patch))

\* What a rendering of the session works with.
Current == [nodes |-> DOMAIN graph.nodes, frames |-> NormalizeFrames(frames, roots)]

\* Both selections and all frames are freed of missing nodes.
Swept == dropped' = {} /\ revived' = {}
-----------------------------------------------------------------------------
Init ==
  /\ graph = InitialGraph
  /\ roots = InitialRoots
  /\ frames = [id \in InitialRoots |-> DefaultFrame]
  /\ selection = InitialSelection
  /\ scoped = [id \in InitialRoots |-> InitialSelection]
  /\ undo = <<>>
  /\ redo = <<>>
  /\ rendered = Current
  /\ unindexed = FALSE
  /\ dropped = {}
  /\ revived = {}

\* commitPatch, always with its default recordHistory = true.
CommitPatch(patch) ==
  /\ Commits(patch)
  /\ LET next == Applied(graph, patch) IN
     /\ graph' = next
     /\ frames' = GraphSafeFrames(frames, roots, next.nodes)
     /\ selection' = LiveSelection(next.nodes)
     /\ scoped' = LiveScoped(next.nodes)
  /\ unindexed' = ~StaysIndexed(graph.nodes, patch.operations)
  /\ undo' = Append(undo, GraphEntry(InversePatch(graph, patch)))
  /\ redo' = <<>>
  /\ Swept
  /\ UNCHANGED <<roots, rendered>>

\* The frames after a creation: the preferred projection, if the creator
\* names one, gets a new frame even where it had one.
CreationFrames(ids, preferred) ==
  [id \in ids |-> IF id \in preferred THEN DefaultFrame
                  ELSE NormalizeFrames(frames, ids)[id]]

\* commitCreation with a patch.  Unlike the others it frees neither the
\* selections nor the trails of the nodes the patch removes.
CommitCreation(patch, added, preferred) ==
  /\ Commits(patch)
  /\ LET next == Applied(graph, patch) IN
     /\ roots \cup added \subseteq DOMAIN next.nodes
     /\ preferred \subseteq roots \cup added
     /\ graph' = next
     /\ dropped' = (dropped \cup DOMAIN graph.nodes) \ DOMAIN next.nodes
     /\ revived' = revived \ DOMAIN next.nodes
  /\ roots' = roots \cup added
  /\ frames' = CreationFrames(roots \cup added, preferred)
  /\ unindexed' = ~StaysIndexed(graph.nodes, patch.operations)
  /\ undo' = Append(undo, RootsEntry(InversePatch(graph, patch), roots))
  /\ redo' = <<>>
  /\ UNCHANGED <<selection, scoped, rendered>>

\* commitCreation without a patch: it opens projections of existing nodes
\* and leaves the history alone.
OpenRoots(added, preferred) ==
  /\ Validates(graph)
  /\ roots \cup added \subseteq DOMAIN graph.nodes
  /\ preferred \subseteq roots \cup added
  /\ roots' = roots \cup added
  /\ frames' = CreationFrames(roots \cup added, preferred)
  /\ UNCHANGED <<graph, selection, scoped, undo, redo, rendered, unindexed, dropped, revived>>

\* The part of history() both directions share.
Restore(entry) ==
  /\ Commits(entry.patch)
  /\ LET next == Applied(graph, entry.patch) IN
     /\ graph' = next
     /\ roots' = RestoredRoots(entry)
     /\ frames' = GraphSafeFrames(RestoredFrames(entry), RestoredRoots(entry), next.nodes)
     /\ selection' = LiveSelection(next.nodes)
     /\ scoped' = LiveScoped(next.nodes)
  /\ unindexed' = ~StaysIndexed(graph.nodes, entry.patch.operations)
  /\ Swept
  /\ UNCHANGED rendered

\* Mutant: undo binds the entries below the top to the new revision.
UndoRebasing ==
  /\ undo # <<>>
  /\ Restore(Last(undo))
  /\ undo' = [i \in DOMAIN Front(undo) |->
                [undo[i] EXCEPT !.patch.base = graph.revision + 1]]
  /\ redo' = Append(redo, InverseEntry(Last(undo)))

Undo ==
  /\ undo # <<>>
  /\ Restore(Last(undo))
  /\ undo' = Front(undo)
  /\ redo' = Append(redo, InverseEntry(Last(undo)))

Redo ==
  /\ redo # <<>>
  /\ Restore(Last(redo))
  /\ redo' = Front(redo)
  /\ undo' = Append(undo, InverseEntry(Last(redo)))

\* closeProjectionRoot; it is not part of the history.
CloseProjectionRoot(id) ==
  /\ id \in roots
  /\ roots' = roots \ {id}
  /\ frames' = NormalizeFrames(frames, roots \ {id})
  /\ UNCHANGED <<graph, selection, scoped, undo, redo, rendered, unindexed, dropped, revived>>

\* select, without and with a scope.
Select(ids) ==
  /\ ids \subseteq DOMAIN graph.nodes
  /\ selection' = ids
  /\ UNCHANGED <<graph, roots, frames, scoped, undo, redo, rendered, unindexed, dropped, revived>>

SelectScoped(scope, ids) ==
  /\ ids \subseteq DOMAIN graph.nodes
  /\ scope \in roots
  /\ scoped' = [id \in DOMAIN scoped \cup {scope} |->
                  IF id = scope THEN ids ELSE scoped[id]]
  /\ UNCHANGED <<graph, roots, frames, selection, undo, redo, rendered, unindexed, dropped, revived>>

\* The windows are rendered: what is requested next is computed from here,
\* also after the session has gone on.
Render ==
  /\ Current \in Renderings
  /\ rendered' = Current
  /\ UNCHANGED <<graph, roots, frames, selection, scoped, undo, redo,
                 unindexed, dropped, revived>>

Stray(views) ==
  (UNION {Range(views[id].trail) : id \in DOMAIN views}) \ DOMAIN graph.nodes

\* updateViews: the given frames are stored as they are.
UpdateViews(views) ==
  /\ frames' = views
  /\ revived' = revived \cup Stray(views)
  /\ UNCHANGED <<graph, roots, selection, scoped, undo, redo, rendered, unindexed, dropped>>

\* setWindow: the window is one of the session's; whether the nodes of its
\* trail are, nobody asks.
SetWindow(root, frame) ==
  /\ root \in roots
  /\ UpdateViews([NormalizeFrames(frames, roots) EXCEPT ![root] = frame])

\* A wheel or a pointer writes the whole views back, a control or an element
\* its window.
Write(view, root, frame) ==
  \/ SetWindow(root, frame)
  \/ UpdateViews([view.frames EXCEPT ![root] = frame])

\* The trail a window is shown with: the stored one, or its root.
ShownFrame(view, root) ==
  LET frame == view.frames[root]
  IN  IF frame.trail = <<>> THEN [trail |-> <<root>>, at |-> 1] ELSE frame

\* The way to the current position of a window.
Visited(frame) == SubSeq(frame.trail, 1, frame.at)

\* navigate-projection: the trail is cut behind the current position and
\* goes on to the target.
Navigate(view, root, target) ==
  /\ root \in DOMAIN view.frames
  /\ LET visited == Visited(ShownFrame(view, root)) IN
     /\ {Last(visited), target} \subseteq view.nodes
     /\ Len(visited) < MaxTrail
     /\ Write(view, root, [trail |-> Append(visited, target), at |-> Len(visited) + 1])

\* replaceCurrentProjection: another view of what is observed takes the place
\* of the current projection, or of the one before it when the navbar steps
\* out of a view of children; what lay ahead is dropped.
SwitchProjection(view, root, target, at) ==
  /\ root \in DOMAIN view.frames
  /\ {root, target} \subseteq view.nodes
  /\ LET visited == Visited(ShownFrame(view, root)) IN
     /\ at \in DOMAIN visited
     /\ at \in {Len(visited), Len(visited) - 1}
     /\ SetWindow(root, [trail |-> Append(SubSeq(visited, 1, at - 1), target), at |-> at])

\* The navbar's buttons, one step back or forward, and its crumbs, any step
\* back.
Revisit(view, root, at) ==
  /\ root \in DOMAIN view.frames \cap view.nodes
  /\ at \in DOMAIN view.frames[root].trail
  /\ at < view.frames[root].at \/ at = view.frames[root].at + 1
  /\ Write(view, root, [view.frames[root] EXCEPT !.at = at])

\* set-execution-view, the end of start-execution, panning, zooming, moving
\* and resizing: the frame comes back with its own trail.
Touch(view, root) ==
  /\ root \in DOMAIN view.frames
  /\ \E frame \in {view.frames[root], ShownFrame(view, root)} :
       /\ frame = view.frames[root] \/ root \in view.nodes
       /\ Write(view, root, frame)

\* Every patch a caller sends is bound to the revision it was built from.
Patches == {Patch(base, change) : base \in 0 .. MaxRevision, change \in Changes}

AtMostOne(ids) == {{}} \cup {{id} : id \in ids}

Request(view, root) ==
  \/ \E target \in Targets : Navigate(view, root, target)
  \/ \E target \in Targets, at \in 1 .. MaxTrail : SwitchProjection(view, root, target, at)
  \/ \E at \in 1 .. MaxTrail : Revisit(view, root, at)
  \/ Touch(view, root)

\* A run ends with its last revision.
Next ==
  /\ graph.revision < MaxRevision
  /\ \/ \E patch \in Patches : CommitPatch(patch)
     \/ \E patch \in Patches, added \in AtMostOne(NodeIds), preferred \in AtMostOne(NodeIds) :
          CommitCreation(patch, added, preferred)
     \/ \E added, preferred \in AtMostOne(NodeIds) : OpenRoots(added, preferred)
     \/ Undo
     \/ Redo
     \/ \E id \in NodeIds : CloseProjectionRoot(id)
     \/ \E ids \in Selections : Select(ids)
     \/ \E scope \in Windows, ids \in Selections : SelectScoped(scope, ids)
     \/ Render
     \/ \E view \in {Current, rendered}, root \in Windows : Request(view, root)

Spec == Init /\ [][Next]_vars
-----------------------------------------------------------------------------
IsEntry(entry) ==
  /\ entry.kind \in {"graph", "roots", "views"}
  /\ entry.patch.base \in Nat
  /\ entry.roots \subseteq NodeIds
  /\ \A id \in DOMAIN entry.frames : entry.frames[id] \in Frame

IsStack(stack) ==
  /\ stack \in Seq(Range(stack))
  /\ \A i \in DOMAIN stack : IsEntry(stack[i])

IsViews(views) ==
  /\ views \in [DOMAIN views -> Frame]
  /\ DOMAIN views \subseteq NodeIds

TypeOK ==
  /\ graph.revision \in Nat
  /\ IsNodes(graph.nodes)
  /\ roots \subseteq NodeIds
  /\ IsViews(frames)
  /\ rendered.nodes \subseteq NodeIds
  /\ IsViews(rendered.frames)
  /\ selection \subseteq NodeIds
  /\ DOMAIN scoped \subseteq NodeIds
  /\ \A scope \in DOMAIN scoped : scoped[scope] \subseteq NodeIds
  /\ IsStack(undo)
  /\ IsStack(redo)
  /\ unindexed \in BOOLEAN
  /\ dropped \cup revived \subseteq NodeIds

\* Nothing is selected that the graph no longer has, neither in the
\* workspace's selection nor in the selection of any projection, closed
\* projections included, except for nodes that a creation removed since the
\* last patch, undo or redo: those three free every selection of what they
\* remove and of what a creation left (workspace-store.ts:210-211, 259-260).
SelectionLive ==
  /\ selection \subseteq DOMAIN graph.nodes \cup dropped
  /\ \A scope \in DOMAIN scoped : scoped[scope] \subseteq DOMAIN graph.nodes \cup dropped

\* No window has a trail through a node the graph no longer has, also after
\* undo and redo bring stored frames back and after a closed root is opened
\* again, except through a node that a creation removed or that the frame of
\* an older rendering brought back, either since the last patch, undo or
\* redo (workspace-store.ts:33-41, 92-104, 253-258).
NavigationLive ==
  \A id \in DOMAIN frames :
    Range(frames[id].trail) \subseteq DOMAIN graph.nodes \cup dropped \cup revived

\* History entries are bound to the revision that followed them.
Bases(stack) == {stack[i].patch.base : i \in DOMAIN stack}

\* At most one entry of the whole history can be applied, it is the newest
\* of its stack, and no revision is claimed by two entries: every publication
\* binds its inverse to the revision it creates (patch.ts:56, 25).
OnlyNewestEntryApplies ==
  /\ \A i \in DOMAIN undo : undo[i].patch.base = graph.revision => i = Len(undo)
  /\ \A i \in DOMAIN redo : redo[i].patch.base = graph.revision => i = Len(redo)
  /\ Bases(undo) \cap Bases(redo) = {}

\* The last publication can always be taken back: the entry it left on top
\* of undo (or, when it was an undo, on top of redo) still applies to the
\* graph, whatever was selected, opened or closed since.  Excluded are
\* patches that put two relations with one id and take one of them back
\* (workspace-store.ts:212, 236, 249, 262-263; patch.ts:17, 27-54).
LastChangeIsReversible ==
  graph.revision > InitialGraph.revision /\ ~unindexed =>
    \/ undo # <<>> /\ Applies(graph, Last(undo).patch)
    \/ redo # <<>> /\ Applies(graph, Last(redo).patch)

\* What is published is a RevisionedGraph, through all paths that publish:
\* patches, creations, undo and redo (workspace-store.ts:204, 219, 246).
Published == INSTANCE RevisionedGraph
PublishesRevisions == Published!Spec

=============================================================================
