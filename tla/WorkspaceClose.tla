--------------------------- MODULE WorkspaceClose ---------------------------
(***************************************************************************)
(* Exporting and closing workspaces in                                     *)
(* src/pip-editor/relation-host/relation-host.tsx.  A workspace whose      *)
(* graph differs from savedGraphFingerprint is closed only behind a dialog *)
(* (discard, export and close, cancel).  An export takes its time, and     *)
(* commands, creators and the user go on changing the graph meanwhile; the *)
(* handlers see the workspaces as they were rendered last.                 *)
(*                                                                         *)
(* A graph is its fingerprint.                                             *)
(***************************************************************************)
EXTENDS HostWorkspaces

CONSTANTS
  Graphs,       \* graphFingerprint of a graph
  Exports,      \* the calls of exportWorkspace
  NoWorkspace   \* no dialog

ASSUME CloseAssumption == NoWorkspace \notin Workspaces

VARIABLES
  graph,     \* the fingerprint of each one's graph
  saved,     \* savedGraphFingerprint
  shown,     \* `workspaces` of the last render
  pending,   \* pendingClose
  export,    \* the calls of exportWorkspace
  written,   \* history: what the A5 files of each workspace hold
  discarded, \* history: closed by "discard"
  raced,     \* history: changed while an export of them was being built
  blind      \* history: exported or closed by a handler that had not seen them

closeVars == <<open, graph, saved, shown, pending, export, written, discarded, raced, blind>>

Phases == {"idle", "building", "done", "failed"}

Store == [open |-> open, graph |-> graph, saved |-> saved]

\* The last render shows the workspace otherwise than it is.
Unseen(w) ==
  IF shown.graph[w] # graph[w] \/ shown.saved[w] # saved[w] THEN {w} ELSE {}

Building(w) == \E e \in Exports : export[e].phase = "building" /\ export[e].of = w
-----------------------------------------------------------------------------
\* The graphs were read from packages.
InitClose ==
  /\ open = Workspaces
  /\ graph \in [Workspaces -> Graphs]
  /\ saved = graph
  /\ shown = Store
  /\ pending = NoWorkspace
  /\ \E w \in Workspaces, g \in Graphs :
       export = [e \in Exports |-> [phase |-> "idle", of |-> w, graph |-> g, closing |-> FALSE]]
  /\ written = [w \in Workspaces |-> {graph[w]}]
  /\ discarded = {}
  /\ raced = {}
  /\ blind = {}

\* A patch, a creation or a step through the history.
Edit(w, g) ==
  /\ w \in open
  /\ g # graph[w]
  /\ graph' = [graph EXCEPT ![w] = g]
  /\ raced' = IF Building(w) THEN raced \cup {w} ELSE raced
  /\ UNCHANGED <<open, saved, shown, pending, export, written, discarded, blind>>

Render ==
  /\ shown # Store
  /\ shown' = Store
  /\ UNCHANGED <<open, graph, saved, pending, export, written, discarded, raced, blind>>

\* exportWorkspace, from a menu or, closing, from the dialog.
StartExport(e, w, closing) ==
  /\ export[e].phase = "idle"
  /\ w \in shown.open
  /\ closing => pending = w
  /\ export' = [export EXCEPT ![e] = [phase |-> "building", of |-> w,
                                      graph |-> shown.graph[w], closing |-> closing]]
  /\ blind' = blind \cup Unseen(w)
  /\ UNCHANGED <<open, graph, saved, shown, pending, written, discarded, raced>>

\* What closeNow leaves of the store and of the dialog.
CloseNow(w) ==
  /\ Remove(w)
  /\ pending' = NoWorkspace

\* Mutant: markSaved is called whether the export succeeds or not.
FailMarking(e) ==
  /\ export[e].phase = "building"
  /\ export' = [export EXCEPT ![e].phase = "failed"]
  /\ saved' = [saved EXCEPT ![export[e].of] = graph[export[e].of]]
  /\ UNCHANGED <<open, graph, shown, pending, written, discarded, raced, blind>>

\* Mutant: a failed export closes the workspace, too.
FailClosing(e) ==
  /\ export[e].phase = "building"
  /\ export' = [export EXCEPT ![e].phase = "failed"]
  /\ IF export[e].closing THEN CloseNow(export[e].of) ELSE UNCHANGED <<open, pending>>
  /\ UNCHANGED <<graph, saved, shown, written, discarded, raced, blind>>

\* The export throws, and the workspace stays as it is.
FailExport(e) ==
  /\ export[e].phase = "building"
  /\ export' = [export EXCEPT ![e].phase = "failed"]
  /\ UNCHANGED <<open, graph, saved, shown, pending, written, discarded, raced, blind>>

\* The file is downloaded; markSaved marks the graph of that moment, or throws
\* because the workspace is gone.
Finish(e) ==
  LET w == export[e].of
  IN  /\ export[e].phase = "building"
      /\ written' = [written EXCEPT ![w] = @ \cup {export[e].graph}]
      /\ export' = [export EXCEPT ![e].phase = IF w \in open THEN "done" ELSE "failed"]
      /\ saved' = IF w \in open THEN [saved EXCEPT ![w] = graph[w]] ELSE saved
      /\ raced' = IF export[e].graph = graph[w] THEN raced \ {w} ELSE raced
      /\ IF export[e].closing /\ w \in open THEN CloseNow(w) ELSE UNCHANGED <<open, pending>>
      /\ UNCHANGED <<graph, shown, discarded, blind>>

\* requestClose
RequestClose(w) ==
  /\ w \in shown.open
  /\ IF shown.graph[w] # shown.saved[w]
     THEN pending' = w /\ UNCHANGED <<open, blind>>
     ELSE /\ CloseNow(w)
          /\ blind' = blind \cup Unseen(w)
  /\ UNCHANGED <<graph, saved, shown, export, written, discarded, raced>>

Discard ==
  /\ pending # NoWorkspace
  /\ CloseNow(pending)
  /\ discarded' = discarded \cup {pending}
  /\ UNCHANGED <<graph, saved, shown, export, written, raced, blind>>

Cancel ==
  /\ pending # NoWorkspace
  /\ pending' = NoWorkspace
  /\ UNCHANGED <<open, graph, saved, shown, export, written, discarded, raced, blind>>

NextClose ==
  \/ \E w \in Workspaces, g \in Graphs : Edit(w, g)
  \/ Render
  \/ \E e \in Exports, w \in Workspaces, closing \in BOOLEAN : StartExport(e, w, closing)
  \/ \E e \in Exports : FailExport(e)
  \/ \E e \in Exports : Finish(e)
  \/ \E w \in Workspaces : RequestClose(w)
  \/ Discard
  \/ Cancel

SpecClose == InitClose /\ [][NextClose]_closeVars
-----------------------------------------------------------------------------
CloseTypeOK ==
  /\ open \subseteq Workspaces
  /\ graph \in [Workspaces -> Graphs]
  /\ saved \in [Workspaces -> Graphs]
  /\ shown \in [open : SUBSET Workspaces, graph : [Workspaces -> Graphs],
                saved : [Workspaces -> Graphs]]
  /\ pending \in Workspaces \cup {NoWorkspace}
  /\ export \in [Exports -> [phase : Phases, of : Workspaces, graph : Graphs,
                             closing : BOOLEAN]]
  /\ written \in [Workspaces -> SUBSET Graphs]
  /\ discarded \subseteq Workspaces \ open
  /\ raced \subseteq Workspaces
  /\ blind \subseteq Workspaces

\* A graph that counts as saved is in a file, unless it changed while an export
\* of it was being built (relation-host.tsx:110-112).
SavedIsWritten ==
  \A w \in open \ (raced \cup blind) : saved[w] \in written[w]

\* A workspace that is closed without "discard" is in a file as it was at that
\* moment, unless its graph changed behind an export or behind the render the
\* user saw, whichever exports fail and whichever dialogs were answered before
\* (relation-host.tsx:193-202, 288-296).
LossNeedsRace ==
  \A w \in Workspaces \ (open \cup discarded \cup raced \cup blind) : graph[w] \in written[w]

=============================================================================
