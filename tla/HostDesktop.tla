------------------------------- MODULE HostDesktop -------------------------------
(***************************************************************************)
(* The desktop of the host as its users drive it: tabs, windows on the     *)
(* host canvas, system plugins, pointer gestures, the dialog of a close    *)
(* (src/pip-editor/relation-host/relation-host.tsx, use-system-plugins.ts, *)
(* use-host-effects.ts, view/).                                            *)
(*                                                                         *)
(* A handler acts on what was rendered last.  React renders a click or a   *)
(* key before the next event; a pointer move, a wheel or the end of a      *)
(* promise some time later.  The effect that restores instances runs with  *)
(* the render of a click, and some time after any other render, though     *)
(* before the next one.                                                    *)
(***************************************************************************)
EXTENDS SystemPlugins, HostPresentation

CONSTANTS
    Workspaces, Points, Viewports, Deltas, Zooms,
    PluginSize,             \* of the window a plugin asks for
    MaxEvents, MaxExports, MaxFailures

ASSUME DesktopAssumption ==
    /\ None = NoWorkspace
    /\ None \notin Workspaces
    /\ \A w \in Workspaces : w \notin Plugins \X (Workspaces \cup {None}) \X Nat
    /\ Points \cup Viewports \cup Deltas \subseteq Int /\ Zooms \subseteq Nat \ {0}
    /\ PluginSize \in [Plugins -> MinSize..MaxSize]
    /\ {MaxEvents, MaxExports, MaxFailures} \subseteq Nat

VARIABLES
    open,       \* the workspaces, in the order of their tabs
    used,       \* those there have been
    dirty,      \* those that differ from what was saved
    views,      \* workspace -> its windows of system plugins
    desktop,    \* the HostPresentationStore
    ui,         \* activeWorkspaceId, focusedWorkspaceId, pendingClose, creatorRequest, open mode
    plugins,    \* the SystemPluginRuntime
    canvas,     \* of the host: preview camera, gesture and creator
    exports,    \* those a dialog waits for, with what their handlers have seen
    shown,      \* the last render
    lane,       \* what is left to render: "idle", "click" or "later"
    restoring,  \* the effect of the last render has not run
    mounted,
    late,       \* history: a handler took a closed workspace for an open one
    events, failures

session == <<open, used, dirty, views>>
history == <<exports, late, failures>>
vars == <<session, desktop, ui, plugins, canvas, exports, shown, lane, restoring, mounted,
          late, events, failures>>

NoGesture == [kind |-> "none"]
NewCanvas == [preview |-> None, gesture |-> NoGesture, creator |-> None]

Rendered ==
    [open |-> open, dirty |-> dirty, views |-> views, desktop |-> desktop, ui |-> ui,
     preview |-> canvas.preview]

Init ==
    /\ open = << >>
    /\ used = {}
    /\ dirty = {}
    /\ views = [w \in Workspaces |-> << >>]
    /\ \E v \in Viewports : desktop = [NewDesktop EXCEPT !.viewport = v]
    /\ \E mode \in {"tab", "window"} :
           ui = [active |-> None, focused |-> None, pending |-> None, requests |-> 0, mode |-> mode]
    /\ plugins = NewRuntime
    /\ canvas = NewCanvas
    /\ exports = {}
    /\ shown = Rendered
    /\ lane = "idle"
    /\ restoring = FALSE
    /\ mounted = TRUE
    /\ late = FALSE
    /\ events = 0
    /\ failures = 0
-----------------------------------------------------------------------------
(* What the last render shows.                                             *)
ShownOpen == Range(shown.open)
ShownTabs == Only(shown.open, ShownOpen \ DOMAIN shown.desktop.workspaces)
CanvasShown == shown.ui.active \notin ShownOpen
ShownCamera == OrElse(shown.preview, shown.desktop.camera)
ShownWindows == (DOMAIN shown.desktop.workspaces \cap ShownOpen) \cup DOMAIN shown.desktop.systems
(* A workspace fills the surface, or its window is on the canvas.          *)
InView(w) == IF CanvasShown THEN w \in ShownWindows ELSE w = shown.ui.active

Event ==
    /\ mounted
    /\ lane # "click"
    /\ events < MaxEvents
    /\ events' = events + 1
    /\ UNCHANGED <<shown, restoring, mounted>>
Click == Event /\ lane' = "click"
Later == Event /\ lane' = "later"

ActsOn(w) == late' = (late \/ w \notin Range(open))

(* A pointer down or a click in a window activates it first.               *)
Brought(id) == IF id = shown.desktop.active THEN desktop ELSE Activated(desktop, id)

Meets(id) ==
    IF id \in Workspaces /\ id # shown.desktop.active THEN ActsOn(id) ELSE UNCHANGED late

Bring(id) ==
    /\ id \in ShownWindows
    /\ desktop' = Brought(id)
    /\ ui' = IF id \in Workspaces /\ id # shown.desktop.active THEN [ui EXCEPT !.focused = id] ELSE ui
    /\ Meets(id)

(* A click in a workspace, which fills the surface or has a window.        *)
Reach(w) == IF CanvasShown THEN Bring(w) ELSE UNCHANGED <<desktop, ui, late>>
-----------------------------------------------------------------------------
(* Workspaces come and go.                                                 *)

Present(w, point, viewport) ==
    IF ui.mode = "window"
    THEN /\ desktop' = Presented(desktop, w, point, "center", viewport)
         /\ ui' = [ui EXCEPT !.active = None, !.focused = w]
    ELSE /\ desktop' = RestoredTab(desktop, w)
         /\ ui' = [ui EXCEPT !.active = w, !.focused = w]

Add(w, windows) ==
    /\ w \notin used
    /\ used' = used \cup {w}
    /\ open' = Append(open, w)
    /\ views' = [views EXCEPT ![w] = windows]
    /\ UNCHANGED dirty

CreateWorkspace(w) ==
    /\ Click
    /\ CanvasShown /\ canvas.creator # None
    /\ Add(w, << >>)
    /\ \E v \in Viewports : Present(w, canvas.creator, v)
    /\ canvas' = [canvas EXCEPT !.creator = None]
    /\ UNCHANGED <<plugins, history>>

(* The views of an old package may name a window of a host singleton.      *)
OpenNodeMap(w) ==
    /\ Later
    /\ \E p \in Plugins, old \in BOOLEAN :
           /\ old => Scope[p] = "host" /\ InstancePolicy[p] = "singleton"
           /\ Add(w, IF old THEN <<EnsuredId(plugins, p, w)>> ELSE << >>)
    /\ Present(w, None, None)
    /\ UNCHANGED <<plugins, canvas, history>>

(* Any change of a workspace's graph, by a click, a key or a trigger.      *)
Edit(w) ==
    /\ Click
    /\ InView(w)
    /\ w \in Range(open)
    /\ dirty' = dirty \cup {w}
    /\ Reach(w) \/ UNCHANGED <<desktop, ui, late>>
    /\ UNCHANGED <<open, used, views, plugins, canvas, exports, failures>>

Reorder(w, before) ==
    /\ Click
    /\ {w, before} \subseteq Range(ShownTabs) /\ w # before
    /\ LET rest == Only(open, Range(open) \ {w})
           index == SelectInSeq(rest, LAMBDA v : v = before)
       IN open' = IF w \notin Range(open) THEN open
                  ELSE InsertAt(rest, IF index = 0 THEN Len(rest) + 1 ELSE index, w)
    /\ UNCHANGED <<used, dirty, views, desktop, ui, plugins, canvas, history>>

(* What the closeNow of this render knows.                                 *)
Closure(w) ==
    [tabs |-> ShownTabs, active |-> shown.ui.active, focused |-> shown.ui.focused,
     windows |-> IF w \in ShownOpen THEN shown.views[w] ELSE << >>]

Neighbour(tabs, w) ==
    LET index == SelectInSeq(tabs, LAMBDA v : v = w)
    IN IF index + 1 <= Len(tabs) THEN tabs[index + 1]
       ELSE IF index > 1 THEN tabs[index - 1] ELSE None

(* Mutant: the window of the workspace is forgotten.                       *)
ClosedButShown(w, seen, failing) ==
    LET disposals == Disposals(plugins, seen.windows, w)
    IN /\ plugins' = Disposed(plugins, Range(UpToFailure(disposals, failing)))
       /\ failures' = failures + IF failing \in Range(disposals) THEN 1 ELSE 0
       /\ IF failing \in Range(disposals) THEN UNCHANGED <<open, used, views, desktop, ui>>
          ELSE /\ open' = Only(open, Range(open) \ {w})
               /\ views' = [views EXCEPT ![w] = << >>]
               /\ UNCHANGED <<used, desktop>>
               /\ ui' = [ui EXCEPT !.pending = None]

(* The plugins are disposed of first: an exception leaves the workspace.   *)
CloseNow(w, seen, failing) ==
    LET disposals == Disposals(plugins, seen.windows, w)
    IN /\ plugins' = Disposed(plugins, Range(UpToFailure(disposals, failing)))
       /\ failures' = failures + IF failing \in Range(disposals) THEN 1 ELSE 0
       /\ IF failing \in Range(disposals) THEN UNCHANGED <<open, used, views, desktop, ui>>
          ELSE /\ desktop' = RestoredTab(desktop, w)
               /\ open' = Only(open, Range(open) \ {w})
               /\ views' = [views EXCEPT ![w] = << >>]
               /\ UNCHANGED used
               /\ ui' = [ui EXCEPT
                      !.active = IF w = seen.active THEN Neighbour(seen.tabs, w) ELSE @,
                      !.focused = IF w = seen.focused THEN None ELSE @,
                      !.pending = None]

MayFail(failing) ==
    failing \in {None} \cup IF failures < MaxFailures THEN Ids(plugins) ELSE {}

(* The cross of a tab, or Ctrl-W.                                          *)
RequestClose(w, failing) ==
    /\ Click
    /\ MayFail(failing)
    /\ w \in ShownOpen
    /\ w \in Range(ShownTabs) \/ w = shown.ui.active
    /\ IF w \in shown.dirty
       THEN /\ desktop' = RestoredTab(desktop, w)
            /\ ui' = [ui EXCEPT !.active = w, !.pending = w]
            /\ failing = None
            /\ UNCHANGED <<session, plugins, failures>>
       ELSE CloseNow(w, Closure(w), failing) /\ UNCHANGED dirty
    /\ ActsOn(w)
    /\ UNCHANGED <<canvas, exports>>

Discard(failing) ==
    /\ Click
    /\ MayFail(failing)
    /\ shown.ui.pending # None
    /\ CloseNow(shown.ui.pending, Closure(shown.ui.pending), failing)
    /\ ActsOn(shown.ui.pending)
    /\ UNCHANGED <<dirty, canvas, exports>>

CancelClose ==
    /\ Click
    /\ shown.ui.pending # None
    /\ ui' = [ui EXCEPT !.pending = None]
    /\ UNCHANGED <<session, desktop, plugins, canvas, history>>

ExportAndClose ==
    /\ Click
    /\ shown.ui.pending \in ShownOpen
    /\ Cardinality(exports) < MaxExports
    /\ exports' = exports \cup {[workspace |-> shown.ui.pending, seen |-> Closure(shown.ui.pending)]}
    /\ UNCHANGED <<session, desktop, ui, plugins, canvas, late, failures>>

(* markSaved() throws for a closed workspace: then nothing is closed.      *)
ExportDone(e, ok, failing) ==
    /\ mounted /\ lane # "click"
    /\ e \in exports
    /\ MayFail(failing)
    /\ exports' = exports \ {e}
    /\ IF ok /\ e.workspace \in Range(open)
       THEN /\ dirty' = dirty \ {e.workspace}
            /\ CloseNow(e.workspace, e.seen, failing)
            /\ lane' = "later"
       ELSE failing = None /\ UNCHANGED <<session, desktop, ui, plugins, failures, lane>>
    /\ UNCHANGED <<canvas, shown, restoring, mounted, late, events>>
-----------------------------------------------------------------------------
(* Tabs and focus.                                                         *)

Turn == UNCHANGED <<session, plugins, canvas, history>>

ActivateTab(w) ==
    /\ Click
    /\ w \in Range(ShownTabs)
    /\ ui' = [ui EXCEPT !.focused = w, !.active = IF w = shown.ui.active THEN None ELSE w]
    /\ UNCHANGED desktop
    /\ Turn

(* The cross of a workspace's window on the canvas.                        *)
CloseWindow(w) ==
    /\ Click /\ CanvasShown
    /\ w \in ShownWindows \cap Workspaces
    /\ desktop' = RestoredTab(Brought(w), w)
    /\ ui' = [ui EXCEPT !.focused = w, !.active = w]
    /\ Meets(w)
    /\ UNCHANGED <<session, plugins, canvas, exports, failures>>

CloseFocusedWindow ==
    /\ Click
    /\ shown.ui.active = None
    /\ shown.ui.focused \in DOMAIN shown.desktop.workspaces
    /\ desktop' = RestoredTab(desktop, shown.ui.focused)
    /\ ui' = [ui EXCEPT !.active = shown.ui.focused]
    /\ Turn

NextTab(delta) ==
    /\ Click
    /\ ShownTabs # << >>
    /\ LET index == SelectInSeq(ShownTabs, LAMBDA w : w = shown.ui.active)
           next == IF index = 0 THEN 1 ELSE ((index - 1 + delta) % Len(ShownTabs)) + 1
       IN ui' = [ui EXCEPT !.active = ShownTabs[next]]
    /\ UNCHANGED desktop
    /\ Turn

(* The button beside the tabs.                                             *)
OpenCreator ==
    /\ Click
    /\ ShownTabs # << >>
    /\ ui' = [ui EXCEPT !.active = None, !.requests = @ + 1]
    /\ UNCHANGED desktop
    /\ Turn

SetOpenMode(mode) ==
    /\ Click
    /\ ui.mode # mode
    /\ ui' = [ui EXCEPT !.mode = mode]
    /\ UNCHANGED desktop
    /\ Turn

(* A tab is dropped on the surface: its window appears at the pointer.     *)
Drop(w, point, viewport) ==
    /\ Click
    /\ w \in Range(ShownTabs)
    /\ desktop' = Presented(desktop, w, ScreenToWorld(point, shown.desktop.camera), "top-left", viewport)
    /\ ui' = [ui EXCEPT !.active = None, !.focused = w]
    /\ ActsOn(w)
    /\ UNCHANGED <<session, plugins, canvas, exports, failures>>
-----------------------------------------------------------------------------
(* System plugins.                                                         *)

OpenHostPlugin(p) ==
    /\ Click
    /\ CanvasShown /\ canvas.creator # None
    /\ "host" \in Surfaces[p]
    /\ plugins' = Ensured(plugins, p, NoWorkspace)
    /\ desktop' = OpenedSystem(desktop, EnsuredId(plugins, p, NoWorkspace), canvas.creator, PluginSize[p])
    /\ canvas' = [canvas EXCEPT !.creator = None]
    /\ UNCHANGED <<session, ui, history>>

CloseHostPlugin(id) ==
    /\ Click
    /\ CanvasShown /\ id \in DOMAIN shown.desktop.systems
    /\ desktop' = ClosedSystem(Brought(id), id)
    /\ plugins' = Disposed(plugins, Range(Releases(plugins, <<id>>)))
    /\ UNCHANGED <<session, ui, canvas, history>>

(* The window is refused, behind the instance, if the workspace is gone.   *)
OpenWorkspacePlugin(w, p) ==
    /\ Click
    /\ InView(w)
    /\ "workspace" \in Surfaces[p]
    /\ plugins' = Ensured(plugins, p, w)
    /\ LET id == EnsuredId(plugins, p, w)
       IN views' = [views EXCEPT ![w] =
              IF w \notin Range(open) \/ id \in Range(@) THEN @ ELSE Append(@, id)]
    /\ Reach(w)
    /\ UNCHANGED <<open, used, dirty, canvas, exports, failures>>

CloseWorkspacePlugin(w, id) ==
    /\ Click
    /\ InView(w)
    /\ id \in Range(shown.views[w])
    /\ w \in Range(open)
    /\ views' = [views EXCEPT ![w] = Only(@, Range(@) \ {id})]
    /\ plugins' = Disposed(plugins, Range(Releases(plugins, <<id>>)))
    /\ Reach(w)
    /\ UNCHANGED <<open, used, dirty, canvas, exports, failures>>
-----------------------------------------------------------------------------
(* Gestures on the host canvas.                                            *)

Touch == CanvasShown /\ UNCHANGED <<session, ui, plugins, history>>

Center(viewport, camera) == ScreenToWorld(viewport \div 2, camera)

Space ==
    /\ Click /\ Touch
    /\ canvas' = [canvas EXCEPT !.creator = Center(shown.desktop.viewport, ShownCamera)]
    /\ UNCHANGED desktop

Escape ==
    /\ Click /\ Touch
    /\ canvas.creator # None
    /\ canvas' = [canvas EXCEPT !.creator = None]
    /\ UNCHANGED desktop

(* A second finger makes a pinch of it.                                    *)
Begin(kind) ==
    /\ Click /\ Touch
    /\ canvas.gesture.kind = IF kind = "pinch" THEN "pan" ELSE "none"
    /\ canvas' = [canvas EXCEPT !.gesture = [kind |-> kind, camera |-> ShownCamera]]
    /\ UNCHANGED desktop

Move(delta) ==
    /\ Later /\ Touch
    /\ canvas.gesture.kind = "pan"
    /\ canvas' = [canvas EXCEPT !.preview = [canvas.gesture.camera EXCEPT !.x = @ + delta]]
    /\ UNCHANGED desktop

Pinch(zoom) ==
    /\ Later /\ Touch
    /\ canvas.gesture.kind = "pinch"
    /\ canvas' = [canvas EXCEPT !.preview = [canvas.gesture.camera EXCEPT !.scale = zoom]]
    /\ UNCHANGED desktop

(* A pan leaves the camera that was rendered, and no window active.        *)
EndPan ==
    /\ Click /\ Touch
    /\ canvas.gesture.kind = "pan"
    /\ desktop' = ClearedActive([desktop EXCEPT !.camera = ShownCamera])
    /\ canvas' = [canvas EXCEPT !.preview = None, !.gesture = NoGesture]

(* A wire ends in a creator.                                               *)
EndWire(point) ==
    /\ Click /\ Touch
    /\ canvas.gesture.kind = "wire"
    /\ canvas' = [canvas EXCEPT !.gesture = NoGesture, !.creator = ScreenToWorld(point, ShownCamera)]
    /\ UNCHANGED desktop

EndPinch ==
    /\ Click /\ Touch
    /\ canvas.gesture.kind = "pinch"
    /\ desktop' = [desktop EXCEPT !.camera = ShownCamera]
    /\ canvas' = [canvas EXCEPT !.gesture = NoGesture, !.preview = IF shown.preview = None THEN @ ELSE None]

(* A cancelled pan leaves its preview.                                     *)
Cancel ==
    /\ Click /\ Touch
    /\ canvas.gesture.kind \in {"pan", "wire"}
    /\ canvas' = [canvas EXCEPT !.gesture = NoGesture]
    /\ UNCHANGED desktop

Wheel(camera) ==
    /\ Later /\ Touch
    /\ desktop' = [desktop EXCEPT !.camera = camera]
    /\ canvas' = [canvas EXCEPT !.preview = None]

Wheels ==
    {[ShownCamera EXCEPT !.scale = zoom] : zoom \in Zooms}
        \cup {[ShownCamera EXCEPT !.x = @ - delta] : delta \in Deltas}

(* The pointer down outside of its buttons.                                *)
ActivateWindow(id) ==
    /\ Click /\ CanvasShown
    /\ id # shown.desktop.active /\ Bring(id)
    /\ UNCHANGED <<session, plugins, canvas, exports, failures>>

(* The pointer is on a rail or on a handle: the frame is the window's own  *)
(* until the gesture ends.                                                 *)
Grab(id, direction) ==
    /\ Click /\ CanvasShown
    /\ canvas.gesture.kind = "none"
    /\ Bring(id)
    /\ LET start == FrameOf(shown.desktop, id)
       IN canvas' = [canvas EXCEPT !.gesture =
              [kind |-> "window", id |-> id, direction |-> direction, start |-> start, last |-> start]]
    /\ UNCHANGED <<session, plugins, exports, failures>>

Drag(delta) ==
    /\ Later /\ Touch
    /\ canvas.gesture.kind = "window"
    /\ canvas' = [canvas EXCEPT !.gesture.last =
           Resized(canvas.gesture.start, canvas.gesture.direction, delta)]
    /\ UNCHANGED desktop

(* Whichever of the release, the lost capture and the blur comes first     *)
(* ends the gesture; the others find none.                                 *)
Release ==
    /\ Click /\ Touch
    /\ canvas.gesture.kind = "window"
    /\ canvas' = [canvas EXCEPT !.gesture = NoGesture]
    /\ desktop' = IF canvas.gesture.last = canvas.gesture.start THEN desktop
                  ELSE Framed(desktop, canvas.gesture.id, canvas.gesture.last)
-----------------------------------------------------------------------------
(* React.                                                                  *)

(* Restores what the render with these windows lacks.                      *)
Restore(runtime, render) ==
    LET restored[k \in 0..Len(render.open)] ==
            IF k = 0 THEN runtime
            ELSE LET w == render.open[k]
                 IN AllRestored(restored[k - 1], render.views[w], w)
    IN AllRestored(restored[Len(render.open)], SetToSeq(DOMAIN render.desktop.systems), NoWorkspace)

(* The canvas goes with the surface, a gesture with its window.  A canvas  *)
(* that comes back takes the last request for a new one.                   *)
Mounted(render) ==
    LET requested ==
            /\ render.ui.requests > 0
            /\ ~CanvasShown \/ render.ui.requests # shown.ui.requests
        kept ==
            IF canvas.gesture.kind = "window" /\ ~HasWindow(render.desktop, canvas.gesture.id)
            THEN [canvas EXCEPT !.gesture = NoGesture]
            ELSE canvas
    IN IF render.ui.active \in Range(render.open) THEN NewCanvas
       ELSE IF requested
       THEN [kept EXCEPT !.creator =
                Center(render.desktop.viewport, OrElse(kept.preview, render.desktop.camera))]
       ELSE kept

(* An effect that is due runs before the next render.  It is due again     *)
(* when workspaces or system windows were replaced, be it by equal ones.   *)
Commit(again) ==
    LET render == [Rendered EXCEPT !.preview = Mounted(Rendered).preview]
        due == again \/ render.open # shown.open \/ render.views # shown.views
                     \/ render.dirty # shown.dirty
                     \/ render.desktop.systems # shown.desktop.systems
        before == IF restoring THEN Restore(plugins, shown) ELSE plugins
    IN /\ mounted /\ lane # "idle"
       /\ shown' = render
       /\ canvas' = Mounted(Rendered)
       /\ plugins' = IF due /\ lane = "click" THEN Restore(before, render) ELSE before
       /\ restoring' = (due /\ lane = "later")
       /\ lane' = "idle"
       /\ UNCHANGED <<session, desktop, ui, history, mounted, events>>

Passive ==
    /\ mounted /\ restoring
    /\ plugins' = Restore(plugins, shown)
    /\ restoring' = FALSE
    /\ UNCHANGED <<session, desktop, ui, canvas, history, shown, lane, mounted, events>>

Unmount ==
    /\ mounted /\ lane # "click"
    /\ mounted' = FALSE
    /\ plugins' = AllDisposed(plugins)
    /\ UNCHANGED <<session, desktop, ui, canvas, history, shown, lane, restoring, events>>
-----------------------------------------------------------------------------
Closing ==
    \/ \E w \in Workspaces, failing \in Ids(plugins) \cup {None} : RequestClose(w, failing)
    \/ \E failing \in Ids(plugins) \cup {None} : Discard(failing)
    \/ CancelClose
    \/ ExportAndClose
    \/ \E e \in exports, ok \in BOOLEAN, failing \in Ids(plugins) \cup {None} : ExportDone(e, ok, failing)

Tabs ==
    \/ \E w \in Workspaces : CreateWorkspace(w) \/ OpenNodeMap(w) \/ Edit(w)
    \/ \E w \in Workspaces : ActivateTab(w) \/ CloseWindow(w)
    \/ \E w, before \in Workspaces : Reorder(w, before)
    \/ CloseFocusedWindow
    \/ OpenCreator
    \/ \E delta \in {-1, 1} : NextTab(delta)
    \/ \E mode \in {"tab", "window"} : SetOpenMode(mode)
    \/ \E w \in Workspaces, point \in Points, v \in Viewports : Drop(w, point, v)

SystemWindows ==
    \/ \E p \in Plugins : OpenHostPlugin(p)
    \/ \E id \in Ids(plugins) \cup DOMAIN shown.desktop.systems : CloseHostPlugin(id)
    \/ \E w \in Workspaces, p \in Plugins : OpenWorkspacePlugin(w, p)
    \/ \E w \in Workspaces : \E id \in Range(shown.views[w]) : CloseWorkspacePlugin(w, id)

Gestures ==
    \/ Space
    \/ Escape
    \/ \E kind \in {"pan", "wire", "pinch"} : Begin(kind)
    \/ \E delta \in Deltas : Move(delta)
    \/ \E zoom \in Zooms : Pinch(zoom)
    \/ EndPan
    \/ \E point \in Points : EndWire(point)
    \/ EndPinch
    \/ Cancel
    \/ \E camera \in Wheels : Wheel(camera)
    \/ \E id \in ShownWindows : ActivateWindow(id)
    \/ \E id \in ShownWindows, direction \in {"none", "east", "west"} : Grab(id, direction)
    \/ \E delta \in Deltas : Drag(delta)
    \/ Release

Next ==
    \/ Closing
    \/ Tabs
    \/ SystemWindows
    \/ Gestures
    \/ \E again \in BOOLEAN : Commit(again)
    \/ Passive
    \/ Unmount

Spec == Init /\ [][Next]_vars
-----------------------------------------------------------------------------
(* The overlay graph has a node for each instance and for nothing else,    *)
(* and the keys are those of the singletons there are, whatever was opened *)
(* in both places, closed in one, or failed to be disposed of              *)
(* (runtime.ts:101-134, 173-192).                                          *)
OverlayMirrorsInstances ==
    /\ plugins.nodes = Ids(plugins)
    /\ {s.id : s \in plugins.singletons} = {id \in Ids(plugins) : IsSingleton(id)}
    /\ Len(plugins.instances) = Cardinality(Ids(plugins))

(* The windows of system plugins.                                          *)
Windows(render) ==
    (UNION {Range(render.views[w]) : w \in Range(render.open)}) \cup DOMAIN render.desktop.systems

(* Once rendered and restored, no window of a singleton of the host is     *)
(* without its instance: closing one window of it, or one workspace with   *)
(* such a window, takes nothing from the others (use-system-plugins.ts:    *)
(* 66-83, 142-172).                                                        *)
HostSingletonsStay ==
    mounted /\ lane = "idle" /\ ~restoring =>
        \A id \in Windows(Rendered) :
            Scope[PluginOf(id)] = "host" /\ IsSingleton(id) => Live(plugins, id)

(* The dialog and the windows name workspaces that are open, and the       *)
(* active and the front window are there, unless a handler of a render     *)
(* from before a close met the closed workspace: asked to close it,        *)
(* dropped it, or activated its window, as its cross does before it closes *)
(* it (relation-host.tsx:180-203, 282-289, workspace-window.tsx:           *)
(* 254-268).                                                               *)
DanglingNeedsRace ==
    late \/
        /\ ui.pending \in Range(open) \cup {None}
        /\ DOMAIN desktop.workspaces \subseteq Range(open)
        /\ \A id \in {desktop.active, desktop.front} \ {None} : HasWindow(desktop, id)
        /\ desktop.active \in {desktop.front, None}

(* A gesture moves no edge over the right wall, and no window is smaller   *)
(* or larger than windows may be, wherever it was dropped and whatever     *)
(* replaced its frame during the gesture (workspace-window.tsx:44-78).     *)
WithinWalls ==
    \A id \in Workspaces \cup Ids(plugins) :
        HasWindow(desktop', id) =>
            LET frame == FrameOf(desktop', id)
            IN /\ frame.size \in MinSize..MaxSize
               /\ canvas.gesture.kind = "window" /\ canvas'.gesture = NoGesture
                      /\ HasWindow(desktop, id) =>
                     LET old == FrameOf(desktop, id)
                     IN frame.x + frame.size <= Max({World, old.x + old.size})
WallsHold == [][WithinWalls]_vars
=============================================================================
