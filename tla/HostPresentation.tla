---------------------------- MODULE HostPresentation ----------------------------
(***************************************************************************)
(* The layout of the host desktop: windows of workspaces and of system     *)
(* plugins, which one is active and which in front, and the camera         *)
(* (src/pip-editor/relation-host/workspace/host-presentation-store.ts),    *)
(* and what drags and resizes make of a frame (view/workspace-window.tsx). *)
(*                                                                         *)
(* x stands for both axes; lengths are in any unit, scales in halves.  The *)
(* id of a workspace's window is the workspace.                            *)
(***************************************************************************)
EXTENDS Integers, SequencesExt

CONSTANTS
    World,                          \* the size of the desktop
    MinSize, MaxSize, DefaultSize,  \* of windows
    Margin,                         \* of a viewport
    None

ASSUME SizesFit ==
    /\ {World, MinSize, MaxSize, DefaultSize, Margin} \subseteq Nat
    /\ 0 < MinSize /\ MinSize <= DefaultSize /\ DefaultSize <= MaxSize /\ MaxSize <= World

Clamp(value, low, high) == Max({low, Min({high, value})})

NewDesktop ==
    [workspaces |-> << >>, systems |-> << >>, camera |-> [scale |-> 2, x |-> 0],
     active |-> None, front |-> None, viewport |-> None]

CenteredFrame(point, size) ==
    [x |-> Clamp(point - size \div 2, 0, World - size), size |-> size]

FrameAtPoint(point, size) == [x |-> point, size |-> size]

SizeForViewport(desktop, viewport) ==
    IF viewport = None THEN DefaultSize
    ELSE Clamp((2 * (viewport - 2 * Margin)) \div desktop.camera.scale, MinSize, DefaultSize)

ScreenToWorld(point, camera) == (2 * (point - camera.x)) \div camera.scale

VisibleCenter(desktop, viewport) ==
    IF viewport = None THEN World \div 4
    ELSE ScreenToWorld(viewport \div 2, desktop.camera)

PutFrame(windows, id, frame) ==
    [w \in DOMAIN windows \cup {id} |-> IF w = id THEN frame ELSE windows[w]]
DropFrame(windows, id) == [w \in DOMAIN windows \ {id} |-> windows[w]]

OrElse(value, default) == IF value = None THEN default ELSE value

(* A window that is there keeps its size.                                  *)
Presented(desktop, workspace, point, anchor, viewport) ==
    LET view == OrElse(viewport, desktop.viewport)
        size == IF workspace \in DOMAIN desktop.workspaces
                THEN desktop.workspaces[workspace].size
                ELSE SizeForViewport(desktop, view)
        target == OrElse(point, VisibleCenter(desktop, view))
        frame == IF anchor = "top-left" THEN FrameAtPoint(target, size)
                 ELSE CenteredFrame(target, size)
    IN [desktop EXCEPT !.workspaces = PutFrame(@, workspace, frame),
                       !.active = workspace, !.front = workspace]

Deactivated(desktop, id) ==
    [desktop EXCEPT !.active = IF @ = id THEN None ELSE @,
                    !.front = IF @ = id THEN None ELSE @]

(* Also removeWorkspace().                                                 *)
RestoredTab(desktop, workspace) ==
    IF workspace \notin DOMAIN desktop.workspaces THEN desktop
    ELSE [Deactivated(desktop, workspace) EXCEPT !.workspaces = DropFrame(@, workspace)]

HasWindow(desktop, id) == id \in DOMAIN desktop.workspaces \cup DOMAIN desktop.systems

FrameOf(desktop, id) ==
    IF id \in DOMAIN desktop.workspaces THEN desktop.workspaces[id] ELSE desktop.systems[id]

(* setWindow() throws for a window that is not there.                      *)
Framed(desktop, id, frame) ==
    IF id \in DOMAIN desktop.workspaces
    THEN [desktop EXCEPT !.workspaces = PutFrame(@, id, frame)]
    ELSE IF id \in DOMAIN desktop.systems
    THEN [desktop EXCEPT !.systems = PutFrame(@, id, frame)]
    ELSE desktop

(* activateWindow() asks of no window whether it is there.                 *)
Activated(desktop, id) == [desktop EXCEPT !.active = id, !.front = id]

ClearedActive(desktop) == [desktop EXCEPT !.active = None]

OpenedSystem(desktop, id, point, defaultSize) ==
    LET size == IF id \in DOMAIN desktop.systems THEN desktop.systems[id].size ELSE defaultSize
    IN [desktop EXCEPT !.systems = PutFrame(@, id, CenteredFrame(point, size)),
                       !.active = id, !.front = id]

ClosedSystem(desktop, id) ==
    [Deactivated(desktop, id) EXCEPT !.systems = DropFrame(@, id)]

(* Mutant: the east edge knows no wall.                                    *)
ResizedFreely(start, direction, delta) ==
    LET right == start.x + start.size
        west == Clamp(start.size - delta, MinSize, MaxSize)
    IN CASE direction = "none" -> [start EXCEPT !.x = Min({@ + delta, World - start.size})]
         [] direction = "east" -> [start EXCEPT !.size = Clamp(@ + delta, MinSize, MaxSize)]
         [] direction = "west" -> [x |-> right - west, size |-> west]

(* Left of the world there is no wall.                                     *)
Resized(start, direction, delta) ==
    LET right == start.x + start.size
        west == Clamp(start.size - delta, MinSize, MaxSize)
    IN CASE direction = "none" -> [start EXCEPT !.x = Min({@ + delta, World - start.size})]
         [] direction = "east" ->
                [start EXCEPT !.size = Clamp(@ + delta, MinSize, Min({MaxSize, World - start.x}))]
         [] direction = "west" -> [x |-> right - west, size |-> west]
=============================================================================
