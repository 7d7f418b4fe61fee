--------------------------- MODULE TriggerRuntime ---------------------------
(***************************************************************************)
(* The triggers of one workspace: TriggerRuntime                           *)
(* (src/pip-editor/relation-host/execution/trigger-runtime.ts), which      *)
(* keeps clocks and hooks in step with the graph, and the trigger sessions *)
(* of the ExecutionSessionManager (session-manager.ts).  A trigger that    *)
(* fires goes on with the session of its last firing, or starts one; the   *)
(* runtime closes it when the trigger is removed or its graph changes.     *)
(* A firing waits for mapInput before it looks for the session, and        *)
(* registers a session only when its first frame is in its queue.          *)
(*                                                                         *)
(* A graph is its revision.  The frames of a session and its drain loop    *)
(* are those of ExecutionSession.                                          *)
(***************************************************************************)
EXTENDS Naturals

CONSTANTS
  Triggers,      \* the trigger nodes with an activation, clock or hook
  Sessions,      \* ids of sessions: as many as the firings may start
  Firings,       \* the calls of trigger()
  None,          \* neither session nor revision
  MaxRevision    \* bound: the graph changes no further

ASSUME TriggerAssumption ==
  None \notin Sessions /\ None \notin Nat /\ MaxRevision \in Nat

VARIABLES
  open,        \* the workspace is in the store
  revision,    \* graph.revision
  declared,    \* the triggers the graph declares
  active,      \* #active: the revision each trigger was activated with
  registered,  \* #triggerSessions
  session,     \* #sessions
  firing,      \* the calls of trigger()
  seen,        \* history: the revision at the last effects
  tangled      \* history: triggers two firings of which overlapped, or one of
               \* which outlived its activation

vars == <<open, revision, declared, active, registered, session, firing, seen, tangled>>

Phases == {"idle", "mapping", "starting", "pushing", "done", "failed"}

Unused == [status |-> "unused", closed |-> FALSE, revision |-> 0]
-----------------------------------------------------------------------------
Init ==
  /\ open = TRUE
  /\ revision = 0
  /\ declared \in SUBSET Triggers
  /\ active = [t \in Triggers |-> None]
  /\ registered = [t \in Triggers |-> None]
  /\ session = [s \in Sessions |-> Unused]
  /\ \E t \in Triggers :
       firing = [f \in Firings |-> [phase |-> "idle", of |-> t, revision |-> 0, session |-> None]]
  /\ seen = 0
  /\ tangled = {}

\* A new graph is published; it may declare other triggers.
Publish(triggers) ==
  /\ open
  /\ revision < MaxRevision
  /\ revision' = revision + 1
  /\ declared' = triggers
  /\ UNCHANGED <<open, active, registered, session, firing, seen, tangled>>

CloseWorkspace ==
  /\ open
  /\ open' = FALSE
  /\ UNCHANGED <<revision, declared, active, registered, session, firing, seen, tangled>>

\* markWorkspaceStale, which knows of open workspaces only.
Marked(item) ==
  IF open /\ item.revision # revision /\ item.status \in {"running", "draining"}
  THEN [item EXCEPT !.status = "stale"] ELSE item

\* Mutant: the session is left open.
LeftOpen(item) == item

\* close()
Closed(item) ==
  [item EXCEPT !.closed = TRUE,
               !.status = IF @ = "running" THEN "draining" ELSE @]

Desired(t) == open /\ t \in declared

\* Mutant: only triggers that are gone are removed.
Gone(t) == active[t] # None /\ ~Desired(t)

\* Removed by sync: gone, or activated with another graph.
Outdated(t) == active[t] # None /\ (~Desired(t) \/ active[t] # revision)

InFlight(t) ==
  \E f \in Firings : firing[f].of = t /\ firing[f].phase \in {"mapping", "starting"}

\* The effects behind a render: markWorkspaceStale, then sync.
Sync ==
  LET closing == {registered[t] : t \in {t \in Triggers : Outdated(t)}}
  IN  /\ session' = [s \in Sessions |->
                       IF s \in closing THEN Closed(Marked(session[s])) ELSE Marked(session[s])]
      /\ registered' = [t \in Triggers |-> IF Outdated(t) THEN None ELSE registered[t]]
      /\ active' = [t \in Triggers |->
                      IF Desired(t) /\ (Outdated(t) \/ active[t] = None) THEN revision
                      ELSE IF Outdated(t) THEN None ELSE active[t]]
      /\ seen' = revision
      /\ tangled' = tangled \cup {t \in Triggers : Outdated(t) /\ InFlight(t)}
      /\ UNCHANGED <<open, revision, declared, firing>>

\* The clock ticks or the hook is dispatched; trigger() runs up to mapInput,
\* with the graph the trigger was activated with.
Fire(f, t) ==
  /\ firing[f].phase = "idle"
  /\ active[t] # None
  /\ firing' = [firing EXCEPT ![f] = [phase |-> "mapping", of |-> t,
                                      revision |-> active[t], session |-> None]]
  /\ tangled' = IF InFlight(t) THEN tangled \cup {t} ELSE tangled
  /\ UNCHANGED <<open, revision, declared, active, registered, session, seen>>

\* mapInput throws.
Reject(f) ==
  /\ firing[f].phase = "mapping"
  /\ firing' = [firing EXCEPT ![f].phase = "failed"]
  /\ UNCHANGED <<open, revision, declared, active, registered, session, seen, tangled>>

\* The session of the last firing, if it takes frames.
Usable(s) == s # None /\ session[s].status = "running" /\ ~session[s].closed

\* mapInput is done: go on with the session there is.
Continue(f) ==
  LET s == registered[firing[f].of]
  IN  /\ firing[f].phase = "mapping"
      /\ Usable(s)
      /\ firing' = [firing EXCEPT ![f].phase = "pushing", ![f].session = s]
      /\ UNCHANGED <<open, revision, declared, active, registered, session, seen, tangled>>

\* mapInput is done: start a session with the graph of the firing.
Start(f) ==
  /\ firing[f].phase = "mapping"
  /\ ~Usable(registered[firing[f].of])
  /\ \E s \in Sessions :
       /\ session[s] = Unused
       /\ session' = [session EXCEPT ![s] = [status |-> "running", closed |-> FALSE,
                                             revision |-> firing[f].revision]]
       /\ firing' = [firing EXCEPT ![f].phase = "starting", ![f].session = s]
  /\ UNCHANGED <<open, revision, declared, active, registered, seen, tangled>>

\* The push has its place in the queue, or the session was cancelled meanwhile.
Pushed(f) ==
  /\ firing[f].phase = "pushing"
  /\ \E p \in {"done", "failed"} : firing' = [firing EXCEPT ![f].phase = p]
  /\ UNCHANGED <<open, revision, declared, active, registered, session, seen, tangled>>

\* Mutant: the first session of a trigger stays the registered one.
FirstOf(f) ==
  IF registered[firing[f].of] = None THEN firing[f].session ELSE registered[firing[f].of]

SessionOf(f) == firing[f].session

\* start() has returned: #triggerSessions.set
Register(f) ==
  /\ firing[f].phase = "starting"
  /\ registered' = [registered EXCEPT ![firing[f].of] = SessionOf(f)]
  /\ firing' = [firing EXCEPT ![f].phase = "done"]
  /\ UNCHANGED <<open, revision, declared, active, session, seen, tangled>>

\* The user closes the input of a session, or cancels it.
UserCloses(s) ==
  /\ session[s].status # "unused"
  /\ session' = [session EXCEPT ![s] = Closed(session[s])]
  /\ UNCHANGED <<open, revision, declared, active, registered, firing, seen, tangled>>

UserCancels(s) ==
  /\ session[s].status # "unused"
  /\ session' = [session EXCEPT ![s].status = "cancelled", ![s].closed = TRUE]
  /\ UNCHANGED <<open, revision, declared, active, registered, firing, seen, tangled>>

\* A session whose input is closed has executed its frames.
Complete(s) ==
  /\ session[s].status = "draining"
  /\ session' = [session EXCEPT ![s].status = "completed"]
  /\ UNCHANGED <<open, revision, declared, active, registered, firing, seen, tangled>>

Next ==
  \/ \E triggers \in SUBSET Triggers : Publish(triggers)
  \/ CloseWorkspace
  \/ Sync
  \/ \E f \in Firings, t \in Triggers : Fire(f, t)
  \/ \E f \in Firings : Reject(f)
  \/ \E f \in Firings : Continue(f)
  \/ \E f \in Firings : Start(f)
  \/ \E f \in Firings : Pushed(f)
  \/ \E f \in Firings : Register(f)
  \/ \E s \in Sessions : UserCloses(s)
  \/ \E s \in Sessions : UserCancels(s)
  \/ \E s \in Sessions : Complete(s)

\* Effects run after every publication, continuations run, and sessions whose
\* input is closed complete (ClosedSessionsSettle of ExecutionSession).
Spec ==
  /\ Init
  /\ [][Next]_vars
  /\ WF_vars(Sync)
  /\ \A f \in Firings :
       /\ WF_vars(Reject(f) \/ Continue(f) \/ Start(f))
       /\ WF_vars(Register(f))
  /\ \A s \in Sessions : WF_vars(Complete(s))
-----------------------------------------------------------------------------
Statuses == {"unused", "running", "draining", "stale", "cancelled", "completed"}

\* Also: no session is registered for two triggers.
TypeOK ==
  /\ open \in BOOLEAN
  /\ revision \in 0 .. MaxRevision
  /\ declared \subseteq Triggers
  /\ active \in [Triggers -> (0 .. MaxRevision) \cup {None}]
  /\ registered \in [Triggers -> Sessions \cup {None}]
  /\ session \in [Sessions -> [status : Statuses, closed : BOOLEAN, revision : 0 .. MaxRevision]]
  /\ firing \in [Firings -> [phase : Phases, of : Triggers, revision : 0 .. MaxRevision,
                             session : Sessions \cup {None}]]
  /\ seen \in 0 .. MaxRevision
  /\ tangled \subseteq Triggers
  /\ \A t, u \in Triggers : registered[t] = registered[u] /\ registered[t] # None => t = u

\* The session a firing started.
StartedBy(t) == {firing[f].session : f \in {f \in Firings : firing[f].of = t}} \ {None}

\* A session that takes frames can be reached to close it: it is the one of its
\* trigger or is about to be.  Firings that overlap, or that outlive their
\* activation, are the only way to lose one (session-manager.ts:83-86,
\* trigger-runtime.ts:56-60).
SessionsAreReachable ==
  \A t \in Triggers \ tangled : \A s \in StartedBy(t) :
    session[s].status = "running" /\ ~session[s].closed =>
      \/ registered[t] = s
      \/ \E f \in Firings : firing[f].session = s /\ firing[f].phase = "starting"

\* Once the effects have run, a trigger's session that is running executes the
\* published graph: those of older graphs were marked stale, and none is
\* started for an older graph afterwards, under the same exception
\* (session-manager.ts:94-97, trigger-runtime.ts:38).
RunningIsCurrent ==
  \A t \in Triggers \ tangled : \A s \in StartedBy(t) :
    open /\ seen = revision /\ session[s].status = "running" =>
      session[s].revision = revision

\* When its workspace is closed, every session of a trigger ends, under the same
\* exception (trigger-runtime.ts:38, session-manager.ts:89-92).
SessionsEnd ==
  \A t \in Triggers, s \in Sessions :
    (~open /\ s \in StartedBy(t)) ~>
      (t \in tangled \/ session[s].status \notin {"running", "draining"})
=============================================================================
