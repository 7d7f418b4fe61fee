------------------------- MODULE ExecutionSession -------------------------
(***************************************************************************)
(* One session of the ExecutionSessionManager                              *)
(* (src/pip-editor/relation-host/execution/session-manager.ts): callers    *)
(* push frames into its queue, one drain loop executes them, and the       *)
(* session may be closed, cancelled or marked stale at any moment.         *)
(* Sessions share nothing, so one of them stands for all.                  *)
(*                                                                         *)
(* Executing a frame (executeScope) is one asynchronous step with one of   *)
(* two results; ExecutionScope takes it apart.  The queue is that of       *)
(* ExecutionEventQueue; a push that was woken runs again before the drain  *)
(* loop's next step, because its continuation is queued first.             *)
(***************************************************************************)
EXTENDS ExecutionEventQueue

CONSTANTS
  First,     \* the frame start() pushes
  NoFrame    \* no frame is being executed

ASSUME SessionAssumption == First \in Frames /\ NoFrame \notin Frames

VARIABLES
  continuous,   \* snapshot.continuous
  status,       \* snapshot.status
  inputClosed,  \* snapshot.inputClosed
  processing,   \* a drain loop runs
  active,       \* the frame it executes
  outcome,      \* what became of each frame: in snapshot.outputs, or failed
  continued,    \* the pushes whose code behind `await queue.push` has run
  started       \* start() has returned

session == <<continuous, status, inputClosed, processing, active, outcome,
             continued, started>>
vars == <<queue, session>>

Running == {"running", "draining"}
Settled == {"completed", "cancelled", "failed", "stale"}
-----------------------------------------------------------------------------
\* Mutant: the queue is not looked at.
FinishedEarly(closed, now) ==
  IF closed /\ now \notin {"cancelled", "failed", "stale"} THEN "completed" ELSE now

\* #finishIfIdle, in a state where nothing is processed.
Finished(closed, now) ==
  IF items = <<>> /\ closed /\ now \notin {"cancelled", "failed", "stale"}
  THEN "completed" ELSE now

\* Mutant: the loop looks at the queue before it looks at the signal.
DrainOnce(now, closed) ==
  \/ /\ items # <<>>
     /\ Shift
     /\ active' = Head(items)
     /\ processing' = TRUE
     /\ status' = now
  \/ /\ items = <<>>
     /\ Shift
     /\ active' = NoFrame
     /\ processing' = FALSE
     /\ status' = Finished(closed, now)

\* The head of the drain loop: take the next frame, or leave the loop.
DrainLoop(now, closed) ==
  \/ /\ ~aborted /\ items # <<>>
     /\ Shift
     /\ active' = Head(items)
     /\ processing' = TRUE
     /\ status' = now
  \/ /\ ~aborted /\ items = <<>>
     /\ Shift
     /\ active' = NoFrame
     /\ processing' = FALSE
     /\ status' = Finished(closed, now)
  \/ /\ aborted
     /\ active' = NoFrame
     /\ processing' = FALSE
     /\ status' = Finished(closed, now)
     /\ UNCHANGED queue

\* Mutant: every push starts a loop of its own.
DrainAgain(now, closed) == DrainLoop(now, closed)

\* #drain: at most one loop at a time.
Drain(now, closed) ==
  \/ processing /\ UNCHANGED <<queue, active, processing>> /\ status' = now
  \/ ~processing /\ DrainLoop(now, closed)
-----------------------------------------------------------------------------
\* start() registers the session and pushes its first frame.
Init ==
  /\ QueueInit
  /\ continuous \in BOOLEAN
  /\ status = "running"
  /\ inputClosed = FALSE
  /\ processing = FALSE
  /\ active = NoFrame
  /\ outcome = [f \in Frames |-> "none"]
  /\ continued = {}
  /\ started = FALSE

\* The session is visible to callers as soon as its first frame is queued.
PushFrame(f) ==
  /\ ~inputClosed
  /\ f = First \/ pc[First] # "idle"
  /\ Push(f)
  /\ UNCHANGED session

ResumePush(f) ==
  /\ Resume(f)
  /\ UNCHANGED session

\* push() behind `await session.queue.push`.
Continue(f) ==
  /\ pc[f] = "pushed"
  /\ f \notin continued
  /\ continued' = continued \cup {f}
  /\ Drain(status, inputClosed)
  /\ UNCHANGED <<continuous, inputClosed, outcome, started>>

\* close() sets the status of a running session to draining.
CloseTo(now) ==
  LET draining == IF now = "running" THEN "draining" ELSE now
  IN  IF processing THEN draining ELSE Finished(TRUE, draining)

\* Mutant: closing a session always sets it draining.
CloseAlways ==
  /\ started
  /\ inputClosed' = TRUE
  /\ status' = IF processing THEN "draining" ELSE Finished(TRUE, "draining")
  /\ UNCHANGED <<queue, continuous, processing, active, outcome, continued, started>>

Close ==
  /\ started
  /\ inputClosed' = TRUE
  /\ status' = CloseTo(status)
  /\ UNCHANGED <<queue, continuous, processing, active, outcome, continued, started>>

\* start() behind `await this.push`: a session that is not continuous closes
\* its input.
Started ==
  /\ ~started
  /\ First \in continued
  /\ started' = TRUE
  /\ inputClosed' = (inputClosed \/ ~continuous)
  /\ Drain(IF continuous THEN status ELSE CloseTo(status), inputClosed')
  /\ UNCHANGED <<continuous, outcome, continued>>

\* A frame's execution ends, also after the session was cancelled, and the
\* loop goes on.
FrameDone(result) ==
  /\ active # NoFrame
  /\ Woken = {}
  /\ outcome' = [outcome EXCEPT ![active] = result]
  /\ DrainLoop(IF result = "failed" /\ ~continuous THEN "failed" ELSE status,
               inputClosed)
  /\ UNCHANGED <<continuous, inputClosed, continued, started>>

\* cancel(); a second one aborts nothing more.
Cancel ==
  /\ started
  /\ IF aborted THEN UNCHANGED queue ELSE Abort
  /\ status' = "cancelled"
  /\ inputClosed' = TRUE
  /\ UNCHANGED <<continuous, processing, active, outcome, continued, started>>

\* markWorkspaceStale() with a revision other than the session's.
MarkStale ==
  /\ status \in Running
  /\ status' = "stale"
  /\ UNCHANGED <<queue, continuous, inputClosed, processing, active, outcome,
                 continued, started>>

Next ==
  \/ \E f \in Frames : PushFrame(f)
  \/ \E f \in Frames : ResumePush(f)
  \/ \E f \in Frames : Continue(f)
  \/ Started
  \/ Close
  \/ \E result \in {"output", "failed"} : FrameDone(result)
  \/ Cancel
  \/ MarkStale

\* Continuations run; a frame's execution returns, as that of every node
\* runtime of the plugins does.
Spec ==
  /\ Init
  /\ [][Next]_vars
  /\ WF_vars(Started)
  /\ \A f \in Frames : WF_vars(ResumePush(f)) /\ WF_vars(Continue(f))
  /\ WF_vars(\E result \in {"output", "failed"} : FrameDone(result))
-----------------------------------------------------------------------------

\* A session that is completed has executed every frame it was given and will
\* never be given another: no push is still waiting for room, none has put a
\* frame in the queue behind the drain loop's back
\* (session-manager.ts:65, 116, 188).
CompletedIsDrained ==
  status = "completed" =>
    \A f \in Frames : pc[f] # "idle" => pc[f] = "pushed" /\ outcome[f] # "none"

\* No frame is executed twice, none is executed that is still in the queue,
\* and the loop executes them in the order of the queue: what was taken is
\* what has a result, and the one being executed (session-manager.ts:112-119).
EveryFrameOnce ==
  /\ IsInjective(taken)
  /\ \A f \in Frames :
       f \in Range(taken) <=> (outcome[f] # "none" \/ f = active)
  /\ active # NoFrame => active = Last(taken)

\* The end of a session is final.  One that has settled never runs again and
\* never becomes completed: neither a close after a cancel, nor an idle loop
\* after a failure or after the graph moved on, takes the status back, though
\* cancelling and failing may still replace it; and after a cancel no further
\* frame is started, the one being executed is the last one taken
\* (session-manager.ts:70, 115, 188).
EndIsFinal ==
  [][ /\ status \in Settled => status' \in Settled \ ({"completed"} \ {status})
      /\ aborted => taken' = taken ]_vars

\* A session whose input is closed settles; for a session that is not
\* continuous this means that every execution settles.
ClosedSessionsSettle == inputClosed ~> status \in Settled
=============================================================================
