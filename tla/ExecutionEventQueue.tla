------------------------ MODULE ExecutionEventQueue ------------------------
(***************************************************************************)
(* ExecutionEventQueue, the bounded queue in front of an execution session *)
(* (src/pip-editor/relation-host/execution/event-queue.ts).  push() waits  *)
(* while the queue is full; shift() takes the oldest value and wakes one   *)
(* waiting push, which only runs again after the code that called shift()  *)
(* is done, and then looks at the queue anew.                              *)
(*                                                                         *)
(* Every value is pushed by one call, so a value also names the call.      *)
(***************************************************************************)
EXTENDS Naturals, Sequences, SequencesExt, FiniteSets

CONSTANTS
  Frames,     \* the values, and the calls that push them
  Capacity    \* capacity

ASSUME QueueAssumption == Capacity \in 1 .. 4096 /\ IsFiniteSet(Frames)

VARIABLES
  items,      \* #items
  space,      \* #space: the pushes that wait for space, by their callback
  pc,         \* where each push is
  aborted,    \* the signal
  taken       \* history: what shift() returned, in that order

queue == <<items, space, pc, aborted, taken>>

\* A push is "woken" between its callback and its next look at the queue.
Places == {"idle", "waiting", "woken", "pushed", "rejected"}

Full == Len(items) >= Capacity
-----------------------------------------------------------------------------
QueueInit ==
  /\ items = <<>>
  /\ space = <<>>
  /\ pc = [f \in Frames |-> "idle"]
  /\ aborted = FALSE
  /\ taken = <<>>

\* Mutant: a push that was woken does not look at the queue again.
EnterOnce(f) ==
  \/ /\ Full /\ pc[f] = "idle"
     /\ space' = Append(space, f)
     /\ pc' = [pc EXCEPT ![f] = "waiting"]
     /\ UNCHANGED items
  \/ /\ ~Full \/ pc[f] = "woken"
     /\ items' = Append(items, f)
     /\ pc' = [pc EXCEPT ![f] = "pushed"]
     /\ UNCHANGED space

\* The loop in push(): wait once more or put the value in.
Enter(f) ==
  \/ /\ Full
     /\ space' = Append(space, f)
     /\ pc' = [pc EXCEPT ![f] = "waiting"]
     /\ UNCHANGED items
  \/ /\ ~Full
     /\ items' = Append(items, f)
     /\ pc' = [pc EXCEPT ![f] = "pushed"]
     /\ UNCHANGED space

Push(f) ==
  /\ pc[f] = "idle"
  /\ Enter(f)
  /\ UNCHANGED <<aborted, taken>>

Resume(f) ==
  /\ pc[f] = "woken"
  /\ Enter(f)
  /\ UNCHANGED <<aborted, taken>>

\* #items.shift() and #space.shift() of an array that may be empty.
Rest(list) == IF list = <<>> THEN <<>> ELSE Tail(list)

WithoutFirst == Rest(space)

\* Mutant: the callback is taken off the list and not called.
WakeNobody(places) == places

\* this.#space.shift()?.()
Wake(places) ==
  IF space = <<>> THEN places ELSE [places EXCEPT ![Head(space)] = "woken"]

\* shift(), which wakes a push even when there is nothing to take.
Shift ==
  /\ items' = Rest(items)
  /\ taken' = IF items = <<>> THEN taken ELSE Append(taken, Head(items))
  /\ space' = WithoutFirst
  /\ pc' = Wake(pc)
  /\ UNCHANGED aborted

\* The signal rejects the pushes that wait at that moment.
Abort ==
  /\ ~aborted
  /\ aborted' = TRUE
  /\ space' = <<>>
  /\ pc' = [f \in Frames |-> IF pc[f] = "waiting" THEN "rejected" ELSE pc[f]]
  /\ UNCHANGED <<items, taken>>

-----------------------------------------------------------------------------
Woken == {f \in Frames : pc[f] = "woken"}

\* No push waits while there is room for it and nobody is on the way to that
\* room: there are never more free places than pushes that have been woken
\* for them, although a push that comes by may take a place meant for another
\* (event-queue.ts:16-26).
NoLostWakeup ==
  space # <<>> => Capacity - Len(items) <= Cardinality(Woken)

\* The queue is a bounded buffer: at most Capacity values, each of them in
\* and out at most once, whatever pushes are woken at the same time.
Buffer == INSTANCE BoundedBuffer
            WITH Values <- Frames, held <- Range(items), taken <- Range(taken)
QueueIsBuffer == Buffer!Spec

=============================================================================
