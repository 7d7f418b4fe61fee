----------------------- MODULE ExecutionSessionProofs -----------------------
(***************************************************************************)
(* Proofs about ExecutionSession and its queue, for any number of frames   *)
(* and any capacity.                                                       *)
(*                                                                         *)
(* The queue's own invariant says where the frame of each push is: waiting *)
(* pushes are those in `space', finished ones those in `items' or `taken', *)
(* and no list holds a frame twice (Placed, Distinct).  What the session   *)
(* adds is that an idle drain loop has woken everybody it could (Idle),    *)
(* that a result belongs to a frame that was taken, and that an aborted    *)
(* session has an end other than "completed" (Ended): without these a      *)
(* session could complete while a push is still on its way into the queue. *)
(*                                                                         *)
(* ExecutionScope executes the active frame in many steps, none of which   *)
(* touches the session; so it implements ExecutionSession with the         *)
(* identity as its mapping, and inherits all of this.                      *)
(***************************************************************************)
EXTENDS ExecutionScope, TLAPS, FiniteSetTheorems, WellFoundedInduction

QueueTypeOK ==
  /\ items \in Seq(Frames)
  /\ space \in Seq(Frames)
  /\ taken \in Seq(Frames)
  /\ pc \in [Frames -> Places]
  /\ aborted \in BOOLEAN

Distinct ==
  /\ IsInjective(items)
  /\ IsInjective(space)
  /\ IsInjective(taken)
  /\ Range(items) \cap Range(taken) = {}

Placed ==
  /\ \A f \in Frames : f \in Range(space) <=> pc[f] = "waiting"
  /\ \A f \in Frames : f \in Range(items) \cup Range(taken) <=> pc[f] = "pushed"
  /\ \A f \in Frames : pc[f] = "rejected" => aborted

QueueInv == QueueTypeOK /\ Distinct /\ Placed /\ Len(items) <= Capacity

\* What one call of the queue does; the session calls nothing else.
QueueStep ==
  \/ \E f \in Frames : Push(f) \/ Resume(f)
  \/ Shift
  \/ Abort
-----------------------------------------------------------------------------
\* Lists.  A value that is appended is one more in the list, and in no place
\* twice unless it was in it already.
LEMMA AppendOne ==
  ASSUME NEW S, NEW s \in Seq(S), NEW x \in S
  PROVE  /\ Append(s, x) \in Seq(S)
         /\ Range(Append(s, x)) = Range(s) \cup {x}
         /\ IsInjective(s) /\ x \notin Range(s) => IsInjective(Append(s, x))
<1> DEFINE t == Append(s, x)
<1>1. t \in Seq(S) /\ Len(t) = Len(s) + 1 /\ DOMAIN t = 1 .. Len(s) + 1 /\ DOMAIN s = 1 .. Len(s)
  OBVIOUS
<1>2. (\A i \in 1 .. Len(s) : t[i] = s[i]) /\ t[Len(s) + 1] = x
  OBVIOUS
<1> HIDE DEF t
<1>3. Len(s) \in Nat
  OBVIOUS
<1>4. Range(t) = Range(s) \cup {x}
  BY <1>1, <1>2, <1>3 DEF Range
<1>5. IsInjective(s) /\ x \notin Range(s) => IsInjective(t)
  BY <1>1, <1>2, <1>3 DEF Range, IsInjective
<1> QED
  BY <1>1, <1>4, <1>5 DEF t

\* The first value of a list is taken off it, and its tail holds the others.
LEMMA DropFirst ==
  ASSUME NEW S, NEW s \in Seq(S), s # <<>>
  PROVE  /\ Head(s) \in S
         /\ Head(s) \in Range(s)
         /\ Tail(s) \in Seq(S)
         /\ Len(Tail(s)) = Len(s) - 1
         /\ IsInjective(s) => IsInjective(Tail(s)) /\ Range(Tail(s)) = Range(s) \ {Head(s)}
<1> DEFINE t == Tail(s)
<1>1. Len(s) \in Nat /\ Len(s) >= 1 /\ DOMAIN s = 1 .. Len(s) /\ Head(s) = s[1]
  OBVIOUS
<1>2. t \in Seq(S) /\ Len(t) = Len(s) - 1 /\ DOMAIN t = 1 .. Len(s) - 1
  OBVIOUS
<1>3. \A i \in 1 .. Len(s) - 1 : t[i] = s[i + 1]
  OBVIOUS
<1>4. Head(s) \in S /\ Head(s) \in Range(s)
  BY <1>1 DEF Range
<1> HIDE DEF t
<1>5. ASSUME IsInjective(s) PROVE IsInjective(t) /\ Range(t) = Range(s) \ {Head(s)}
  <2>1. IsInjective(t)
    <3> SUFFICES ASSUME NEW i \in 1 .. Len(s) - 1, NEW j \in 1 .. Len(s) - 1, t[i] = t[j] PROVE i = j
      BY <1>2 DEF IsInjective
    <3>1. i + 1 \in DOMAIN s /\ j + 1 \in DOMAIN s /\ s[i + 1] = s[j + 1]
      BY <1>1, <1>3
    <3>2. i + 1 = j + 1
      BY <1>5, <3>1 DEF IsInjective
    <3> QED
      BY <3>2
  <2>2. ASSUME NEW x \in Range(t) PROVE x \in Range(s) \ {s[1]}
    BY <1>1, <1>2, <1>3, <1>5 DEF IsInjective, Range
  <2>3. ASSUME NEW x \in Range(s), x # s[1] PROVE x \in Range(t)
    <3>1. PICK i \in 1 .. Len(s) : s[i] = x
      BY <1>1 DEF Range
    <3>2. i - 1 \in 1 .. Len(s) - 1 /\ t[i - 1] = x
      BY <1>1, <1>3, <2>3, <3>1
    <3> QED
      BY <1>2, <3>2 DEF Range
  <2> QED
    BY <1>1, <2>1, <2>2, <2>3
<1> QED
  BY <1>2, <1>4, <1>5 DEF t

\* An empty list holds nothing.
LEMMA EmptyList ==
  ASSUME NEW S, NEW s \in Seq(S)
  PROVE  /\ s = <<>> <=> Range(s) = {}
         /\ s = <<>> <=> Len(s) = 0
         /\ IsInjective(<<>>)
  BY DEF Range, IsInjective

\* A list without repetitions is as long as it has values.
LEMMA LengthOfDistinct ==
  ASSUME NEW S, NEW s \in Seq(S)
  PROVE  IsFiniteSet(Range(s)) /\ Cardinality(Range(s)) <= Len(s)
<1>1. Len(s) \in Nat /\ s \in [1 .. Len(s) -> S]
  OBVIOUS
<1>2. s \in Surjection(1 .. Len(s), Range(s))
  BY <1>1 DEF Surjection, Range
<1>3. IsFiniteSet(1 .. Len(s)) /\ Cardinality(1 .. Len(s)) = Len(s)
  BY <1>1, FS_Interval
<1> QED
  BY <1>2, <1>3, FS_Surjection
-----------------------------------------------------------------------------
\* The pushes that are on their way to the queue are finitely many.
LEMMA WokenFinite == IsFiniteSet(Woken) /\ Cardinality(Woken) \in Nat
  BY QueueAssumption, FS_Subset, FS_CardinalityType DEF Woken

\* A push enters the queue or waits; either way it is in its new place.
LEMMA EnterStep ==
  ASSUME QueueInv, NEW f \in Frames, pc[f] \in {"idle", "woken"}, Enter(f),
         UNCHANGED <<aborted, taken>>
  PROVE  QueueInv'
<1> USE DEF QueueInv, QueueTypeOK, Distinct, Placed, Places
<1>1. CASE Full
  <2>1. items' = items /\ space' = Append(space, f) /\ pc' = [pc EXCEPT ![f] = "waiting"]
    BY <1>1 DEF Enter
  <2>2. f \notin Range(space)
    OBVIOUS
  <2>3. space' \in Seq(Frames) /\ Range(space') = Range(space) \cup {f} /\ IsInjective(space')
    BY <2>1, <2>2, AppendOne
  <2> QED
    BY <2>1, <2>3
<1>2. CASE ~Full
  <2>1. space' = space /\ items' = Append(items, f) /\ pc' = [pc EXCEPT ![f] = "pushed"]
    BY <1>2 DEF Enter
  <2>2. f \notin Range(items) \cup Range(taken)
    OBVIOUS
  <2>3. items' \in Seq(Frames) /\ Range(items') = Range(items) \cup {f} /\ IsInjective(items')
    BY <2>1, <2>2, AppendOne
  <2>4. Len(items') <= Capacity
    BY <1>2, <2>1, QueueAssumption DEF Full
  <2> QED
    BY <2>1, <2>2, <2>3, <2>4
<1> QED
  BY <1>1, <1>2

\* shift() moves the first value to what was taken and a waiting push, if
\* there is one, on its way.
LEMMA ShiftStep ==
  ASSUME QueueInv, Shift
  PROVE  QueueInv'
<1> USE DEF QueueInv
<1>1. /\ items' \in Seq(Frames) /\ IsInjective(items') /\ Len(items') <= Capacity
      /\ taken' \in Seq(Frames) /\ IsInjective(taken')
      /\ Range(items') \cap Range(taken') = {}
      /\ Range(items') \cup Range(taken') = Range(items) \cup Range(taken)
  <2>1. CASE items = <<>>
    BY <2>1, EmptyList DEF Shift, Rest, QueueTypeOK, Distinct
  <2>2. CASE items # <<>>
    <3> DEFINE x == Head(items)
    <3>1. items' = Tail(items) /\ taken' = Append(taken, x)
      BY <2>2 DEF Shift, Rest
    <3>2. x \in Frames /\ x \in Range(items) /\ x \notin Range(taken)
      BY <2>2, DropFirst DEF QueueTypeOK, Distinct
    <3>3. items' \in Seq(Frames) /\ IsInjective(items') /\ Range(items') = Range(items) \ {x}
          /\ Len(items') = Len(items) - 1
      BY <2>2, <3>1, DropFirst DEF QueueTypeOK, Distinct
    <3>4. taken' \in Seq(Frames) /\ IsInjective(taken') /\ Range(taken') = Range(taken) \cup {x}
      BY <3>1, <3>2, AppendOne DEF QueueTypeOK, Distinct
    <3>5. Len(items') <= Capacity
      BY <3>3, QueueAssumption, EmptyList DEF QueueTypeOK
    <3>6. Range(items') \cap Range(taken') = {}
      BY <3>3, <3>4 DEF Distinct
    <3>7. Range(items') \cup Range(taken') = Range(items) \cup Range(taken)
      BY <3>2, <3>3, <3>4
    <3> HIDE DEF x
    <3> QED
      BY <3>3, <3>4, <3>5, <3>6, <3>7
  <2> QED
    BY <2>1, <2>2
<1>2. /\ space' \in Seq(Frames) /\ IsInjective(space') /\ pc' \in [Frames -> Places]
      /\ \A f \in Frames : f \in Range(space') <=> pc'[f] = "waiting"
      /\ \A f \in Frames : pc'[f] = pc[f] \/ (pc[f] = "waiting" /\ pc'[f] = "woken")
  <2>1. CASE space = <<>>
    BY <2>1, EmptyList DEF Shift, WithoutFirst, Rest, Wake, QueueTypeOK, Distinct, Placed
  <2>2. CASE space # <<>>
    <3> DEFINE x == Head(space)
    <3>1. space' = Tail(space) /\ pc' = [pc EXCEPT ![x] = "woken"]
      BY <2>2 DEF Shift, WithoutFirst, Rest, Wake
    <3>2. x \in Frames /\ x \in Range(space) /\ space' \in Seq(Frames) /\ IsInjective(space')
          /\ Range(space') = Range(space) \ {x}
      BY <2>2, <3>1, DropFirst DEF QueueTypeOK, Distinct
    <3> HIDE DEF x
    <3> QED
      BY <3>1, <3>2 DEF QueueTypeOK, Placed, Places
  <2> QED
    BY <2>1, <2>2
<1>3. aborted' = aborted
  BY DEF Shift
<1> QED
  BY <1>1, <1>2, <1>3 DEF QueueTypeOK, Distinct, Placed

\* The signal empties the list of waiting pushes.
LEMMA AbortStep ==
  ASSUME QueueInv, Abort
  PROVE  QueueInv'
<1> USE DEF QueueInv, Abort
<1>1. space' = <<>> /\ space' \in Seq(Frames)
  OBVIOUS
<1>2. Range(space') = {} /\ IsInjective(space')
  BY <1>1, EmptyList
<1>3. \A f \in Frames : pc'[f] = IF pc[f] = "waiting" THEN "rejected" ELSE pc[f]
  OBVIOUS
<1>4. QueueTypeOK'
  BY <1>1 DEF QueueTypeOK, Places
<1>5. Distinct' /\ Len(items') <= Capacity
  BY <1>2 DEF Distinct
<1>6. Placed'
  BY <1>2, <1>3 DEF Placed
<1> QED
  BY <1>4, <1>5, <1>6

\* Every call of the queue keeps its invariant.
LEMMA QueueInvStep == QueueInv /\ (QueueStep \/ UNCHANGED queue) => QueueInv'
<1> SUFFICES ASSUME QueueInv, QueueStep \/ UNCHANGED queue PROVE QueueInv'
  OBVIOUS
<1>1. ASSUME NEW f \in Frames, Push(f) \/ Resume(f) PROVE QueueInv'
  BY <1>1, EnterStep DEF Push, Resume
<1>2. CASE UNCHANGED queue
  BY <1>2 DEF queue, QueueInv, QueueTypeOK, Distinct, Placed
<1> QED
  BY <1>1, <1>2, ShiftStep, AbortStep DEF QueueStep

\* Every call of the queue keeps NoLostWakeup: a place that is freed comes with
\* a wake-up, and a place that is taken is one less.
LEMMA WakeupStep ==
  QueueInv /\ NoLostWakeup /\ (QueueStep \/ UNCHANGED queue) => NoLostWakeup'
<1> SUFFICES ASSUME QueueInv, NoLostWakeup, QueueStep \/ UNCHANGED queue, space' # <<>>
             PROVE  Capacity - Len(items') <= Cardinality(Woken')
  BY DEF NoLostWakeup
<1>1. Capacity \in Nat /\ Len(items) \in Nat /\ Len(items') \in Nat
  BY QueueInvStep, QueueAssumption DEF QueueInv, QueueTypeOK
<1>2. IsFiniteSet(Woken') /\ Cardinality(Woken') \in Nat /\ Cardinality(Woken) \in Nat
      /\ IsFiniteSet(Woken)
  BY QueueAssumption, FS_Subset, FS_CardinalityType DEF Woken
<1>3. ASSUME NEW f \in Frames, Push(f) \/ Resume(f)
      PROVE  Capacity - Len(items') <= Cardinality(Woken')
  <2>1. CASE Full
    <3>1. Len(items') >= Capacity
      BY <1>3, <2>1 DEF Push, Resume, Enter, Full
    <3> QED
      BY <1>1, <1>2, <3>1
  <2>2. CASE ~Full
    <3>1. Len(items') = Len(items) + 1 /\ space # <<>> /\ pc' = [pc EXCEPT ![f] = "pushed"]
      BY <1>3, <2>2 DEF Push, Resume, Enter, QueueInv, QueueTypeOK
    <3>2. Woken' = Woken \ {f}
      BY <3>1 DEF Woken, QueueInv, QueueTypeOK
    <3>3. Cardinality(Woken') >= Cardinality(Woken) - 1
      BY <1>2, <3>2, FS_RemoveElement
    <3> QED
      BY <1>1, <1>2, <3>1, <3>3 DEF NoLostWakeup
  <2> QED
    BY <2>1, <2>2
<1>4. CASE Shift
  <2> DEFINE x == Head(space)
  <2>1. space # <<>>
    BY <1>4 DEF Shift, WithoutFirst, Rest
  <2>2. x \in Frames /\ pc[x] = "waiting" /\ pc' = [pc EXCEPT ![x] = "woken"]
    BY <1>4, <2>1, DropFirst DEF Shift, Wake, QueueInv, QueueTypeOK, Placed
  <2>3. Woken' = Woken \cup {x} /\ x \notin Woken
    BY <2>2 DEF Woken, QueueInv, QueueTypeOK
  <2> HIDE DEF x
  <2>4. Cardinality(Woken') = Cardinality(Woken) + 1
    BY <1>2, <2>3, FS_AddElement
  <2>5. Len(items') >= Len(items) - 1
    <3>1. CASE items = <<>>
      BY <1>4, <3>1 DEF Shift, Rest
    <3>2. CASE items # <<>>
      BY <1>4, <3>2, DropFirst DEF Shift, Rest, QueueInv, QueueTypeOK
    <3> QED
      BY <3>1, <3>2
  <2> QED
    BY <1>1, <1>2, <2>1, <2>4, <2>5 DEF NoLostWakeup
<1>5. CASE Abort
  BY <1>5 DEF Abort
<1>6. CASE UNCHANGED queue
  BY <1>6 DEF queue, NoLostWakeup, Woken
<1> QED
  BY <1>3, <1>4, <1>5, <1>6 DEF QueueStep

\* When nothing is left in the queue and nobody is on the way to it, nobody
\* waits either.
LEMMA NobodyWaits ==
  ASSUME QueueInv, NoLostWakeup, items = <<>>, Woken = {}
  PROVE  space = <<>>
<1>1. Len(items) = 0 /\ Cardinality(Woken) = 0 /\ Capacity > 0
  BY QueueAssumption, FS_EmptySet
<1> QED
  BY <1>1, QueueAssumption DEF NoLostWakeup

\* BoundedBuffer counts as this module does.
LEMMA SameCardinality == \A S : Buffer!Cardinality(S) = Cardinality(S)
  BY DEF Buffer!Cardinality, Cardinality

\* Every call of the queue is a step of the bounded buffer or changes nothing
\* that the buffer shows.
LEMMA BufferStep ==
  QueueInv /\ (QueueStep \/ UNCHANGED queue) => [Buffer!Put \/ Buffer!Take]_<<Range(items), Range(taken)>>
<1> SUFFICES ASSUME QueueInv, QueueStep \/ UNCHANGED queue
             PROVE  \/ Buffer!Put
                    \/ Buffer!Take
                    \/ Range(items') = Range(items) /\ Range(taken') = Range(taken)
  OBVIOUS
<1>1. ASSUME NEW f \in Frames, Push(f) \/ Resume(f), ~Full
      PROVE  Buffer!Put
  <2>1. items' = Append(items, f) /\ taken' = taken /\ f \notin Range(items) \cup Range(taken)
    BY <1>1 DEF Push, Resume, Enter, QueueInv, QueueTypeOK, Placed
  <2>2. Range(items') = Range(items) \cup {f}
    BY <2>1, AppendOne DEF QueueInv, QueueTypeOK
  <2>3. Cardinality(Range(items)) < Capacity
    <3>1. Len(items) \in Nat /\ Len(items) < Capacity
      BY <1>1, QueueAssumption DEF Full, QueueInv, QueueTypeOK
    <3>2. Cardinality(Range(items)) \in Nat /\ Cardinality(Range(items)) <= Len(items)
      BY LengthOfDistinct, FS_CardinalityType DEF QueueInv, QueueTypeOK
    <3> QED
      BY <3>1, <3>2, QueueAssumption
  <2> QED
    BY <2>1, <2>2, <2>3, SameCardinality DEF Buffer!Put
<1>2. ASSUME NEW f \in Frames, Push(f) \/ Resume(f), Full
      PROVE  Range(items') = Range(items) /\ Range(taken') = Range(taken)
  BY <1>2 DEF Push, Resume, Enter
<1>3. CASE Shift /\ items # <<>>
  <2> DEFINE x == Head(items)
  <2>1. items' = Tail(items) /\ taken' = Append(taken, x)
    BY <1>3 DEF Shift, Rest
  <2>2. x \in Frames /\ x \in Range(items) /\ Range(items') = Range(items) \ {x}
    BY <1>3, <2>1, DropFirst DEF QueueInv, QueueTypeOK, Distinct
  <2>3. Range(taken') = Range(taken) \cup {x}
    BY <2>1, <2>2, AppendOne DEF QueueInv, QueueTypeOK
  <2> HIDE DEF x
  <2> QED
    BY <2>2, <2>3 DEF Buffer!Take
<1>4. CASE Shift /\ items = <<>>
  BY <1>4 DEF Shift, Rest
<1>5. CASE Abort \/ UNCHANGED queue
  BY <1>5 DEF Abort, queue
<1> QED
  BY <1>1, <1>2, <1>3, <1>4, <1>5 DEF QueueStep
-----------------------------------------------------------------------------
Outcomes == {"none", "output", "failed"}

SessionTypeOK ==
  /\ continuous \in BOOLEAN
  /\ status \in Running \cup Settled
  /\ inputClosed \in BOOLEAN
  /\ processing \in BOOLEAN
  /\ active \in Frames \cup {NoFrame}
  /\ outcome \in [Frames -> Outcomes]
  /\ continued \subseteq Frames
  /\ started \in BOOLEAN

\* Every push that was made has its frame executed.
Drained == \A f \in Frames : pc[f] # "idle" => pc[f] = "pushed" /\ outcome[f] # "none"

Loop ==
  /\ processing <=> active # NoFrame
  /\ active # NoFrame => outcome[active] = "none" /\ active = Last(taken)
  /\ \A f \in Frames : f \in Range(taken) <=> (outcome[f] # "none" \/ f = active)

Idle == ~processing => Woken = {}

Ended ==
  /\ aborted => status \in {"cancelled", "failed"}
  /\ status = "completed" => inputClosed /\ Drained

SessionInv == SessionTypeOK /\ Loop /\ Idle /\ Ended

Inv == QueueInv /\ NoLostWakeup /\ SessionInv

\* When all has been executed, nothing is in the queue, on its way to it or
\* being executed.
LEMMA DrainedIsIdle ==
  ASSUME Inv, Drained
  PROVE  items = <<>> /\ Woken = {} /\ active = NoFrame /\ ~processing
<1>1. \A f \in Frames : f \notin Range(items)
  <2> SUFFICES ASSUME NEW f \in Range(items), f \in Frames PROVE FALSE
    OBVIOUS
  <2>1. pc[f] = "pushed" /\ f \notin Range(taken)
    BY DEF Inv, QueueInv, Placed, Distinct
  <2>2. f = active \/ outcome[f] = "none"
    BY <2>1 DEF Inv, SessionInv, Loop
  <2>3. outcome[f] # "none"
    BY <2>1 DEF Drained
  <2> QED
    BY <2>1, <2>2, <2>3 DEF Inv, SessionInv, Loop
<1>2. items = <<>>
  <2>1. Range(items) \subseteq Frames
    BY DEF Inv, QueueInv, QueueTypeOK, Range
  <2> QED
    BY <1>1, <2>1, EmptyList DEF Inv, QueueInv, QueueTypeOK
<1>3. Woken = {}
  BY DEF Drained, Woken
<1>4. active = NoFrame
  <2> SUFFICES ASSUME active # NoFrame PROVE FALSE
    OBVIOUS
  <2>1. active \in Frames /\ outcome[active] = "none" /\ active \in Range(taken)
    BY DEF Inv, SessionInv, SessionTypeOK, Loop
  <2>2. pc[active] = "pushed"
    BY <2>1 DEF Inv, QueueInv, Placed
  <2> QED
    BY <2>1, <2>2 DEF Drained
<1> QED
  BY <1>2, <1>3, <1>4 DEF Inv, SessionInv, Loop

\* When the queue is empty, nobody is on the way to it and no signal rejected
\* anybody, every push that was made has its frame taken.
LEMMA EmptyIsTaken ==
  ASSUME QueueInv, items = <<>>, space = <<>>, Woken = {}, ~aborted,
         NEW f \in Frames, pc[f] # "idle"
  PROVE  pc[f] = "pushed" /\ f \in Range(taken)
<1>1. Range(items) = {} /\ Range(space) = {}
  BY EmptyList DEF QueueInv, QueueTypeOK
<1>2. pc[f] \in {"waiting", "woken", "pushed", "rejected"}
  BY DEF QueueInv, QueueTypeOK, Places
<1>3. pc[f] = "pushed"
  BY <1>1, <1>2 DEF QueueInv, Placed, Woken
<1> QED
  BY <1>1, <1>3 DEF QueueInv, Placed

\* The head of the drain loop, with nobody on the way to the queue and a result
\* for every frame that was taken: it takes the next frame, or stops because
\* of the signal, or stops with everything executed.
LEMMA DrainLoopStep ==
  ASSUME QueueInv, NoLostWakeup, Woken = {},
         NEW now \in Running \cup Settled, NEW closed \in BOOLEAN,
         aborted => now \in {"cancelled", "failed"},
         now = "completed" => items = <<>> /\ closed,
         outcome' \in [Frames -> Outcomes],
         \A f \in Frames : f \in Range(taken) <=> outcome'[f] # "none",
         DrainLoop(now, closed)
  PROVE  /\ QueueStep \/ UNCHANGED queue
         /\ active' \in Frames \cup {NoFrame} /\ processing' \in BOOLEAN
         /\ Loop' /\ Idle'
         /\ aborted' = aborted /\ (aborted => taken' = taken)
         /\ status' = now \/ (status' = "completed" /\ now \in Running)
         /\ status' = "completed" => closed /\ Drained'
<1>1. CASE ~aborted /\ items # <<>>
  <2> DEFINE x == Head(items)
  <2>1. Shift /\ active' = x /\ processing' = TRUE /\ status' = now
    BY <1>1 DEF DrainLoop
  <2>2. x \in Frames /\ x \in Range(items) /\ x \notin Range(taken)
    BY <1>1, DropFirst DEF QueueInv, QueueTypeOK, Distinct
  <2>3. taken' = Append(taken, x) /\ aborted' = aborted
    BY <1>1, <2>1 DEF Shift
  <2>4. Range(taken') = Range(taken) \cup {x} /\ taken' \in Seq(Frames)
    BY <2>2, <2>3, AppendOne DEF QueueInv, QueueTypeOK
  <2>5. Last(taken') = x
    BY <2>2, <2>3 DEF Last, QueueInv, QueueTypeOK
  <2> HIDE DEF x
  <2>6. Loop'
    BY <2>1, <2>2, <2>4, <2>5, SessionAssumption DEF Loop
  <2> QED
    BY <1>1, <2>1, <2>2, <2>3, <2>6 DEF Idle, QueueStep
<1>2. CASE ~aborted /\ items = <<>>
  <2>1. Shift /\ active' = NoFrame /\ processing' = FALSE /\ status' = Finished(closed, now)
    BY <1>2 DEF DrainLoop
  <2>2. space = <<>>
    BY <1>2, NobodyWaits
  <2>3. items' = <<>> /\ space' = <<>> /\ pc' = pc /\ taken' = taken /\ aborted' = aborted
    BY <1>2, <2>1, <2>2 DEF Shift, Rest, WithoutFirst, Wake
  <2>4. Woken' = {}
    BY <2>3 DEF Woken
  <2>5. Drained'
    <3> SUFFICES ASSUME NEW f \in Frames, pc[f] # "idle"
                 PROVE  pc[f] = "pushed" /\ outcome'[f] # "none"
      BY <2>3 DEF Drained
    <3> QED
      BY <1>2, <2>2, EmptyIsTaken
  <2>6. Loop' /\ Idle'
    BY <2>1, <2>3, <2>4, SessionAssumption DEF Loop, Idle
  <2>7. status' = now \/ (status' = "completed" /\ now \in Running)
    BY <2>1 DEF Finished, Running, Settled
  <2>8. status' = "completed" => closed
    BY <2>1 DEF Finished
  <2> QED
    BY <2>1, <2>3, <2>5, <2>6, <2>7, <2>8 DEF QueueStep
<1>3. CASE aborted
  <2>1. UNCHANGED queue /\ active' = NoFrame /\ processing' = FALSE /\ status' = now
    BY <1>3 DEF DrainLoop, Finished
  <2>2. Loop' /\ Idle' /\ taken' = taken /\ aborted' = aborted
    BY <2>1, SessionAssumption DEF Loop, Idle, queue, Woken
  <2> QED
    BY <1>3, <2>1, <2>2
<1> QED
  BY <1>1, <1>2, <1>3

\* #drain() in a state between steps: nothing, or the head of the loop.
LEMMA DrainStep ==
  ASSUME Inv, NEW now \in Running \cup Settled, NEW closed \in BOOLEAN,
         aborted => now \in {"cancelled", "failed"},
         now = "completed" => items = <<>> /\ closed /\ ~processing,
         outcome' = outcome,
         Drain(now, closed)
  PROVE  /\ QueueStep \/ UNCHANGED queue
         /\ active' \in Frames \cup {NoFrame} /\ processing' \in BOOLEAN
         /\ Loop' /\ Idle'
         /\ aborted' = aborted /\ (aborted => taken' = taken)
         /\ status' = now \/ (status' = "completed" /\ now \in Running)
         /\ status' = "completed" => closed /\ Drained'
<1>1. CASE processing
  <2>1. UNCHANGED <<queue, active, processing>> /\ status' = now
    BY <1>1 DEF Drain
  <2>2. Loop' /\ Idle' /\ aborted' = aborted /\ taken' = taken
    BY <2>1 DEF Inv, SessionInv, Loop, Idle, queue, Woken
  <2> QED
    BY <1>1, <2>1, <2>2 DEF Inv, SessionInv, SessionTypeOK
<1>2. CASE ~processing
  <2>1. DrainLoop(now, closed)
    BY <1>2 DEF Drain
  <2>2. Woken = {} /\ \A f \in Frames : f \in Range(taken) <=> outcome'[f] # "none"
    BY <1>2, SessionAssumption DEF Inv, SessionInv, Loop, Idle
  <2>3. outcome' \in [Frames -> Outcomes]
    BY DEF Inv, SessionInv, SessionTypeOK
  <2>4. QueueInv /\ NoLostWakeup
    BY DEF Inv
  <2> QED
    BY <2>1, <2>2, <2>3, <2>4, DrainLoopStep
<1> QED
  BY <1>1, <1>2

\* What close() makes of the status of a session nothing is wrong with.
LEMMA CloseStatus ==
  ASSUME Inv
  PROVE  /\ CloseTo(status) \in Running \cup Settled
         /\ aborted => CloseTo(status) \in {"cancelled", "failed"}
         /\ CloseTo(status) = "completed" => items = <<>> /\ ~processing /\ Drained
         /\ status \in Settled => CloseTo(status) = status
<1>1. status \in Running \cup Settled /\ (aborted => status \in {"cancelled", "failed"})
  BY DEF Inv, SessionInv, SessionTypeOK, Ended
<1>2. CloseTo(status) = "completed" => items = <<>> /\ ~processing
  <2>1. status = "completed" => items = <<>> /\ ~processing
    BY DrainedIsIdle DEF Inv, SessionInv, Ended
  <2> QED
    BY <2>1 DEF CloseTo, Finished
<1>3. ASSUME CloseTo(status) = "completed" PROVE Drained
  <2>1. items = <<>> /\ ~processing /\ ~aborted
    BY <1>1, <1>2, <1>3 DEF CloseTo, Finished
  <2>2. Woken = {} /\ active = NoFrame
    BY <2>1 DEF Inv, SessionInv, Idle, Loop
  <2>3. space = <<>>
    BY <2>1, <2>2, NobodyWaits DEF Inv
  <2>4. \A f \in Frames : f \in Range(taken) => outcome[f] # "none"
    BY <2>2, SessionAssumption DEF Inv, SessionInv, Loop
  <2>5. \A f \in Frames : pc[f] # "idle" => pc[f] = "pushed" /\ f \in Range(taken)
    BY <2>1, <2>2, <2>3, EmptyIsTaken DEF Inv
  <2> QED
    BY <2>4, <2>5 DEF Drained
<1> QED
  BY <1>1, <1>2, <1>3 DEF CloseTo, Finished, Running, Settled

\* The step EndIsFinal asks for.
EndStep ==
  /\ status \in Settled => status' \in Settled \ ({"completed"} \ {status})
  /\ aborted => taken' = taken

StepKeeps == (QueueStep \/ UNCHANGED queue) /\ SessionInv' /\ EndStep

\* A push that runs when the session has not completed.
LEMMA PushKeeps ==
  ASSUME Inv, NEW f \in Frames, Push(f) \/ Resume(f), UNCHANGED session,
         status # "completed", processing \/ Push(f)
  PROVE  StepKeeps
<1>1. Woken' \subseteq Woken /\ UNCHANGED <<taken, aborted>>
  BY DEF Push, Resume, Enter, Woken, Inv, QueueInv, QueueTypeOK
<1>2. UNCHANGED <<continuous, status, inputClosed, processing, active, outcome, continued, started>>
  BY DEF session
<1>3. Loop' /\ Ended' /\ SessionTypeOK'
  BY <1>1, <1>2 DEF Inv, SessionInv, Loop, Ended, SessionTypeOK
<1>4. Idle'
  BY <1>1, <1>2 DEF Inv, SessionInv, Idle
<1>5. EndStep
  BY <1>1, <1>2 DEF EndStep
<1> QED
  BY <1>3, <1>4, <1>5 DEF StepKeeps, SessionInv, QueueStep

\* Every step calls the queue once at most, keeps the session's invariant and
\* takes back no end.
LEMMA SessionStep == Inv /\ [Next]_vars => StepKeeps
<1> SUFFICES ASSUME Inv, [Next]_vars PROVE StepKeeps
  OBVIOUS
<1>1. ASSUME NEW f \in Frames, PushFrame(f) PROVE StepKeeps
  <2>1. Push(f) /\ UNCHANGED session /\ status # "completed"
    BY <1>1 DEF PushFrame, Inv, SessionInv, Ended
  <2> QED
    BY <2>1, PushKeeps
<1>2. ASSUME NEW f \in Frames, ResumePush(f) PROVE StepKeeps
  <2>1. Resume(f) /\ UNCHANGED session /\ f \in Woken
    BY <1>2 DEF ResumePush, Resume, Woken
  <2>2. status # "completed" /\ processing
    BY <2>1, DrainedIsIdle DEF Inv, SessionInv, Ended, Idle
  <2> QED
    BY <2>1, <2>2, PushKeeps
<1>3. ASSUME NEW f \in Frames, Continue(f) PROVE StepKeeps
  <2>1. Drain(status, inputClosed) /\ UNCHANGED <<continuous, inputClosed, outcome, started>>
        /\ continued' = continued \cup {f}
    BY <1>3 DEF Continue
  <2>2. status \in Running \cup Settled /\ inputClosed \in BOOLEAN
        /\ (aborted => status \in {"cancelled", "failed"})
    BY DEF Inv, SessionInv, SessionTypeOK, Ended
  <2>3. status = "completed" => items = <<>> /\ inputClosed /\ ~processing
    BY DrainedIsIdle DEF Inv, SessionInv, Ended
  <2>4. /\ QueueStep \/ UNCHANGED queue
        /\ active' \in Frames \cup {NoFrame} /\ processing' \in BOOLEAN
        /\ Loop' /\ Idle'
        /\ aborted' = aborted /\ (aborted => taken' = taken)
        /\ status' = status \/ (status' = "completed" /\ status \in Running)
        /\ status' = "completed" => inputClosed /\ Drained'
    BY <2>1, <2>2, <2>3, DrainStep
  <2>5. SessionTypeOK'
    BY <2>1, <2>4 DEF Inv, SessionInv, SessionTypeOK, Settled
  <2>6. Ended' /\ EndStep
    BY <2>1, <2>2, <2>4 DEF Ended, EndStep, Running, Settled
  <2> QED
    BY <2>4, <2>5, <2>6 DEF StepKeeps, SessionInv
<1>4. CASE Started
  <2> DEFINE now == IF continuous THEN status ELSE CloseTo(status)
             closed == inputClosed \/ ~continuous
  <2>1. Drain(now, inputClosed') /\ UNCHANGED <<continuous, outcome, continued>>
        /\ started' = TRUE /\ inputClosed' = closed
    BY <1>4 DEF Started
  <2>2. now \in Running \cup Settled /\ closed \in BOOLEAN
        /\ (aborted => now \in {"cancelled", "failed"}) /\ (status \in Settled => now = status)
    BY CloseStatus DEF Inv, SessionInv, SessionTypeOK, Ended
  <2>3. now = "completed" => items = <<>> /\ closed /\ ~processing
    BY DrainedIsIdle, CloseStatus DEF Inv, SessionInv, Ended
  <2> HIDE DEF now, closed
  <2>4. /\ QueueStep \/ UNCHANGED queue
        /\ active' \in Frames \cup {NoFrame} /\ processing' \in BOOLEAN
        /\ Loop' /\ Idle'
        /\ aborted' = aborted /\ (aborted => taken' = taken)
        /\ status' = now \/ (status' = "completed" /\ now \in Running)
        /\ status' = "completed" => closed /\ Drained'
    BY <2>1, <2>2, <2>3, DrainStep
  <2>5. SessionTypeOK'
    BY <2>1, <2>2, <2>4 DEF Inv, SessionInv, SessionTypeOK, Settled
  <2>6. Ended' /\ EndStep
    BY <2>1, <2>2, <2>4 DEF Ended, EndStep, Running, Settled
  <2> QED
    BY <2>4, <2>5, <2>6 DEF StepKeeps, SessionInv
<1>5. CASE Close
  <2>1. inputClosed' = TRUE /\ status' = CloseTo(status)
        /\ UNCHANGED <<queue, continuous, processing, active, outcome, continued, started>>
    BY <1>5 DEF Close
  <2>2. SessionTypeOK' /\ Loop' /\ Idle'
    BY <2>1, CloseStatus DEF Inv, SessionInv, SessionTypeOK, Loop, Idle, queue, Woken
  <2>3. Drained' <=> Drained
    BY <2>1 DEF Drained, queue
  <2>4. Ended'
    BY <2>1, <2>3, CloseStatus DEF Ended, queue
  <2>5. EndStep
    BY <2>1, CloseStatus DEF EndStep, queue
  <2> QED
    BY <2>1, <2>2, <2>4, <2>5 DEF StepKeeps, SessionInv
<1>6. ASSUME NEW result \in {"output", "failed"}, FrameDone(result) PROVE StepKeeps
  <2> DEFINE now == IF result = "failed" /\ ~continuous THEN "failed" ELSE status
  <2>1. active # NoFrame /\ Woken = {} /\ outcome' = [outcome EXCEPT ![active] = result]
        /\ DrainLoop(now, inputClosed) /\ UNCHANGED <<continuous, inputClosed, continued, started>>
    BY <1>6 DEF FrameDone
  <2>2. active \in Frames /\ status # "completed"
    BY <2>1, DrainedIsIdle DEF Inv, SessionInv, SessionTypeOK, Ended
  <2>3. /\ now \in Running \cup Settled /\ now # "completed" /\ inputClosed \in BOOLEAN
        /\ aborted => now \in {"cancelled", "failed"}
        /\ status \in Settled => now \in Settled
    BY <2>2 DEF Inv, SessionInv, SessionTypeOK, Ended, Settled
  <2>4. outcome' \in [Frames -> Outcomes]
        /\ \A f \in Frames : f \in Range(taken) <=> outcome'[f] # "none"
    BY <2>1, <2>2 DEF Inv, SessionInv, SessionTypeOK, Loop, Outcomes
  <2> HIDE DEF now
  <2>5. /\ QueueStep \/ UNCHANGED queue
        /\ active' \in Frames \cup {NoFrame} /\ processing' \in BOOLEAN
        /\ Loop' /\ Idle'
        /\ aborted' = aborted /\ (aborted => taken' = taken)
        /\ status' = now \/ (status' = "completed" /\ now \in Running)
        /\ status' = "completed" => inputClosed /\ Drained'
    BY <2>1, <2>3, <2>4, DrainLoopStep DEF Inv
  <2>6. SessionTypeOK'
    BY <2>1, <2>3, <2>4, <2>5 DEF Inv, SessionInv, SessionTypeOK, Settled
  <2>7. Ended' /\ EndStep
    BY <2>1, <2>2, <2>3, <2>5 DEF Ended, EndStep, Running, Settled
  <2> QED
    BY <2>5, <2>6, <2>7 DEF StepKeeps, SessionInv
<1>7. CASE Cancel
  <2>1. /\ Abort \/ (aborted /\ UNCHANGED queue)
        /\ status' = "cancelled" /\ inputClosed' = TRUE
        /\ UNCHANGED <<continuous, processing, active, outcome, continued, started>>
    BY <1>7 DEF Cancel
  <2>2. taken' = taken /\ Woken' = Woken
    BY <2>1 DEF Abort, queue, Woken, Inv, QueueInv, QueueTypeOK
  <2>3. SessionTypeOK' /\ Loop' /\ Idle'
    BY <2>1, <2>2 DEF Inv, SessionInv, SessionTypeOK, Loop, Idle, Settled
  <2>4. Ended' /\ EndStep
    BY <2>1, <2>2 DEF Ended, EndStep, Settled
  <2> QED
    BY <2>1, <2>3, <2>4 DEF StepKeeps, SessionInv, QueueStep
<1>8. CASE MarkStale
  <2>1. status \in Running /\ status' = "stale"
        /\ UNCHANGED <<queue, continuous, inputClosed, processing, active, outcome, continued, started>>
    BY <1>8 DEF MarkStale
  <2>2. ~aborted
    BY <2>1 DEF Inv, SessionInv, Ended, Running
  <2>3. SessionTypeOK' /\ Loop' /\ Idle'
    BY <2>1 DEF Inv, SessionInv, SessionTypeOK, Loop, Idle, Settled, queue, Woken
  <2>4. Ended' /\ EndStep
    BY <2>1, <2>2 DEF Ended, EndStep, Running, Settled, queue
  <2> QED
    BY <2>1, <2>3, <2>4 DEF StepKeeps, SessionInv
<1>9. CASE UNCHANGED vars
  <2>1. UNCHANGED queue /\ UNCHANGED session
    BY <1>9 DEF vars
  <2>2. SessionTypeOK' /\ Loop' /\ Idle' /\ Ended'
    BY <2>1 DEF Inv, SessionInv, SessionTypeOK, Loop, Idle, Ended, Drained, queue, session, Woken
  <2>3. EndStep
    BY <2>1 DEF EndStep, queue, session
  <2> QED
    BY <2>1, <2>2, <2>3 DEF StepKeeps, SessionInv
<1> QED
  BY <1>1, <1>2, <1>3, <1>4, <1>5, <1>6, <1>7, <1>8, <1>9 DEF Next
-----------------------------------------------------------------------------
\* The initial states satisfy the invariant.
LEMMA InitInv == Init => Inv
<1> SUFFICES ASSUME Init PROVE Inv
  OBVIOUS
<1>1. items = <<>> /\ space = <<>> /\ taken = <<>> /\ pc = [f \in Frames |-> "idle"] /\ aborted = FALSE
  BY DEF Init, QueueInit
<1>2. QueueTypeOK
  <2>1. pc \in [Frames -> Places]
    BY <1>1 DEF Places
  <2>2. <<>> \in Seq(Frames)
    OBVIOUS
  <2> QED
    BY <1>1, <2>1, <2>2, Zenon DEF QueueTypeOK
<1>3. Range(items) = {} /\ Range(space) = {} /\ Range(taken) = {}
      /\ IsInjective(items) /\ IsInjective(space) /\ IsInjective(taken) /\ Len(items) = 0
  BY <1>1, <1>2, EmptyList DEF QueueTypeOK
<1>4. QueueInv
  BY <1>1, <1>2, <1>3, QueueAssumption DEF QueueInv, Distinct, Placed
<1>5. NoLostWakeup /\ Woken = {}
  BY <1>1 DEF NoLostWakeup, Woken
<1>6. SessionTypeOK
  BY DEF Init, SessionTypeOK, Running, Settled, Outcomes
<1>7. Loop /\ Idle /\ Ended
  BY <1>1, <1>3, <1>5, SessionAssumption DEF Init, Loop, Idle, Ended
<1> QED
  BY <1>4, <1>5, <1>6, <1>7 DEF Inv, SessionInv

\* Every step keeps the invariant.
LEMMA Step == Inv /\ [Next]_vars => Inv'
  BY SessionStep, QueueInvStep, WakeupStep DEF Inv, StepKeeps

\* The invariant holds in every reachable state.
LEMMA Invariance == Spec => []Inv
  BY InitInv, Step, PTL DEF Spec

\* No push waits for a place that is free and meant for nobody, with any
\* capacity and any number of callers (event-queue.ts:16-26).
THEOREM NoWakeupIsLost == Spec => []NoLostWakeup
  BY Invariance, PTL DEF Inv

\* A completed session has executed all it was given (session-manager.ts:188).
THEOREM CompletionIsComplete == Spec => []CompletedIsDrained
<1>1. Inv => CompletedIsDrained
  BY DEF Inv, SessionInv, Ended, Drained, CompletedIsDrained
<1> QED
  BY <1>1, Invariance, PTL

\* Every frame is executed once at most, in the order of the queue
\* (session-manager.ts:112-119).
THEOREM FramesRunOnce == Spec => []EveryFrameOnce
<1>1. Inv => EveryFrameOnce
  BY DEF Inv, QueueInv, Distinct, SessionInv, Loop, EveryFrameOnce
<1> QED
  BY <1>1, Invariance, PTL

\* No step takes back the end of a session or starts a frame behind its signal
\* (session-manager.ts:70, 115, 188).
THEOREM EndStaysFinal == Spec => EndIsFinal
<1>1. Inv /\ [Next]_vars => [EndStep]_vars
  BY SessionStep DEF StepKeeps
<1>2. EndIsFinal <=> [][EndStep]_vars
  BY DEF EndIsFinal, EndStep
<1> QED
  BY <1>1, <1>2, Invariance, PTL DEF Spec

\* The queue of a session implements the bounded buffer: initially empty, and
\* every step puts one value in, takes one out or changes neither.
THEOREM QueueImplementsBuffer == Spec => QueueIsBuffer
<1>1. Init => Buffer!Init
  <2> SUFFICES ASSUME Init PROVE Buffer!Init
    OBVIOUS
  <2>1. items = <<>> /\ taken = <<>>
    BY DEF Init, QueueInit
  <2> QED
    BY <2>1 DEF Buffer!Init, Range
<1>2. Inv /\ [Next]_vars => [Buffer!Put \/ Buffer!Take]_<<Range(items), Range(taken)>>
  BY SessionStep, BufferStep DEF Inv, StepKeeps
<1> QED
  BY <1>1, <1>2, Invariance, PTL DEF Spec, QueueIsBuffer, Buffer!Spec

\* A step of a frame's execution is none of its session, and the step that ends
\* the execution is the session's (session-manager.ts:119-127).
LEMMA ScopeStepMaps == [ScopeNext]_executing => [Next]_vars
<1> SUFFICES ASSUME [ScopeNext]_executing PROVE [Next]_vars
  OBVIOUS
<1>1. CASE AroundFrame
  BY <1>1 DEF AroundFrame, Next
<1>2. CASE ExecutionStep
  BY <1>2 DEF ExecutionStep
<1>3. CASE EndFrame
  <2>1. FrameDone("output") \/ FrameDone("failed")
    BY <1>3 DEF EndFrame
  <2> QED
    BY <2>1 DEF Next
<1>4. CASE UNCHANGED executing
  BY <1>4 DEF executing
<1> QED
  BY <1>1, <1>2, <1>3, <1>4 DEF ScopeNext

\* Whatever the plan of its frames, a session that executes them scope by scope
\* is one of those that execute a frame at once, and what is proved of these
\* holds of it: no wake-up is lost, a completed session is drained, frames run
\* once and in order, ends are final, and the queue is a buffer.
THEOREM ScopesImplementSession == ScopeSpec => Init /\ [][Next]_vars
<1>1. ScopeInit => Init
  BY DEF ScopeInit
<1> QED
  BY <1>1, ScopeStepMaps, PTL DEF ScopeSpec

\* The completion of a session with all its scopes is complete
\* (session-manager.ts:130-155, 188).
THEOREM CompletionWithScopes == ScopeSpec => []CompletedIsDrained
<1>1. Inv => CompletedIsDrained
  BY DEF Inv, SessionInv, Ended, Drained, CompletedIsDrained
<1> QED
  BY <1>1, ScopesImplementSession, InitInv, Step, PTL
-----------------------------------------------------------------------------
(***************************************************************************)
(* The execution of a frame, for any plan.                                 *)
(*                                                                         *)
(* That an effect is executed is not inductive: what matters is that the   *)
(* arbiter has no receipt for it yet.  A node within one scope with delays *)
(* has the generation of that scope (Counted), and its receipts are of     *)
(* earlier generations as long as it, or a scope around it, is yet to run  *)
(* in this one (Fresh).  That it keeps the input it was executed with      *)
(* needs the order of the ranks (RankByRank), and that nobody runs in a    *)
(* scope that does not (BusyInRunning).                                    *)
(*                                                                         *)
(* The inputs of nodes and the scopes around them are functions that are   *)
(* defined along the tree of scopes; TreeRecursion says that there are     *)
(* such functions.                                                         *)
(***************************************************************************)

\* Scopes and nodes are a finite tree.
LEMMA PlanShape ==
  /\ \A n \in Nodes : Scope[n] \in Scopes /\ Scope[n] \in Parts /\ Scope[n] # n
  /\ \A s \in Scopes : s = Root \/ s \in Nodes
  /\ \A n \in Nodes : n \in Parts /\ n # Root /\ Source[n] \in Parts /\ Rank[n] \in Nat
  /\ Root \in Parts /\ IsFiniteSet(Parts) /\ IsFiniteSet(Scopes)
<1>1. \A n \in Nodes : Scope[n] \in Scopes
  BY DEF Scopes
<1>2. Scopes \subseteq Parts /\ \A n \in Nodes : n \in Parts /\ n # Root
  BY PlanAssumption DEF Parts
<1>3. ASSUME NEW n \in Nodes PROVE Scope[n] # n
  <2>1. \E m \in {n} : Scope[m] \notin {n}
    BY PlanAssumption
  <2> QED
    BY <2>1
<1>4. \A n \in Nodes : Source[n] \in Parts
  BY <1>1, <1>2, PlanAssumption DEF Inside
<1>5. IsFiniteSet(Parts)
  BY PlanAssumption, FS_AddElement DEF Parts
<1>6. IsFiniteSet(Scopes)
  BY <1>2, <1>5, FS_Subset
<1>7. Root \in Parts /\ \A n \in Nodes : Rank[n] \in Nat
  BY PlanAssumption DEF Parts
<1>8. \A s \in Scopes : s = Root \/ s \in Nodes
  BY <1>2 DEF Parts
<1> QED
  BY <1>1, <1>2, <1>3, <1>4, <1>5, <1>6, <1>7, <1>8

\* Whoever is in a set of nodes has one around him, or is himself one, whose
\* scope is not in it.
LEMMA Outermost ==
  ASSUME NEW S, S \subseteq Nodes, S # {}
  PROVE  \E n \in S : Scope[n] \notin S
BY PlanAssumption

\* A function of the parts of a plan may be given at the root and, for each
\* node, by what it is for the scope around.
LEMMA TreeRecursion ==
  ASSUME NEW V, NEW root \in V, NEW step \in [Nodes \X V -> V]
  PROVE  \E f \in [Parts -> V] :
           f[Root] = root /\ \A n \in Nodes : f[n] = step[<<n, f[Scope[n]]>>]
<1> DEFINE Solves(S, f) ==
             /\ f \in [S -> V] /\ f[Root] = root
             /\ \A n \in S \cap Nodes : Scope[n] \in S /\ f[n] = step[<<n, f[Scope[n]]>>]
           solved == {S \in SUBSET Parts : Root \in S /\ \E f \in [S -> V] : Solves(S, f)}
           sizes == {Cardinality(Parts \ S) : S \in solved}
<1>1. \A S \in solved : IsFiniteSet(Parts \ S) /\ Cardinality(Parts \ S) \in Nat
  BY PlanShape, FS_Subset, FS_CardinalityType
<1>2. {Root} \in solved
  <2> DEFINE f == [n \in {Root} |-> root]
  <2>1. Solves({Root}, f) /\ f \in [{Root} -> V]
    BY PlanAssumption
  <2> QED
    BY <2>1, PlanShape
<1>3. PICK S \in solved : \A T \in solved : Cardinality(Parts \ S) <= Cardinality(Parts \ T)
  <2> HIDE DEF solved
  <2>1. sizes \subseteq Nat /\ Cardinality(Parts \ {Root}) \in sizes
    BY <1>1, <1>2
  <2>2. \E x \in sizes : \A y \in sizes : x <= y
    <3> DEFINE Less == OpToRel(<, Nat)
    <3>1. PICK x \in sizes : \A y \in sizes : ~(<<y, x>> \in Less)
      BY <2>1, NatLessThanWellFounded, WFMin
    <3>2. \A a, b \in Nat : <<a, b>> \in Less <=> a < b
      BY DEF OpToRel
    <3> HIDE DEF Less
    <3> HIDE DEF sizes
    <3>3. \A y \in sizes : x \in Nat /\ y \in Nat /\ ~(y < x)
      BY <2>1, <3>1, <3>2
    <3>4. \A y \in sizes : x <= y
      BY <3>3
    <3> QED
      BY <3>4
  <2> QED
    BY <2>2
<1>4. PICK f \in [S -> V] : Solves(S, f)
  BY <1>3
<1>5. S = Parts
  <2> SUFFICES ASSUME S # Parts PROVE FALSE
    OBVIOUS
  <2> DEFINE rest == Parts \ S
  <2>1. rest \subseteq Nodes /\ rest # {}
    BY <1>3 DEF Parts
  <2>2. PICK n \in rest : Scope[n] \notin rest
    BY <2>1, Outermost
  <2>3. n \in Nodes /\ n \notin S /\ Scope[n] \in S
    BY <2>1, <2>2, PlanShape
  <2> DEFINE T == S \cup {n}
             g == [m \in T |-> IF m = n THEN step[<<n, f[Scope[n]]>>] ELSE f[m]]
  <2>4. step[<<n, f[Scope[n]]>>] \in V
    BY <1>4, <2>3
  <2>5. g \in [T -> V]
    BY <1>4, <2>4
  <2>6. Solves(T, g)
    <3>1. g[Root] = root
      BY <1>3, <1>4, <2>3, PlanShape
    <3>2. \A m \in T \cap Nodes : Scope[m] \in T /\ Scope[m] # n /\ g[Scope[m]] = f[Scope[m]]
      BY <1>4, <2>3, PlanShape
    <3> QED
      BY <1>4, <2>5, <3>1, <3>2
  <2>7. T \in solved
    BY <1>3, <2>1, <2>5, <2>6, PlanShape
  <2>8. Cardinality(Parts \ T) < Cardinality(Parts \ S)
    <3>1. Parts \ T \subseteq Parts \ S /\ Parts \ T # Parts \ S
      BY <2>3, PlanShape
    <3>2. IsFiniteSet(Parts \ S) /\ Cardinality(Parts \ S) \in Nat
      BY <1>1, <1>3
    <3> QED
      BY <3>1, <3>2, FS_Subset, FS_CardinalityType
  <2>9. Cardinality(Parts \ S) \in Nat /\ Cardinality(Parts \ T) \in Nat
    <3> HIDE DEF solved, T
    <3> QED
      BY <1>1, <1>3, <2>7
  <2>10. Cardinality(Parts \ S) <= Cardinality(Parts \ T)
    <3> HIDE DEF solved, T
    <3> QED
      BY <1>3, <2>7
  <2> QED
    BY <2>8, <2>9, <2>10
<1> QED
  BY <1>4, <1>5, PlanShape

LEMMA AroundExists ==
  \E f : /\ f = [n \in Nodes |-> {Scope[n]} \cup IF Scope[n] = Root THEN {} ELSE f[Scope[n]]]
         /\ f \in [Nodes -> SUBSET Scopes]
<1> DEFINE V == SUBSET Scopes
           step == [x \in Nodes \X V |-> {Scope[x[1]]} \cup x[2]]
<1>1. {} \in V /\ step \in [Nodes \X V -> V]
  BY PlanShape
<1> HIDE DEF V, step
<1>2. PICK g \in [Parts -> V] :
        g[Root] = {} /\ \A n \in Nodes : g[n] = step[<<n, g[Scope[n]]>>]
  BY <1>1, TreeRecursion
<1>3. \A n \in Nodes : Scope[n] \in Parts /\ g[Scope[n]] \in V
  BY <1>2, PlanShape
<1>4. \A n \in Nodes : g[n] = {Scope[n]} \cup g[Scope[n]]
  BY <1>2, <1>3 DEF step
<1> DEFINE f == [n \in Nodes |-> g[n]]
<1>5. \A n \in Nodes : f[n] = {Scope[n]} \cup IF Scope[n] = Root THEN {} ELSE f[Scope[n]]
  BY <1>2, <1>4, PlanShape
<1>6. f = [n \in Nodes |-> {Scope[n]} \cup IF Scope[n] = Root THEN {} ELSE f[Scope[n]]]
  BY <1>5
<1>7. f \in [Nodes -> SUBSET Scopes]
  BY <1>2, PlanShape DEF V
<1> HIDE DEF f
<1> QED
  BY <1>6, <1>7

LEMMA AroundIs ==
  /\ \A n \in Nodes : Around[n] \subseteq Scopes
  /\ \A n \in Nodes : Around[n] = {Scope[n]} \cup IF Scope[n] = Root THEN {} ELSE Around[Scope[n]]
<1>1. Around = [n \in Nodes |-> {Scope[n]} \cup IF Scope[n] = Root THEN {} ELSE Around[Scope[n]]]
  BY AroundExists DEF Around
<1>2. \A n \in Nodes : Around[n] = {Scope[n]} \cup IF Scope[n] = Root THEN {} ELSE Around[Scope[n]]
  BY <1>1
<1>3. ASSUME NEW bad, bad = {n \in Nodes : ~(Around[n] \subseteq Scopes)} PROVE bad = {}
  <2> SUFFICES ASSUME bad # {} PROVE FALSE
    OBVIOUS
  <2>1. PICK n \in bad : Scope[n] \notin bad
    BY <1>3, Outermost
  <2> QED
    BY <1>2, <1>3, <2>1, PlanShape
<1> QED
  BY <1>2, <1>3

\* What is around a scope around a node is around the node, and the way out
\* leads from each scope to the next.
LEMMA AroundFacts ==
  ASSUME NEW n \in Nodes
  PROVE  /\ Scope[n] \in Around[n]
         /\ \A s \in Around[n] :
              /\ s = Root \/ (s \in Nodes /\ Around[s] \subseteq Around[n])
              /\ \E c \in Nodes : c \in {n} \cup Around[n] /\ Scope[c] = s
<1> DEFINE Good(m) ==
             \A s \in Around[m] :
               /\ s = Root \/ (s \in Nodes /\ Around[s] \subseteq Around[m])
               /\ \E c \in Nodes : c \in {m} \cup Around[m] /\ Scope[c] = s
           bad == {m \in Nodes : ~Good(m)}
<1>1. bad = {}
  <2> SUFFICES ASSUME bad # {} PROVE FALSE
    OBVIOUS
  <2>1. PICK m \in bad : Scope[m] \notin bad
    BY Outermost
  <2>2. m \in Nodes /\ Around[m] = {Scope[m]} \cup IF Scope[m] = Root THEN {} ELSE Around[Scope[m]]
    BY AroundIs
  <2>3. CASE Scope[m] = Root
    <3>1. Good(m)
      BY <2>2, <2>3
    <3> QED
      BY <2>1, <3>1
  <2>4. CASE Scope[m] # Root
    <3>1. Scope[m] \in Nodes /\ Good(Scope[m])
      BY <2>1, <2>2, <2>4, PlanShape
    <3>2. Good(m)
      BY <2>2, <2>4, <3>1
    <3> QED
      BY <2>1, <3>2
  <2> QED
    BY <2>3, <2>4
<1>2. Good(n)
  BY <1>1
<1> QED
  BY <1>2, AroundIs

\* The scopes with delays around a node are those around its scope, and its
\* scope if it is one.
LEMMA RoundsFacts ==
  ASSUME NEW n \in Nodes
  PROVE  /\ \A s \in Around[n] \cap Nodes : Rounds(s) \subseteq Rounds(n)
         /\ Rounds(n) \subseteq {Scope[n]} \cup (IF Scope[n] = Root THEN {} ELSE Rounds(Scope[n]))
         /\ Delayed \cap Inside(Scope[n]) # {} => Scope[n] \in Rounds(n)
         /\ Cardinality(Rounds(n)) < 2 => \A r \in Rounds(n) : Rounds(n) = {r}
<1>1. \A s \in Around[n] \cap Nodes : Rounds(s) \subseteq Rounds(n)
  <2>1. \A s \in Around[n] \cap Nodes : Around[s] \subseteq Around[n]
    BY AroundFacts, PlanAssumption
  <2> QED
    BY <2>1 DEF Rounds
<1>2. Rounds(n) \subseteq {Scope[n]} \cup (IF Scope[n] = Root THEN {} ELSE Rounds(Scope[n]))
  BY AroundIs DEF Rounds
<1>3. Delayed \cap Inside(Scope[n]) # {} => Scope[n] \in Rounds(n)
  BY AroundFacts DEF Rounds
<1>4. ASSUME Cardinality(Rounds(n)) < 2, NEW r \in Rounds(n), NEW q \in Rounds(n), r # q PROVE FALSE
  <2>1. IsFiniteSet(Rounds(n))
    <3>1. Rounds(n) \subseteq Scopes
      BY AroundIs DEF Rounds
    <3> QED
      BY <3>1, PlanShape, FS_Subset
  <2>2. Cardinality({r, q}) = 2
    <3>1. IsFiniteSet({r}) /\ Cardinality({r}) = 1
      BY FS_Singleton
    <3>2. Cardinality({r} \cup {q}) = Cardinality({r}) + 1
      BY <1>4, <3>1, FS_AddElement
    <3>3. {r, q} = {r} \cup {q}
      OBVIOUS
    <3> QED
      BY <3>1, <3>2, <3>3
  <2>3. Cardinality({r, q}) <= Cardinality(Rounds(n)) /\ Cardinality(Rounds(n)) \in Nat
    <3>1. {r, q} \in SUBSET Rounds(n)
      OBVIOUS
    <3> QED
      BY <2>1, <3>1, FS_Subset, FS_CardinalityType
  <2> QED
    BY <1>4, <2>2, <2>3
<1> QED
  BY <1>1, <1>2, <1>3, <1>4
-----------------------------------------------------------------------------
\* f is the input of each part, from the values v and the delayed inputs d.
Inputs(f, v, d) ==
  f = [n \in Parts |->
         IF n = Root THEN Null
         ELSE IF n \in Delayed THEN IF d[n] = Undefined THEN Null ELSE d[n]
         ELSE IF Source[n] = Scope[n] THEN f[Scope[n]]
         ELSE v[Source[n]]]

LEMMA InputExists == ASSUME NEW v, NEW d PROVE \E f : Inputs(f, v, d)
<1> DEFINE Of(n, outer) == IF n \in Delayed THEN IF d[n] = Undefined THEN Null ELSE d[n]
                           ELSE IF Source[n] = Scope[n] THEN outer
                           ELSE v[Source[n]]
           V == {Null} \cup {d[n] : n \in Nodes} \cup {v[p] : p \in Parts}
           step == [x \in Nodes \X V |-> Of(x[1], x[2])]
<1>1. Null \in V /\ \A n \in Nodes, x \in V : Of(n, x) \in V
  BY PlanShape
<1>2. step \in [Nodes \X V -> V]
  <2> HIDE DEF V, Of
  <2> QED
    BY <1>1
<1> HIDE DEF V, step
<1>3. PICK f \in [Parts -> V] :
        f[Root] = Null /\ \A n \in Nodes : f[n] = step[<<n, f[Scope[n]]>>]
  BY <1>1, <1>2, TreeRecursion
<1>4. \A n \in Nodes : f[n] = Of(n, f[Scope[n]])
  BY <1>3, PlanShape DEF step
<1>5. f = [n \in Parts |-> IF n = Root THEN Null ELSE Of(n, f[Scope[n]])]
  BY <1>3, <1>4 DEF Parts
<1>6. Inputs(f, v, d)
  BY <1>5 DEF Inputs
<1> QED
  BY <1>6

LEMMA InputOfIs ==
  /\ InputOf[Root] = Null
  /\ \A n \in Nodes :
       InputOf[n] = IF n \in Delayed THEN IF delayed[n] = Undefined THEN Null ELSE delayed[n]
                    ELSE IF Source[n] = Scope[n] THEN InputOf[Scope[n]]
                    ELSE values[Source[n]]
<1>1. \E f : Inputs(f, values, delayed)
  BY InputExists
<1>2. Inputs(InputOf, values, delayed)
  BY <1>1 DEF InputOf, Inputs
<1> QED
  BY <1>2, PlanShape DEF Inputs

LEMMA InputOfNext ==
  /\ InputOf'[Root] = Null
  /\ \A n \in Nodes :
       InputOf'[n] = IF n \in Delayed THEN IF delayed'[n] = Undefined THEN Null ELSE delayed'[n]
                     ELSE IF Source[n] = Scope[n] THEN InputOf'[Scope[n]]
                     ELSE values'[Source[n]]
<1>1. \E f : Inputs(f, values', delayed')
  BY InputExists
<1>2. Inputs(InputOf', values', delayed')
  BY <1>1 DEF InputOf, Inputs
<1> QED
  BY <1>2, PlanShape DEF Inputs

\* A node keeps its input while the nodes on the way out keep theirs.
LEMMA InputStays ==
  ASSUME NEW n \in Nodes,
         \A m \in Nodes : m \in {n} \cup Around[n] =>
           /\ delayed'[m] = delayed[m]
           /\ m \notin Delayed /\ Source[m] # Scope[m] => values'[Source[m]] = values[Source[m]]
  PROVE  InputOf'[n] = InputOf[n]
<1> DEFINE bad == {m \in Nodes : m \in {n} \cup Around[n] /\ InputOf'[m] # InputOf[m]}
<1> SUFFICES ASSUME bad # {} PROVE FALSE
  OBVIOUS
<1>1. PICK m \in bad : Scope[m] \notin bad
  BY Outermost
<1>2. Scope[m] \in Around[n]
  <2>1. Scope[m] \in Around[m]
    BY AroundFacts
  <2>2. m = n \/ Around[m] \subseteq Around[n]
    BY AroundFacts, PlanShape
  <2> QED
    BY <2>1, <2>2
<1>3. InputOf'[Scope[m]] = InputOf[Scope[m]]
  BY <1>1, <1>2, InputOfIs, InputOfNext, PlanShape
<1> QED
  BY <1>1, <1>3, InputOfIs, InputOfNext
-----------------------------------------------------------------------------
NodePhases == {"waiting", "ready", "running", "effect", "done", "failed"}

ScopeTypeOK ==
  /\ phase \in [Parts -> NodePhases]
  /\ generation \in [Scopes -> Nat]
  /\ values = [n \in Parts |-> values[n]]
  /\ delayed = [n \in Nodes |-> delayed[n]]
  /\ receipts \subseteq Nodes \X Nat

\* Nodes are at work in a scope that runs, and only these.
Busy(n) == phase[n] \in {"ready", "running", "effect"}
BusyInRunning == \A n \in Nodes : Busy(n) => phase[Scope[n]] = "running"

\* What is before a node in its scope is over when the node's turn comes.
RankByRank ==
  \A n, m \in Nodes :
    /\ Scope[n] = Scope[m] /\ phase[Scope[n]] = "running"
    /\ Rank[m] < Rank[n] /\ phase[n] # "waiting"
    => Over(m)

\* A node within one scope with delays has the generation of that scope.
Counted ==
  \A n \in Nodes :
    /\ Rounds(n) = {} => generation[Scope[n]] = 0
    /\ \A r \in Scopes :
         Rounds(n) = {r} /\ phase[Scope[n]] = "running" => generation[Scope[n]] = generation[r]

\* The receipts of such a node are of this generation or of earlier ones, and
\* of earlier ones while it, or a scope around it, has yet to run in this one.
Fresh ==
  /\ phase[Root] = "waiting" => receipts = {}
  /\ \A n, a \in Nodes :
       a \in {n} \cup Around[n] /\ Cardinality(Rounds(n)) < 2 /\ phase[Scope[a]] = "running" =>
         \A g \in Nat : <<n, g>> \in receipts =>
           /\ phase[a] \in {"waiting", "ready", "effect"} => g < generation[Scope[a]]
           /\ Rounds(a) # {} => g <= generation[Scope[a]]

ScopeInv == ScopeTypeOK /\ BusyInRunning /\ RankByRank /\ Counted /\ Fresh /\ EffectsArePerformed

\* If a scope that runs is in one that runs, all around a node run if its own
\* scope does.
LEMMA OutwardRun ==
  ASSUME NEW ph, NEW n \in Nodes, ph[Scope[n]] = "running",
         \A m \in Nodes : ph[m] = "running" => ph[Scope[m]] = "running"
  PROVE  \A s \in Around[n] : ph[s] = "running"
<1> DEFINE bad == {m \in Nodes : /\ m \in {n} \cup Around[n]
                                 /\ ph[Scope[m]] = "running"
                                 /\ \E s \in Around[m] : ph[s] # "running"}
<1> SUFFICES ASSUME bad # {} PROVE FALSE
  OBVIOUS
<1>1. PICK m \in bad : Scope[m] \notin bad
  BY Outermost
<1>2. Around[m] = {Scope[m]} \cup IF Scope[m] = Root THEN {} ELSE Around[Scope[m]]
  BY AroundIs
<1>3. Scope[m] # Root /\ \E s \in Around[Scope[m]] : ph[s] # "running"
  BY <1>1, <1>2
<1>4. Scope[m] \in Nodes /\ ph[Scope[Scope[m]]] = "running"
  BY <1>1, <1>3, PlanShape
<1>5. Scope[m] \in Around[n]
  <2>1. Scope[m] \in Around[m]
    BY <1>2
  <2>2. m = n \/ Around[m] \subseteq Around[n]
    BY <1>1, AroundFacts, PlanShape
  <2> QED
    BY <2>1, <2>2
<1> QED
  BY <1>1, <1>3, <1>4, <1>5

LEMMA AllRun ==
  ASSUME BusyInRunning, NEW n \in Nodes, phase[Scope[n]] = "running"
  PROVE  \A s \in Around[n] : phase[s] = "running"
<1>1. \A m \in Nodes : phase[m] = "running" => phase[Scope[m]] = "running"
  BY DEF BusyInRunning, Busy
<1> QED
  BY <1>1, OutwardRun

\* A node x, or the root, is done with, fails, or asks for its effect.
Settles(x, p, v) ==
  /\ p \in {"done", "failed", "effect"}
  /\ phase[x] \in {"ready", "running", "effect"}
  /\ \A n \in Nodes : Scope[n] = x => ~Busy(n)
  /\ p = "effect" => x \in Nodes /\ phase[x] = "ready"
  /\ phase' = [phase EXCEPT ![x] = p]
  /\ values' = [values EXCEPT ![x] = v]
  /\ UNCHANGED <<generation, delayed>>

LEMMA SettlesKeeps ==
  ASSUME ScopeInv, NEW x \in Parts, NEW p, NEW v, Settles(x, p, v)
  PROVE  /\ phase' \in [Parts -> NodePhases] /\ values' = [n \in Parts |-> values'[n]]
         /\ BusyInRunning' /\ RankByRank' /\ Counted'
         /\ receipts' = receipts => Fresh'
         /\ \A n \in Nodes :
              phase[n] # "waiting" /\ phase[Scope[n]] = "running" => InputOf'[n] = InputOf[n]
<1> USE DEF ScopeInv
<1>1. /\ \A n \in Parts : n # x => phase'[n] = phase[n] /\ values'[n] = values[n]
      /\ phase'[x] = p /\ phase'[x] # "running"
      /\ phase' \in [Parts -> NodePhases]
      /\ values' = [n \in Parts |-> values'[n]]
      /\ generation' = generation /\ delayed' = delayed
  BY DEF Settles, ScopeTypeOK, NodePhases
<1>2. \A n \in Nodes : n \in Parts /\ Scope[n] \in Parts /\ n # Root /\ Scope[n] # n
  BY PlanShape
<1>3. \A s \in Parts : phase'[s] = "running" => phase[s] = "running" /\ s # x
  BY <1>1
<1>4. BusyInRunning'
  <2> SUFFICES ASSUME NEW n \in Nodes, phase'[n] \in {"ready", "running", "effect"}
               PROVE  phase'[Scope[n]] = "running"
    BY DEF BusyInRunning, Busy
  <2>1. Busy(n)
    BY <1>1, <1>2 DEF Settles, Busy
  <2>2. Scope[n] # x
    BY <2>1 DEF Settles
  <2> QED
    BY <1>1, <1>2, <2>1, <2>2 DEF BusyInRunning
<1>5. RankByRank'
  <2> SUFFICES ASSUME NEW n \in Nodes, NEW m \in Nodes, Scope[n] = Scope[m], phase'[Scope[n]] = "running",
                      Rank[m] < Rank[n], phase'[n] # "waiting"
               PROVE  phase'[m] \in {"done", "failed"}
    BY DEF RankByRank, Over
  <2>1. phase[Scope[n]] = "running" /\ phase[n] # "waiting"
    BY <1>1, <1>2, <1>3 DEF Settles
  <2>2. phase[m] \in {"done", "failed"}
    BY <2>1 DEF RankByRank, Over
  <2> QED
    BY <1>1, <1>2, <2>2 DEF Settles
<1>6. Counted'
  BY <1>1, <1>2, <1>3 DEF Counted, Rounds
<1>7. ASSUME receipts' = receipts PROVE Fresh'
  <2>1. phase'[Root] = "waiting" => receipts' = {}
    BY <1>1, <1>7, PlanShape DEF Fresh, Settles
  <2>2. ASSUME NEW n \in Nodes, NEW a \in Nodes, a \in {n} \cup Around[n], Cardinality(Rounds(n)) < 2,
               phase'[Scope[a]] = "running", NEW g \in Nat, <<n, g>> \in receipts'
        PROVE  /\ phase'[a] \in {"waiting", "ready", "effect"} => g < generation'[Scope[a]]
               /\ Rounds(a) # {} => g <= generation'[Scope[a]]
    <3>1. phase[Scope[a]] = "running"
      BY <1>2, <1>3, <2>2
    <3>2. phase'[a] \in {"waiting", "ready", "effect"} => phase[a] \in {"waiting", "ready", "effect"}
      BY <1>1, <1>2 DEF Settles
    <3>3. /\ phase[a] \in {"waiting", "ready", "effect"} => g < generation[Scope[a]]
          /\ Rounds(a) # {} => g <= generation[Scope[a]]
      BY <1>7, <2>2, <3>1 DEF Fresh
    <3> QED
      BY <1>1, <3>2, <3>3
  <2> QED
    BY <2>1, <2>2 DEF Fresh, Rounds
<1>8. ASSUME NEW n \in Nodes, phase[n] # "waiting", phase[Scope[n]] = "running"
      PROVE  InputOf'[n] = InputOf[n]
  <2>1. ASSUME NEW m \in Nodes, m \in {n} \cup Around[n], m \notin Delayed, Source[m] # Scope[m]
        PROVE  values'[Source[m]] = values[Source[m]]
    <3>1. phase[m] # "waiting" /\ phase[Scope[m]] = "running"
      <4>1. \A s \in Around[n] : phase[s] = "running"
        BY <1>8, AllRun
      <4>2. m = n \/ (m \in Around[n] /\ Busy(m))
        BY <2>1, <4>1 DEF Busy
      <4> QED
        BY <1>8, <4>2 DEF BusyInRunning, Busy
    <3>2. Source[m] \in Nodes /\ Scope[Source[m]] = Scope[m] /\ Rank[Source[m]] < Rank[m]
      BY <2>1, PlanAssumption DEF Inside
    <3>3. Over(Source[m])
      BY <3>1, <3>2 DEF RankByRank
    <3>4. Source[m] # x
      BY <3>3 DEF Over, Settles
    <3> QED
      BY <1>1, <1>2, <3>2, <3>4
  <2> QED
    BY <1>1, <2>1, InputStays
<1> QED
  BY <1>1, <1>4, <1>5, <1>6, <1>7, <1>8

\* An effect that was executed stays so, and whoever settles without one has no
\* value for it.
LEMMA SettlesEffects ==
  ASSUME ScopeInv, NEW x \in Parts, NEW p, NEW v, Settles(x, p, v),
         performed \subseteq performed',
         x \in Effectful /\ p = "done" /\ v # Undefined /\ Cardinality(Rounds(x)) < 2 =>
           <<x, InputOf[x]>> \in performed'
  PROVE  EffectsArePerformed'
<1> SUFFICES ASSUME NEW n \in Effectful, phase'[n] = "done", values'[n] # Undefined,
                    \A s \in Around[n] : phase'[s] = "running",
                    Cardinality(Rounds(n)) < 2
             PROVE  <<n, InputOf'[n]>> \in performed'
  BY DEF EffectsArePerformed, Rounds
<1>0. n \in Nodes /\ n \in Parts
  BY PlanAssumption, PlanShape
<1>1. /\ \A m \in Parts : m # x => phase'[m] = phase[m] /\ values'[m] = values[m]
      /\ phase'[x] = p /\ phase'[x] # "running" /\ values'[x] = v
  BY DEF ScopeInv, Settles, ScopeTypeOK
<1>2. \A s \in Around[n] : s \in Parts /\ phase[s] = "running"
  BY <1>0, <1>1, AroundIs, PlanAssumption
<1>3. phase[n] # "waiting"
  BY <1>0, <1>1 DEF Settles
<1>4. InputOf'[n] = InputOf[n]
  BY <1>0, <1>2, <1>3, AroundFacts, SettlesKeeps
<1>5. CASE n = x
  BY <1>1, <1>4, <1>5
<1>6. CASE n # x
  BY <1>0, <1>1, <1>2, <1>4, <1>6 DEF ScopeInv, EffectsArePerformed
<1> QED
  BY <1>5, <1>6

\* A scope begins, or begins its next generation.
Begins(s, number) ==
  \/ s = Root /\ phase[Root] = "waiting" /\ number = 0
  \/ s \in Nodes /\ phase[s] = "ready" /\ number = generation[Scope[s]]
  \/ /\ phase[s] = "running" /\ \A n \in Inside(s) : ~Busy(n)
     /\ Delayed \cap Inside(s) # {} /\ number = generation[s] + 1

LEMMA BeginKeeps ==
  ASSUME ScopeInv, NEW s \in Scopes, NEW number, NEW left,
         Begins(s, number), Begin(s, number, left), UNCHANGED <<receipts, performed>>
  PROVE  ScopeInv'
<1> USE DEF ScopeInv
<1>a. \A n \in Nodes : n \in Parts /\ Scope[n] \in Parts /\ Scope[n] \in Scopes /\ n # Root /\ Scope[n] # n
  BY PlanShape
<1>b. s \in Parts /\ s \notin Inside(s)
  BY <1>a, PlanShape DEF Parts, Inside
<1>1. number \in Nat
  BY <1>a DEF Begins, ScopeTypeOK
<1>2. /\ generation' = [generation EXCEPT ![s] = number]
      /\ generation' \in [Scopes -> Nat] /\ generation'[s] = number
      /\ \A t \in Scopes : t # s => generation'[t] = generation[t]
  BY <1>1 DEF Begin, ScopeTypeOK
<1>3. /\ phase' \in [Parts -> NodePhases]
      /\ \A n \in Inside(s) : phase'[n] \in {"ready", "waiting"}
      /\ phase'[s] = "running"
      /\ \A n \in Parts : n \notin Inside(s) /\ n # s => phase'[n] = phase[n]
  <2>1. phase' = [n \in Parts |->
                    IF n \in NextOf(Inside(s)) THEN "ready"
                    ELSE IF n \in Inside(s) THEN "waiting"
                    ELSE IF n = s THEN "running" ELSE phase[n]]
    BY DEF Begin
  <2>2. NextOf(Inside(s)) \subseteq Inside(s) /\ Inside(s) \subseteq Parts
    BY <1>a DEF NextOf, Inside
  <2> QED
    BY <1>b, <2>1, <2>2 DEF ScopeTypeOK, NodePhases
<1>4. /\ values' = [n \in Parts |-> values'[n]] /\ delayed' = [n \in Nodes |-> delayed'[n]]
      /\ \A n \in Nodes : n \notin Inside(s) => values'[n] = values[n] /\ delayed'[n] = delayed[n]
  <2>1. /\ values' = [n \in Parts |-> IF n \in Inside(s) THEN Undefined ELSE values[n]]
        /\ delayed' = [n \in Nodes |-> IF n \in Inside(s) THEN left[n] ELSE delayed[n]]
    BY DEF Begin
  <2> QED
    BY <2>1, <1>a
<1>5. ScopeTypeOK'
  BY <1>2, <1>3, <1>4 DEF ScopeTypeOK
<1>6. \A n \in Inside(s) : ~Busy(n)
  BY <1>a DEF Begins, BusyInRunning, Busy, Inside
<1>7. s \in Nodes => phase[Scope[s]] = "running"
  BY <1>a DEF Begins, BusyInRunning, Busy
\* What ran before and does not lie in s runs on, and nothing else.
<1>8. \A t \in Parts : phase'[t] = "running" => t \notin Inside(s) /\ (t = s \/ phase[t] = "running")
  BY <1>3
<1>9. BusyInRunning'
  <2> SUFFICES ASSUME NEW n \in Nodes, phase'[n] \in {"ready", "running", "effect"}
               PROVE  phase'[Scope[n]] = "running"
    BY DEF BusyInRunning, Busy
  <2>1. CASE n \in Inside(s)
    BY <1>3, <2>1 DEF Inside
  <2>2. CASE n = s
    <3>1. Scope[s] \notin Inside(s)
      BY <1>6, <1>7, <2>2 DEF Busy
    <3> QED
      BY <1>3, <1>7, <1>a, <2>2, <3>1
  <2>3. CASE n \notin Inside(s) /\ n # s
    <3>1. Busy(n) /\ phase[Scope[n]] = "running"
      BY <1>3, <1>a, <2>3 DEF Busy, BusyInRunning
    <3>2. Scope[n] \notin Inside(s)
      BY <1>6, <3>1 DEF Busy
    <3> QED
      BY <1>3, <1>a, <3>1, <3>2
  <2> QED
    BY <2>1, <2>2, <2>3
<1>10. RankByRank'
  <2> SUFFICES ASSUME NEW n \in Nodes, NEW m \in Nodes, Scope[n] = Scope[m], phase'[Scope[n]] = "running",
                      Rank[m] < Rank[n], phase'[n] # "waiting"
               PROVE  phase'[m] \in {"done", "failed"}
    BY DEF RankByRank, Over
  <2>1. CASE n \in Inside(s)
    <3>1. n \in NextOf(Inside(s))
      <4>1. phase' = [i \in Parts |->
                        IF i \in NextOf(Inside(s)) THEN "ready"
                        ELSE IF i \in Inside(s) THEN "waiting"
                        ELSE IF i = s THEN "running" ELSE phase[i]]
        BY DEF Begin
      <4> QED
        BY <1>a, <2>1, <4>1
    <3>2. m \in Inside(s) /\ Rank[n] <= Rank[m]
      BY <2>1, <3>1 DEF NextOf, Inside
    <3> QED
      BY <3>2, PlanShape
  <2>2. CASE n \notin Inside(s)
    <3>1. m \notin Inside(s) /\ Scope[n] # s
      BY <2>2 DEF Inside
    <3>2. phase[Scope[n]] = "running" /\ phase[n] # "waiting"
      <4>1. n = s => phase[n] \in {"ready", "running"}
        BY <1>a DEF Begins
      <4> QED
        BY <1>3, <1>8, <1>a, <2>2, <3>1, <4>1
    <3>3. Over(m)
      BY <3>2 DEF RankByRank
    <3>4. m # s
      BY <3>3, <1>a DEF Begins, Over
    <3> QED
      BY <1>3, <1>a, <3>1, <3>3, <3>4 DEF Over
  <2> QED
    BY <2>1, <2>2
\* Nobody within s runs.
<1>11. ASSUME NEW n \in Nodes, phase'[Scope[n]] = "running", s \in Around[n]
       PROVE  Scope[n] = s
  <2>1. PICK c \in Nodes : c \in {n} \cup Around[n] /\ Scope[c] = s
    BY <1>11, AroundFacts
  <2>2. \A t \in Around[n] : phase'[t] = "running"
    <3>1. \A m \in Nodes : phase'[m] = "running" => phase'[Scope[m]] = "running"
      BY <1>9 DEF BusyInRunning, Busy
    <3> QED
      BY <1>11, <3>1, OutwardRun
  <2>3. c \notin Around[n]
    BY <1>3, <2>1, <2>2 DEF Inside
  <2> QED
    BY <2>1, <2>3
<1>12. Counted'
  <2>1. ASSUME NEW n \in Nodes, Rounds(n) = {} PROVE generation'[Scope[n]] = 0
    <3>1. CASE Scope[n] = s
      <4>1. Delayed \cap Inside(s) = {}
        BY <2>1, <3>1, RoundsFacts
      <4>2. CASE s = Root
        BY <1>2, <1>a, <3>1, <4>1, <4>2 DEF Begins
      <4>3. CASE s # Root
        <5>1. s \in Nodes /\ Rounds(s) = {}
          BY <2>1, <3>1, <4>3, AroundFacts, RoundsFacts, PlanShape
        <5> QED
          BY <1>2, <3>1, <4>1, <5>1 DEF Counted, Begins
      <4> QED
        BY <4>2, <4>3
    <3>2. CASE Scope[n] # s
      BY <1>2, <1>a, <2>1, <3>2 DEF Counted
    <3> QED
      BY <3>1, <3>2
  <2>2. ASSUME NEW n \in Nodes, NEW r \in Scopes, Rounds(n) = {r}, phase'[Scope[n]] = "running"
        PROVE  generation'[Scope[n]] = generation'[r]
    <3>1. CASE Scope[n] = s /\ r # s
      <4>1. Delayed \cap Inside(s) = {}
        BY <2>2, <3>1, RoundsFacts
      <4>2. s # Root /\ s \in Nodes
        BY <2>2, <3>1, RoundsFacts, PlanShape
      <4>3. Rounds(s) = {r}
        <5>1. Rounds(s) \subseteq {r}
          BY <2>2, <3>1, <4>2, AroundFacts, RoundsFacts
        <5>2. {r} \subseteq {s} \cup Rounds(s)
          BY <2>2, <3>1, <4>2, RoundsFacts
        <5> QED
          BY <3>1, <5>1, <5>2
      <4>4. number = generation[Scope[s]]
        BY <4>1, <4>2, <1>a DEF Begins
      <4>5. generation[Scope[s]] = generation[r]
        BY <1>7, <4>2, <4>3 DEF Counted
      <4> QED
        BY <1>2, <3>1, <4>4, <4>5
    <3>2. CASE Scope[n] # s
      <4>1. r # s
        BY <1>11, <2>2, <3>2 DEF Rounds
      <4>2. phase[Scope[n]] = "running"
        BY <1>8, <1>a, <2>2, <3>2
      <4> QED
        BY <1>2, <1>a, <2>2, <3>2, <4>1, <4>2 DEF Counted
    <3> QED
      BY <3>1, <3>2
  <2> QED
    BY <2>1, <2>2 DEF Counted, Rounds
<1>13. Fresh'
  <2>1. phase'[Root] = "waiting" => receipts' = {}
    <3>1. Root \in Parts /\ Root \notin Inside(s)
      BY PlanShape DEF Inside
    <3> QED
      BY <1>3, <3>1 DEF Fresh
  <2>2. ASSUME NEW n \in Nodes, NEW a \in Nodes, a \in {n} \cup Around[n], Cardinality(Rounds(n)) < 2,
               phase'[Scope[a]] = "running", NEW g \in Nat, <<n, g>> \in receipts'
        PROVE  /\ phase'[a] \in {"waiting", "ready", "effect"} => g < generation'[Scope[a]]
               /\ Rounds(a) # {} => g <= generation'[Scope[a]]
    <3>0. <<n, g>> \in receipts
      BY <2>2
    <3>1. CASE Scope[a] = s
      <4>1. s \in Around[n]
        <5>1. a = n \/ Around[a] \subseteq Around[n]
          BY <2>2, AroundFacts, PlanShape
        <5> QED
          BY <3>1, <5>1, AroundFacts
      <4>2. g < number
        <5>1. CASE s = Root /\ phase[Root] = "waiting"
          BY <3>0, <5>1 DEF Fresh
        <5>2. CASE s \in Nodes /\ phase[s] = "ready" /\ number = generation[Scope[s]]
          BY <1>7, <2>2, <3>0, <4>1, <5>2 DEF Fresh
        <5>3. CASE phase[s] = "running" /\ Delayed \cap Inside(s) # {} /\ number = generation[s] + 1
          <6>1. Rounds(a) # {}
            BY <3>1, <5>3, RoundsFacts
          <6>2. g <= generation[s]
            BY <2>2, <3>0, <3>1, <5>3, <6>1 DEF Fresh
          <6> QED
            BY <5>3, <6>2 DEF ScopeTypeOK
        <5> QED
          BY <5>1, <5>2, <5>3 DEF Begins
      <4> QED
        BY <1>1, <1>2, <3>1, <4>2
    <3>2. CASE Scope[a] # s
      <4>1. phase[Scope[a]] = "running" /\ a \notin Inside(s)
        BY <1>8, <1>a, <2>2, <3>2 DEF Inside
      <4>2. phase'[a] \in {"waiting", "ready", "effect"} => phase[a] \in {"waiting", "ready", "effect"}
        BY <1>3, <1>a, <4>1
      <4>3. /\ phase[a] \in {"waiting", "ready", "effect"} => g < generation[Scope[a]]
            /\ Rounds(a) # {} => g <= generation[Scope[a]]
        BY <2>2, <3>0, <4>1 DEF Fresh
      <4> QED
        BY <1>2, <1>a, <3>2, <4>2, <4>3
    <3> QED
      BY <3>1, <3>2
  <2> QED
    BY <2>1, <2>2 DEF Fresh, Rounds
<1>14. EffectsArePerformed'
  <2> SUFFICES ASSUME NEW n \in Effectful, phase'[n] = "done", values'[n] # Undefined,
                      \A t \in Around[n] : phase'[t] = "running",
                      Cardinality(Rounds(n)) < 2
               PROVE  <<n, InputOf'[n]>> \in performed'
    BY DEF EffectsArePerformed, Rounds
  <2>0. n \in Nodes /\ Scope[n] \in Around[n]
    BY PlanAssumption, AroundFacts
  <2>1. n \notin Inside(s) /\ n # s /\ phase[n] = "done" /\ values[n] # Undefined
    <3>1. n \notin Inside(s)
      BY <1>3
    <3> QED
      BY <1>3, <1>4, <1>a, <2>0, <3>1
  <2>2. s \notin Around[n]
    BY <1>11, <2>0, <2>1 DEF Inside
  <2>3. \A t \in Around[n] : phase[t] = "running"
    <3>1. \A t \in Around[n] : t \in Parts
      BY <2>0, AroundIs, PlanAssumption
    <3> QED
      BY <1>8, <2>2, <3>1
  <2>4. InputOf'[n] = InputOf[n]
    <3>1. \A m \in Nodes : m \in {n} \cup Around[n] => m \notin Inside(s) /\ Scope[m] # s
      <4>1. \A m \in Nodes : m \in Around[n] => m \notin Inside(s)
        BY <1>3
      <4> QED
        BY <2>1, <4>1 DEF Inside
    <3>2. \A m \in Nodes : m \notin Delayed /\ Source[m] # Scope[m] => Source[m] \in Inside(Scope[m])
      BY PlanAssumption
    <3>3. \A m \in Nodes : m \in {n} \cup Around[n] =>
            /\ delayed'[m] = delayed[m]
            /\ m \notin Delayed /\ Source[m] # Scope[m] => values'[Source[m]] = values[Source[m]]
      BY <1>4, <3>1, <3>2 DEF Inside
    <3> QED
      BY <2>0, <3>3, InputStays
  <2> QED
    BY <2>0, <2>1, <2>3, <2>4 DEF EffectsArePerformed
<1> QED
  BY <1>5, <1>9, <1>10, <1>12, <1>13, <1>14

\* The next rank of a scope.
LEMMA NextRankKeeps ==
  ASSUME ScopeInv, NEW s \in Scopes, NextRank(s)
  PROVE  ScopeInv'
<1> USE DEF ScopeInv
<1>a. \A n \in Nodes : n \in Parts /\ Scope[n] \in Parts /\ n # Root /\ Rank[n] \in Nat
  BY PlanShape
<1>1. /\ phase[s] = "running" /\ \A n \in Inside(s) : Over(n) \/ phase[n] = "waiting"
      /\ phase' = [n \in Parts |-> IF n \in NextOf(Waiting(s)) THEN "ready" ELSE phase[n]]
      /\ generation' = generation /\ values' = values /\ delayed' = delayed
      /\ receipts' = receipts /\ performed' = performed
  BY DEF NextRank, RankSettled
<1> DEFINE next == NextOf(Waiting(s))
<1>2. \A n \in next : n \in Nodes /\ Scope[n] = s /\ phase[n] = "waiting"
  BY DEF NextOf, Waiting, Inside
<1>3. /\ phase' \in [Parts -> NodePhases]
      /\ \A n \in Parts : phase'[n] = IF n \in next THEN "ready" ELSE phase[n]
      /\ \A n \in Parts : phase'[n] = "running" <=> phase[n] = "running"
  BY <1>1, <1>2, <1>a DEF ScopeTypeOK, NodePhases
<1>4. ScopeTypeOK'
  BY <1>1, <1>3 DEF ScopeTypeOK
<1>5. BusyInRunning'
  BY <1>1, <1>2, <1>3, <1>a DEF BusyInRunning, Busy
<1>6. RankByRank'
  <2> SUFFICES ASSUME NEW n \in Nodes, NEW m \in Nodes, Scope[n] = Scope[m], phase'[Scope[n]] = "running",
                      Rank[m] < Rank[n], phase'[n] # "waiting"
               PROVE  phase'[m] \in {"done", "failed"}
    BY DEF RankByRank, Over
  <2>1. CASE n \in next
    <3>1. m \in Inside(s) /\ m \notin Waiting(s)
      BY <1>2, <1>a, <2>1 DEF NextOf, Inside
    <3>2. Over(m)
      BY <1>1, <3>1 DEF Waiting
    <3> QED
      BY <1>2, <1>3, <1>a, <3>2 DEF Over
  <2>2. CASE n \notin next
    <3>1. Over(m)
      BY <1>3, <1>a, <2>2 DEF RankByRank
    <3> QED
      BY <1>2, <1>3, <1>a, <3>1 DEF Over
  <2> QED
    BY <2>1, <2>2
<1>7. Counted'
  BY <1>1, <1>3, <1>a DEF Counted, Rounds
<1>8. Fresh'
  <2>1. phase'[Root] = "waiting" => receipts' = {}
    BY <1>1, <1>2, <1>3, PlanShape DEF Fresh
  <2>2. \A a \in Nodes : phase'[a] \in {"waiting", "ready", "effect"} => phase[a] \in {"waiting", "ready", "effect"}
    BY <1>2, <1>3, <1>a
  <2> QED
    BY <1>1, <1>3, <1>a, <2>1, <2>2 DEF Fresh, Rounds
<1>9. EffectsArePerformed'
  <2> SUFFICES ASSUME NEW n \in Effectful, phase'[n] = "done", values'[n] # Undefined,
                      \A t \in Around[n] : phase'[t] = "running",
                      Cardinality(Rounds(n)) < 2
               PROVE  <<n, InputOf'[n]>> \in performed'
    BY DEF EffectsArePerformed, Rounds
  <2>1. n \in Nodes
    BY PlanAssumption
  <2>2. phase[n] = "done" /\ \A t \in Around[n] : phase[t] = "running"
    BY <1>3, <1>a, <2>1, AroundIs, PlanAssumption
  <2>3. InputOf'[n] = InputOf[n]
    BY <1>1, <2>1, InputStays
  <2> QED
    BY <1>1, <2>2, <2>3 DEF EffectsArePerformed
<1> QED
  BY <1>4, <1>5, <1>6, <1>7, <1>8, <1>9

\* A node that settles without the arbiter.
LEMMA QuietlyKeeps ==
  ASSUME ScopeInv, NEW x \in Parts, NEW p, NEW v, Settles(x, p, v), UNCHANGED <<receipts, performed>>,
         x \in Effectful => p # "done" \/ v = Undefined
  PROVE  ScopeInv'
<1>1. ScopeTypeOK'
  BY SettlesKeeps DEF ScopeInv, ScopeTypeOK, Settles
<1>2. EffectsArePerformed'
  BY SettlesEffects
<1> QED
  BY <1>1, <1>2, SettlesKeeps DEF ScopeInv

\* The arbiter: a node that has one scope with delays around it, or none, never
\* meets a receipt; one that has an effect executed leaves a receipt of this
\* generation.
LEMMA PerformKeeps ==
  ASSUME ScopeInv, NEW x \in Nodes, Perform(x)
  PROVE  ScopeInv'
<1> USE DEF ScopeInv
<1>a. x \in Parts /\ Scope[x] \in Scopes /\ Scope[x] \in Around[x]
  BY PlanShape, AroundFacts
<1>1. phase[x] = "effect" /\ UNCHANGED <<generation, delayed>>
  BY DEF Perform
<1>2. phase[Scope[x]] = "running"
  BY <1>1 DEF BusyInRunning, Busy
<1>3. \A n \in Nodes : Scope[n] = x => ~Busy(n)
  BY <1>1 DEF BusyInRunning
<1>4. generation[Scope[x]] \in Nat
  BY <1>a DEF ScopeTypeOK
<1>5. CASE Key(x) \in receipts /\ Returned(x, values[x]) /\ UNCHANGED <<receipts, performed>>
  <2>1. Settles(x, "done", values[x])
    BY <1>1, <1>3, <1>5 DEF Settles, Returned
  <2>2. ~(Cardinality(Rounds(x)) < 2)
    BY <1>1, <1>2, <1>4, <1>5 DEF Fresh, Key
  <2>3. EffectsArePerformed'
    BY <1>a, <1>5, <2>1, <2>2, SettlesEffects
  <2>4. ScopeTypeOK'
    BY <1>a, <1>5, <2>1, SettlesKeeps DEF ScopeTypeOK, Settles
  <2> QED
    BY <1>a, <1>5, <2>1, <2>3, <2>4, SettlesKeeps
<1>6. CASE /\ receipts' = receipts \cup {Key(x)}
           /\ performed' = performed \cup {<<x, InputOf[x]>>}
           /\ Returned(x, values[x])
  <2>1. Settles(x, "done", values[x])
    BY <1>1, <1>3, <1>6 DEF Settles, Returned
  <2>2. EffectsArePerformed'
    BY <1>a, <1>6, <2>1, SettlesEffects
  <2>3. /\ phase' \in [Parts -> NodePhases] /\ values' = [n \in Parts |-> values'[n]]
        /\ BusyInRunning' /\ RankByRank' /\ Counted'
    BY <1>a, <2>1, SettlesKeeps
  <2>4. ScopeTypeOK'
    BY <1>1, <1>4, <1>6, <2>3 DEF ScopeTypeOK, Key
  <2>5. /\ phase'[x] = "done" /\ \A n \in Parts : n # x => phase'[n] = phase[n]
    BY <1>a, <2>1 DEF Settles, ScopeTypeOK
  <2>6. \A s \in Around[x] : phase[s] = "running"
    BY <1>2, AllRun
  <2>7. Fresh'
    <3>1. phase'[Root] # "waiting"
      <4>1. Root \in Around[x]
        <5> DEFINE bad == {m \in Nodes : Root \notin Around[m]}
        <5>1. bad = {}
          <6> SUFFICES ASSUME bad # {} PROVE FALSE
            OBVIOUS
          <6>1. PICK m \in bad : Scope[m] \notin bad
            BY Outermost
          <6> QED
            BY <6>1, AroundIs, PlanShape
        <5> QED
          BY <5>1
      <4> QED
        BY <2>5, <2>6, <4>1, PlanShape
    <3>2. ASSUME NEW n \in Nodes, NEW a \in Nodes, a \in {n} \cup Around[n], Cardinality(Rounds(n)) < 2,
                 phase'[Scope[a]] = "running", NEW g \in Nat, <<n, g>> \in receipts'
          PROVE  /\ phase'[a] \in {"waiting", "ready", "effect"} => g < generation'[Scope[a]]
                 /\ Rounds(a) # {} => g <= generation'[Scope[a]]
      <4>0. a \in Parts /\ Scope[a] \in Parts /\ Scope[a] \in Scopes
        BY PlanShape
      <4>1. phase[Scope[a]] = "running"
        BY <2>5, <3>2, <4>0
      <4>2. CASE <<n, g>> \in receipts
        <5>1. /\ phase[a] \in {"waiting", "ready", "effect"} => g < generation[Scope[a]]
              /\ Rounds(a) # {} => g <= generation[Scope[a]]
          BY <3>2, <4>1, <4>2 DEF Fresh
        <5> QED
          BY <1>1, <2>5, <4>0, <5>1
      <4>3. CASE n = x /\ g = generation[Scope[x]]
        <5>1. phase'[a] \notin {"waiting", "ready", "effect"}
          BY <2>5, <2>6, <3>2, <4>0, <4>3
        <5>2. ASSUME Rounds(a) # {} PROVE generation[Scope[a]] = generation[Scope[x]]
          <6>1. PICK r \in Rounds(a) : TRUE
            BY <5>2
          <6>2. Rounds(a) \subseteq Rounds(x)
            BY <3>2, <4>3, RoundsFacts
          <6>3. Rounds(x) = {r} /\ Rounds(a) = {r}
            BY <3>2, <4>3, <6>1, <6>2, RoundsFacts
          <6>4. r \in Scopes
            BY <6>1, AroundIs DEF Rounds
          <6> QED
            BY <1>2, <4>1, <6>3, <6>4 DEF Counted
        <5> QED
          BY <1>1, <1>4, <4>3, <5>1, <5>2
      <4> QED
        BY <1>6, <3>2, <4>2, <4>3 DEF Key
    <3> QED
      BY <3>1, <3>2 DEF Fresh, Rounds
  <2> QED
    BY <2>2, <2>3, <2>4, <2>7
<1>7. CASE Throws(x) /\ UNCHANGED <<receipts, performed>>
  <2>1. Settles(x, "failed", Undefined)
    BY <1>1, <1>3, <1>7 DEF Settles, Throws
  <2> QED
    BY <1>a, <1>7, <2>1, QuietlyKeeps
<1> QED
  BY <1>5, <1>6, <1>7 DEF Perform

LEMMA ScopeStepKeeps == ScopeInv /\ ScopeStep => ScopeInv'
<1> SUFFICES ASSUME ScopeInv, ScopeStep PROVE ScopeInv'
  OBVIOUS
<1> USE DEF ScopeInv
<1>a. \A n \in Nodes : n \in Parts
  BY PlanShape
<1>b. \A s \in Scopes : s \in Parts /\ s \notin Effectful
  BY PlanAssumption
<1>1. CASE EnterFrame
  <2>1. Root \in Scopes /\ Begins(Root, 0) /\ Begin(Root, 0, Nothing) /\ UNCHANGED <<receipts, performed>>
    BY <1>1, PlanAssumption DEF EnterFrame, Begins
  <2> QED
    BY <2>1, BeginKeeps
<1>2. ASSUME NEW n \in Nodes, LacksInput(n) PROVE ScopeInv'
  <2>1. Settles(n, "done", Undefined)
    BY <1>2 DEF LacksInput, Returned, Settles, BusyInRunning
  <2> QED
    BY <1>2, <1>a, <2>1, QuietlyKeeps DEF LacksInput
<1>3. ASSUME NEW n \in Nodes, EnterScope(n) PROVE ScopeInv'
  <2>1. /\ n \in Scopes /\ Begins(n, generation[Scope[n]]) /\ Begin(n, generation[Scope[n]], Nothing)
        /\ UNCHANGED <<receipts, performed>>
    BY <1>3 DEF EnterScope, Begins, Runs
  <2> QED
    BY <2>1, BeginKeeps
<1>4. ASSUME NEW n \in Nodes, Execute(n) PROVE ScopeInv'
  <2>1. phase[n] = "ready" /\ \A m \in Nodes : Scope[m] = n => ~Busy(m)
    BY <1>4 DEF Execute, Runs, BusyInRunning
  <2>2. CASE Throws(n)
    <3>1. Settles(n, "failed", Undefined)
      BY <1>4, <2>1, <2>2 DEF Execute, Settles, Throws
    <3> QED
      BY <1>4, <1>a, <3>1, QuietlyKeeps DEF Execute
  <2>3. ASSUME NEW value, values' = [values EXCEPT ![n] = value],
               phase' = [phase EXCEPT ![n] = IF n \in Effectful THEN "effect" ELSE "done"]
        PROVE  ScopeInv'
    <3>1. CASE n \in Effectful
      <4>1. Settles(n, "effect", value)
        BY <1>4, <2>1, <2>3, <3>1 DEF Execute, Settles
      <4> QED
        BY <1>4, <1>a, <4>1, QuietlyKeeps DEF Execute
    <3>2. CASE n \notin Effectful
      <4>1. Settles(n, "done", value)
        BY <1>4, <2>1, <2>3, <3>2 DEF Execute, Settles
      <4> QED
        BY <1>4, <1>a, <3>2, <4>1, QuietlyKeeps DEF Execute
    <3> QED
      BY <3>1, <3>2
  <2> QED
    BY <1>4, <2>2, <2>3 DEF Execute
<1>5. ASSUME NEW n \in Nodes, Perform(n) PROVE ScopeInv'
  BY <1>5, PerformKeeps
<1>6. ASSUME NEW s \in Scopes, NextRank(s) PROVE ScopeInv'
  BY <1>6, NextRankKeeps
<1>7. ASSUME NEW s \in Scopes, EndScope(s) PROVE ScopeInv'
  <2>1. /\ phase[s] = "running" /\ \A n \in Inside(s) : ~Busy(n)
        /\ UNCHANGED <<receipts, performed>>
    BY <1>7 DEF EndScope, RankSettled, Busy, Over
  <2>2. \A n \in Nodes : Scope[n] = s => ~Busy(n)
    BY <2>1 DEF Inside
  <2>3. CASE Throws(s) /\ UNCHANGED <<generation, delayed>>
    <3>1. Settles(s, "failed", Undefined)
      BY <2>1, <2>2, <2>3 DEF Settles, Throws
    <3> QED
      BY <1>b, <2>1, <3>1, QuietlyKeeps
  <2>4. CASE Changed(s) /\ Begin(s, generation[s] + 1, Left(s))
    <3>1. Begins(s, generation[s] + 1)
      BY <2>1, <2>4 DEF Begins, Changed
    <3> QED
      BY <2>1, <2>4, <3>1, BeginKeeps
  <2>5. CASE Returned(s, values[Result[s]]) /\ UNCHANGED <<generation, delayed>>
    <3>1. Settles(s, "done", values[Result[s]])
      BY <2>1, <2>2, <2>5 DEF Settles, Returned
    <3> QED
      BY <1>b, <2>1, <3>1, QuietlyKeeps
  <2> QED
    BY <1>7, <2>3, <2>4, <2>5 DEF EndScope
<1> QED
  BY <1>1, <1>2, <1>3, <1>4, <1>5, <1>6, <1>7 DEF ScopeStep

\* Between two frames nothing has run.
LEMMA AllWaitInv ==
  ASSUME phase' = AllWait, generation' = Zero, values' = NoValues, delayed' = Nothing, receipts' = {}
  PROVE  ScopeInv'
<1>1. \A n \in Nodes : n \in Parts /\ Scope[n] \in Parts /\ Scope[n] \in Scopes
  BY PlanShape
<1>2. \A n \in Parts : phase'[n] = "waiting"
  BY DEF AllWait
<1>3. ScopeTypeOK'
  BY DEF ScopeTypeOK, AllWait, Zero, NoValues, Nothing, NodePhases
<1>4. BusyInRunning' /\ RankByRank'
  BY <1>1, <1>2 DEF BusyInRunning, Busy, RankByRank
<1>5. Counted' /\ Fresh'
  BY <1>1, <1>2 DEF Counted, Fresh, Zero
<1>6. EffectsArePerformed'
  BY <1>1, <1>2, PlanAssumption DEF EffectsArePerformed
<1> QED
  BY <1>3, <1>4, <1>5, <1>6 DEF ScopeInv

LEMMA ScopeInitInv == ScopeInit => ScopeInv
<1> SUFFICES ASSUME ScopeInit PROVE ScopeInv
  OBVIOUS
<1>1. \A n \in Nodes : n \in Parts /\ Scope[n] \in Parts /\ Scope[n] \in Scopes
  BY PlanShape
<1>2. \A n \in Parts : phase[n] = "waiting"
  BY DEF ScopeInit, AllWait
<1>3. ScopeTypeOK
  BY DEF ScopeInit, ScopeTypeOK, AllWait, Zero, NoValues, Nothing, NodePhases
<1>4. BusyInRunning /\ RankByRank
  BY <1>1, <1>2 DEF BusyInRunning, Busy, RankByRank
<1>5. Counted /\ Fresh
  BY <1>1, <1>2 DEF ScopeInit, Counted, Fresh, Zero
<1>6. EffectsArePerformed
  BY <1>1, <1>2, PlanAssumption DEF EffectsArePerformed
<1> QED
  BY <1>3, <1>4, <1>5, <1>6 DEF ScopeInv

LEMMA ScopeNextKeeps == ScopeInv /\ [ScopeNext]_executing => ScopeInv'
<1> SUFFICES ASSUME ScopeInv, [ScopeNext]_executing PROVE ScopeInv'
  OBVIOUS
<1>1. CASE UNCHANGED execution
  <2>1. \A n \in Nodes : InputOf'[n] = InputOf[n]
    BY <1>1, InputStays DEF execution
  <2>2. EffectsArePerformed'
    BY <1>1, <2>1, PlanAssumption DEF ScopeInv, EffectsArePerformed, Rounds, execution
  <2>3. ScopeTypeOK' /\ BusyInRunning' /\ RankByRank' /\ Counted' /\ Fresh'
    BY <1>1 DEF ScopeInv, ScopeTypeOK, BusyInRunning, Busy, RankByRank, Over, Counted, Fresh, Rounds, execution
  <2> QED
    BY <2>2, <2>3 DEF ScopeInv
<1>2. CASE ScopeStep
  BY <1>2, ScopeStepKeeps
<1>3. CASE EndFrame
  BY <1>3, AllWaitInv DEF EndFrame
<1> QED
  BY <1>1, <1>2, <1>3 DEF ScopeNext, AroundFrame, ExecutionStep, executing

\* Whatever the plan: a node that counts as executed has had its effect executed
\* for the input it had, unless two scopes with delays lie around it
\* (session-manager.ts:130-177, effect-arbiter.ts:9-20).
THEOREM EffectsHappen == ScopeSpec => []EffectsArePerformed
<1>1. ScopeInv => EffectsArePerformed
  BY DEF ScopeInv
<1> QED
  BY <1>1, ScopeInitInv, ScopeNextKeeps, PTL DEF ScopeSpec
=============================================================================
