------------------------ MODULE HostWorkspacesProofs ------------------------
(***************************************************************************)
(* Proofs about the commands of the open workspaces (HostCommands) and     *)
(* about exporting and closing them (WorkspaceClose), for any workspaces,  *)
(* commands, graphs and exports.                                           *)
(*                                                                         *)
(* SerialInOrder is not inductive: that the command a new one waits for    *)
(* has settled says nothing of those further ahead, and commandQueues may  *)
(* have no entry at all.  What holds the commands in line is the chain:    *)
(* whoever is ahead and has not settled is the command one waits for or is *)
(* ahead of it in turn (Chained), and the entry of commandQueues is the    *)
(* last command, or absent when all have settled (EndOfChain).             *)
(*                                                                         *)
(* Neither property of closing is inductive: both turn on what an export   *)
(* that is still being built is going to write.  An export that is older   *)
(* than its workspace has raced it or was blind to it, or another one has  *)
(* written the newer graph already (OldExportsRaced).                      *)
(***************************************************************************)
EXTENDS HostCommands, WorkspaceClose, TLAPS

Ahead(d, c) == of[c] = of[d] /\ 0 < place[d] /\ place[d] < place[c]

\* The same after the step.
AheadNext(d, c) == of'[c] = of'[d] /\ 0 < place'[d] /\ place'[d] < place'[c]

\* A request has its number, and no two have the same.
Numbered ==
  /\ \A c \in Commands : IF pc[c] = "idle" THEN place[c] = 0 ELSE 0 < place[c] /\ place[c] <= asked
  /\ \A c, d \in Commands : place[c] = place[d] /\ 0 < place[c] => c = d

Chained ==
  /\ \A c \in Commands : behind[c] # NoCommand => Ahead(behind[c], c)
  /\ \A c, d \in Commands :
       Ahead(d, c) /\ ~IsSettled(d) =>
         behind[c] # NoCommand /\ (behind[c] = d \/ Ahead(d, behind[c]))

EndOfChain ==
  \A w \in Workspaces : \A d \in Commands :
    of[d] = w /\ 0 < place[d] =>
      IF queue[w] = NoCommand THEN IsSettled(d) ELSE d = queue[w] \/ Ahead(d, queue[w])

EndIsAsked ==
  \A w \in Workspaces : queue[w] # NoCommand => of[queue[w]] = w /\ 0 < place[queue[w]]

Order == Numbered /\ Chained /\ EndOfChain /\ EndIsAsked /\ SerialInOrder

Inv == TypeOK /\ Order /\ CommandsNeverConflict /\ QueuesAreForgotten
-----------------------------------------------------------------------------
\* The initial states satisfy the invariant.
LEMMA InitInv == Init => Inv
<1> SUFFICES ASSUME Init PROVE Inv
  OBVIOUS
<1> USE CommandsAssumption DEF Init
<1>1. TypeOK
  BY DEF TypeOK, Settled, IsSettled
<1>2. Numbered /\ Chained /\ EndOfChain /\ EndIsAsked
  BY DEF Numbered, Chained, EndOfChain, EndIsAsked, Ahead
<1>3. SerialInOrder /\ CommandsNeverConflict /\ QueuesAreForgotten
  BY DEF SerialInOrder, CommandsNeverConflict, QueuesAreForgotten
<1> QED
  BY <1>1, <1>2, <1>3 DEF Inv, Order

\* Every step keeps the types.
LEMMA TypeStep == TypeOK /\ [Next]_vars => TypeOK'
<1> SUFFICES ASSUME TypeOK, [Next]_vars PROVE TypeOK'
  OBVIOUS
<1> USE CommandsAssumption DEF TypeOK, Settled, IsSettled
<1>1. ASSUME NEW c \in Commands, Request(c) PROVE TypeOK'
  BY <1>1 DEF Request
<1>2. ASSUME NEW c \in Commands, Begin(c) PROVE TypeOK'
  BY <1>2 DEF Begin
<1>3. ASSUME NEW c \in Commands, Commit(c) PROVE TypeOK'
  BY <1>3 DEF Commit
<1>4. ASSUME NEW c \in Commands, Fail(c) PROVE TypeOK'
  BY <1>4 DEF Fail
<1>5. ASSUME NEW c \in Commands, Return(c) PROVE TypeOK'
  BY <1>5 DEF Return, QueueWithout
<1>6. ASSUME NEW w \in Workspaces, Publish(w) PROVE TypeOK'
  BY <1>6 DEF Publish, Running
<1>7. ASSUME NEW w \in Workspaces, Close(w) PROVE TypeOK'
  BY <1>7 DEF Close, Remove
<1>8. CASE UNCHANGED vars
  BY <1>8 DEF vars
<1> QED
  BY <1>1, <1>2, <1>3, <1>4, <1>5, <1>6, <1>7, <1>8 DEF Next
-----------------------------------------------------------------------------
\* A request goes to the end of the chain.
LEMMA RequestOrder ==
  ASSUME TypeOK, Order, NEW c \in Commands, Request(c)
  PROVE  Order'
<1> USE CommandsAssumption DEF TypeOK, IsSettled
<1>1. /\ pc[c] = "idle" /\ place[c] = 0 /\ of' = of /\ asked' = asked + 1
      /\ pc' = [pc EXCEPT ![c] = "queued"]
      /\ place' = [place EXCEPT ![c] = asked + 1]
      /\ behind' = [behind EXCEPT ![c] = queue[of[c]]]
      /\ queue' = [queue EXCEPT ![of[c]] = c]
  BY DEF Request, Order, Numbered
<1>2. \A d \in Commands : place[d] <= asked
  BY DEF Order, Numbered
<1>3. \A d, e \in Commands : e # c /\ d # c => (AheadNext(d, e) <=> Ahead(d, e))
  BY <1>1 DEF Ahead, AheadNext
<1>4. \A d \in Commands : d # c => ~AheadNext(c, d) /\ (AheadNext(d, c) <=> of[c] = of[d] /\ 0 < place[d])
  BY <1>1, <1>2 DEF Ahead, AheadNext
<1>5. \A d \in Commands : d # c => (IsSettled(d)' <=> IsSettled(d))
  BY <1>1
<1>6. Numbered'
  BY <1>1, <1>2 DEF Order, Numbered
<1>7. Chained'
  <2>0. ~AheadNext(c, c)
    BY <1>1 DEF Ahead, AheadNext
  <2>1. \A d \in Commands : d # c /\ behind[d] # NoCommand => behind[d] # c
    BY <1>1 DEF Order, Chained, Ahead
  <2>2. queue[of[c]] # NoCommand => queue[of[c]] # c /\ AheadNext(queue[of[c]], c)
    BY <1>1, <1>4 DEF Order, EndIsAsked
  <2>4. ASSUME NEW d \in Commands, behind'[d] # NoCommand PROVE AheadNext(behind'[d], d)
    <3>1. CASE d = c
      BY <1>1, <2>2, <2>4, <3>1
    <3>2. CASE d # c
      <4>1. behind'[d] = behind[d] /\ behind[d] # c /\ Ahead(behind[d], d)
        BY <1>1, <2>1, <2>4, <3>2 DEF Order, Chained
      <4> QED
        BY <4>1, <1>1, <1>3, <2>4, <3>2
    <3> QED
      BY <3>1, <3>2
  <2>5. ASSUME NEW e \in Commands, NEW d \in Commands, e # c, AheadNext(d, e), ~IsSettled(d)'
        PROVE  behind'[e] # NoCommand /\ (behind'[e] = d \/ AheadNext(d, behind'[e]))
    <3>1. d # c /\ Ahead(d, e) /\ ~IsSettled(d) /\ behind'[e] = behind[e]
      BY <1>1, <1>3, <1>4, <1>5, <2>5
    <3>2. behind[e] # NoCommand /\ behind[e] # c /\ (behind[e] = d \/ Ahead(d, behind[e]))
      BY <3>1, <2>1, <2>5 DEF Order, Chained
    <3> QED
      BY <3>1, <3>2, <1>1 DEF Ahead, AheadNext
  <2>6. ASSUME NEW d \in Commands, AheadNext(d, c), ~IsSettled(d)'
        PROVE  behind'[c] # NoCommand /\ (behind'[c] = d \/ AheadNext(d, behind'[c]))
    <3>1. d # c /\ of[c] = of[d] /\ 0 < place[d] /\ ~IsSettled(d)
      BY <1>4, <1>5, <2>0, <2>6
    <3>2. /\ queue[of[c]] # NoCommand
          /\ d = queue[of[c]] \/ Ahead(d, queue[of[c]])
      BY <3>1 DEF Order, EndOfChain
    <3> QED
      BY <3>1, <3>2, <2>2, <1>1 DEF Ahead, AheadNext
  <2> QED
    BY <2>4, <2>5, <2>6 DEF Chained, Ahead, AheadNext
<1>8. EndOfChain' /\ EndIsAsked'
  <2>1. EndIsAsked'
    BY <1>1 DEF Order, EndIsAsked
  <2>2. ASSUME NEW w \in Workspaces, NEW d \in Commands, of'[d] = w, 0 < place'[d], w = of[c]
        PROVE  d = queue'[w] \/ AheadNext(d, queue'[w])
    BY <2>2, <1>1, <1>2 DEF Ahead, AheadNext
  <2>3. ASSUME NEW w \in Workspaces, NEW d \in Commands, of'[d] = w, 0 < place'[d], w # of[c]
        PROVE  IF queue'[w] = NoCommand THEN IsSettled(d)' ELSE d = queue'[w] \/ AheadNext(d, queue'[w])
    <3>1. d # c /\ queue'[w] = queue[w] /\ of[d] = w /\ 0 < place[d]
      BY <2>3, <1>1
    <3>2. IF queue[w] = NoCommand THEN IsSettled(d) ELSE d = queue[w] \/ Ahead(d, queue[w])
      BY <3>1 DEF Order, EndOfChain
    <3>3. queue[w] # NoCommand => queue[w] # c
      BY <3>1, <1>1 DEF Order, EndIsAsked
    <3> QED
      BY <3>1, <3>2, <3>3, <1>1, <1>5 DEF Ahead, AheadNext
  <2> QED
    BY <2>1, <2>2, <2>3, <1>1 DEF EndOfChain, Ahead, AheadNext
<1>9. SerialInOrder'
  <2>1. ASSUME NEW e \in Commands, NEW d \in Commands, AheadNext(d, e),
               pc'[e] \notin {"idle", "queued"}
        PROVE  IsSettled(d)'
    <3>1. e # c /\ d # c /\ pc[e] = pc'[e] /\ Ahead(d, e)
      BY <2>1, <1>1, <1>3, <1>4
    <3> QED
      BY <3>1, <2>1, <1>5 DEF Order, SerialInOrder, Ahead
  <2> QED
    BY <2>1 DEF SerialInOrder, AheadNext
<1> QED
  BY <1>6, <1>7, <1>8, <1>9 DEF Order

\* A command that begins finds all before it settled.
LEMMA BeginOrder ==
  ASSUME TypeOK, Order, NEW c \in Commands, Begin(c)
  PROVE  Order'
<1> USE CommandsAssumption DEF TypeOK, IsSettled
<1>1. /\ pc[c] = "queued"
      /\ behind[c] # NoCommand => IsSettled(behind[c])
      /\ \/ pc' = [pc EXCEPT ![c] = "running"]
         \/ pc' = [pc EXCEPT ![c] = "failed"]
      /\ UNCHANGED <<of, behind, queue, place, asked>>
  BY DEF Begin, Ready
<1>2. \A d \in Commands : IsSettled(d) => IsSettled(d)'
  BY <1>1 DEF Settled
<1>3. Numbered' /\ EndIsAsked'
  BY <1>1 DEF Order, Numbered, EndIsAsked
<1>4. Chained'
  BY <1>1, <1>2 DEF Order, Chained, Ahead
<1>5. EndOfChain'
  BY <1>1, <1>2 DEF Order, EndOfChain, Ahead
<1>6. ASSUME NEW d \in Commands, Ahead(d, c) PROVE IsSettled(d)
  <2> SUFFICES ASSUME ~IsSettled(d) PROVE FALSE
    OBVIOUS
  <2>1. behind[c] # NoCommand /\ (behind[c] = d \/ Ahead(d, behind[c]))
    BY <1>6 DEF Order, Chained
  <2>2. behind[c] \in Commands /\ IsSettled(behind[c]) /\ Ahead(d, behind[c])
    BY <2>1, <1>1
  <2> QED
    BY <2>2 DEF Order, SerialInOrder, Ahead, Settled
<1>7. SerialInOrder'
  BY <1>1, <1>2, <1>6 DEF Order, SerialInOrder, Ahead
<1> QED
  BY <1>3, <1>4, <1>5, <1>7 DEF Order

\* A command that settles leaves the chain as it is.
LEMMA SettleOrder ==
  ASSUME TypeOK, Order, NEW c \in Commands, Commit(c) \/ Fail(c)
  PROVE  Order'
<1> USE CommandsAssumption DEF TypeOK, IsSettled
<1>1. /\ pc[c] = "running"
      /\ \/ pc' = [pc EXCEPT ![c] = "committed"]
         \/ pc' = [pc EXCEPT ![c] = "failed"]
      /\ UNCHANGED <<of, behind, queue, place, asked>>
  BY DEF Commit, Fail
<1>2. \A d \in Commands : IsSettled(d) => IsSettled(d)'
  BY <1>1 DEF Settled
<1>3. Numbered' /\ EndIsAsked'
  BY <1>1 DEF Order, Numbered, EndIsAsked
<1>4. Chained'
  BY <1>1, <1>2 DEF Order, Chained, Ahead
<1>5. EndOfChain'
  BY <1>1, <1>2 DEF Order, EndOfChain, Ahead
<1>6. SerialInOrder'
  BY <1>1, <1>2 DEF Order, SerialInOrder
<1> QED
  BY <1>3, <1>4, <1>5, <1>6 DEF Order

\* The end of the chain is forgotten only when everything has settled.
LEMMA ReturnOrder ==
  ASSUME TypeOK, Order, NEW c \in Commands, Return(c)
  PROVE  Order'
<1> USE CommandsAssumption DEF TypeOK, IsSettled
<1>1. /\ IsSettled(c)
      /\ queue' = [queue EXCEPT ![of[c]] = QueueWithout(c)]
      /\ UNCHANGED <<of, pc, behind, place, asked>>
  BY DEF Return
<1>2. Numbered' /\ Chained' /\ SerialInOrder'
  BY <1>1 DEF Order, Numbered, Chained, SerialInOrder, Ahead
<1>3. EndIsAsked'
  BY <1>1 DEF Order, EndIsAsked, QueueWithout
<1>4. ASSUME NEW w \in Workspaces, NEW d \in Commands, of[d] = w, 0 < place[d]
      PROVE  IF queue'[w] = NoCommand THEN IsSettled(d) ELSE d = queue'[w] \/ Ahead(d, queue'[w])
  <2>1. IF queue[w] = NoCommand THEN IsSettled(d) ELSE d = queue[w] \/ Ahead(d, queue[w])
    BY <1>4 DEF Order, EndOfChain
  <2>2. CASE w = of[c] /\ queue[w] = c
    <3>1. queue'[w] = NoCommand
      BY <1>1, <2>2 DEF QueueWithout
    <3>2. d = c \/ Ahead(d, c)
      BY <2>1, <2>2
    <3>3. IsSettled(d)
      BY <3>2, <1>1 DEF Order, SerialInOrder, Ahead, Settled
    <3> QED
      BY <3>1, <3>3
  <2>3. CASE ~(w = of[c] /\ queue[w] = c)
    BY <2>1, <2>3, <1>1 DEF QueueWithout
  <2> QED
    BY <2>2, <2>3
<1>5. EndOfChain'
  BY <1>1, <1>4 DEF EndOfChain, Ahead
<1> QED
  BY <1>2, <1>3, <1>5 DEF Order

\* Publications and closed workspaces do not touch the chain.
LEMMA OtherOrder ==
  ASSUME Order, UNCHANGED <<of, pc, behind, queue, place, asked>>
  PROVE  Order'
BY DEF Order, Numbered, Chained, EndOfChain, EndIsAsked, SerialInOrder, Ahead, IsSettled

\* Every step keeps the commands in line.
LEMMA OrderStep == TypeOK /\ Order /\ [Next]_vars => Order'
<1> SUFFICES ASSUME TypeOK, Order, [Next]_vars PROVE Order'
  OBVIOUS
<1>1. ASSUME NEW w \in Workspaces, Publish(w) \/ Close(w) PROVE Order'
  BY <1>1, OtherOrder DEF Publish, Close, Remove
<1>2. CASE UNCHANGED vars
  BY <1>2, OtherOrder DEF vars
<1> QED
  BY <1>1, <1>2, RequestOrder, BeginOrder, SettleOrder, ReturnOrder DEF Next
-----------------------------------------------------------------------------
\* Two commands of one workspace never run at the same time.
LEMMA OneRuns ==
  ASSUME TypeOK, Order, NEW c \in Commands, NEW d \in Commands,
         pc[c] = "running", pc[d] = "running", of[c] = of[d]
  PROVE  c = d
<1>1. 0 < place[c] /\ 0 < place[d] /\ place[c] \in Nat /\ place[d] \in Nat
  BY DEF Order, Numbered, TypeOK
<1>2. place[c] = place[d] => c = d
  BY <1>1 DEF Order, Numbered
<1>3. ~(place[c] < place[d]) /\ ~(place[d] < place[c])
  BY <1>1 DEF Order, SerialInOrder, IsSettled, Settled
<1> QED
  BY <1>1, <1>2, <1>3

\* A command that nothing passes computes for the published graph.
LEMMA ConflictStep ==
  TypeOK /\ Order /\ CommandsNeverConflict /\ [Next]_vars => CommandsNeverConflict'
<1> SUFFICES ASSUME TypeOK, Order, CommandsNeverConflict, [Next]_vars
             PROVE  CommandsNeverConflict'
  OBVIOUS
<1> USE CommandsAssumption DEF TypeOK, CommandsNeverConflict
<1>1. ASSUME NEW c \in Commands, Request(c) PROVE CommandsNeverConflict'
  BY <1>1 DEF Request
<1>2. ASSUME NEW c \in Commands, Begin(c) PROVE CommandsNeverConflict'
  BY <1>2 DEF Begin
<1>3. ASSUME NEW c \in Commands, Commit(c) PROVE CommandsNeverConflict'
  <2>1. \A d \in Commands : pc[d] = "running" /\ d # c => of[d] # of[c]
    BY <1>3, OneRuns DEF Commit
  <2> QED
    BY <1>3, <2>1 DEF Commit
<1>4. ASSUME NEW c \in Commands, Fail(c) PROVE CommandsNeverConflict'
  BY <1>4 DEF Fail
<1>5. ASSUME NEW c \in Commands, Return(c) PROVE CommandsNeverConflict'
  BY <1>5 DEF Return
<1>6. ASSUME NEW w \in Workspaces, Publish(w) PROVE CommandsNeverConflict'
  BY <1>6 DEF Publish, Running
<1>7. ASSUME NEW w \in Workspaces, Close(w) PROVE CommandsNeverConflict'
  BY <1>7 DEF Close, Remove
<1>8. CASE UNCHANGED vars
  BY <1>8 DEF vars
<1> QED
  BY <1>1, <1>2, <1>3, <1>4, <1>5, <1>6, <1>7, <1>8 DEF Next

\* An entry of commandQueues belongs to a call that has not returned.
LEMMA ForgottenStep ==
  TypeOK /\ QueuesAreForgotten /\ [Next]_vars => QueuesAreForgotten'
<1> SUFFICES ASSUME TypeOK, QueuesAreForgotten, [Next]_vars
             PROVE  QueuesAreForgotten'
  OBVIOUS
<1> USE CommandsAssumption DEF TypeOK, QueuesAreForgotten
<1>1. ASSUME NEW c \in Commands, Request(c) PROVE QueuesAreForgotten'
  BY <1>1 DEF Request, IsSettled, Settled
<1>2. ASSUME NEW c \in Commands, Begin(c) \/ Commit(c) \/ Fail(c) PROVE QueuesAreForgotten'
  BY <1>2 DEF Begin, Commit, Fail
<1>3. ASSUME NEW c \in Commands, Return(c) PROVE QueuesAreForgotten'
  BY <1>3 DEF Return, QueueWithout
<1>4. ASSUME NEW w \in Workspaces, Publish(w) \/ Close(w) PROVE QueuesAreForgotten'
  BY <1>4 DEF Publish, Close, Remove
<1>5. CASE UNCHANGED vars
  BY <1>5 DEF vars
<1> QED
  BY <1>1, <1>2, <1>3, <1>4, <1>5 DEF Next

\* The invariant holds in every reachable state.
LEMMA Invariant == Spec => []Inv
<1>1. Inv /\ [Next]_vars => Inv'
  BY TypeStep, OrderStep, ConflictStep, ForgottenStep DEF Inv
<1> QED
  BY InitInv, <1>1, PTL DEF Spec
-----------------------------------------------------------------------------
\* The state of runCommand keeps its type.
THEOREM TypeCorrect == Spec => []TypeOK
BY Invariant, PTL DEF Inv

\* The commands of one workspace run one after another, in the order in which
\* they were requested (relation-host-actions.ts:41).
THEOREM Serial == Spec => []SerialInOrder
BY Invariant, PTL DEF Inv, Order

\* No command's patch is stale because of another command
\* (relation-host-actions.ts:43).
THEOREM NoConflicts == Spec => []CommandsNeverConflict
BY Invariant, PTL DEF Inv

\* commandQueues keeps no entry of a call that has returned
\* (relation-host-actions.ts:79).
THEOREM Forgetful == Spec => []QueuesAreForgotten
BY Invariant, PTL DEF Inv
-----------------------------------------------------------------------------
\* Exporting and closing.

OldExportsRaced ==
  \A e \in Exports :
    export[e].phase = "building" /\ export[e].graph # graph[export[e].of] =>
      \/ export[e].of \in raced \cup blind
      \/ graph[export[e].of] \in written[export[e].of]

CloseInv == CloseTypeOK /\ OldExportsRaced /\ SavedIsWritten /\ LossNeedsRace
-----------------------------------------------------------------------------
\* The initial states satisfy the invariant.
LEMMA InitCloseInv == InitClose => CloseInv
<1> SUFFICES ASSUME InitClose PROVE CloseInv
  OBVIOUS
<1>1. CloseTypeOK
  BY CloseAssumption DEF InitClose, CloseTypeOK, Store, Phases
<1>2. \A e \in Exports : export[e].phase = "idle"
  BY DEF InitClose
<1>3. OldExportsRaced
  BY <1>2 DEF OldExportsRaced
<1>4. SavedIsWritten /\ LossNeedsRace
  BY DEF InitClose, SavedIsWritten, LossNeedsRace
<1> QED
  BY <1>1, <1>3, <1>4 DEF CloseInv

\* Every step keeps the types, and what was closed or discarded stays closed.
LEMMA CloseTypeStep == CloseTypeOK /\ [NextClose]_closeVars => CloseTypeOK'
<1> SUFFICES ASSUME CloseTypeOK, [NextClose]_closeVars PROVE CloseTypeOK'
  OBVIOUS
<1> USE CloseAssumption DEF CloseTypeOK, Phases
<1>1. ASSUME NEW w \in Workspaces, NEW g \in Graphs, Edit(w, g) PROVE CloseTypeOK'
  BY <1>1 DEF Edit
<1>2. CASE Render
  BY <1>2 DEF Render, Store
<1>3. ASSUME NEW e \in Exports, NEW w \in Workspaces, NEW closing \in BOOLEAN,
             StartExport(e, w, closing)
      PROVE CloseTypeOK'
  BY <1>3 DEF StartExport, Unseen
<1>4. ASSUME NEW e \in Exports, FailExport(e) PROVE CloseTypeOK'
  BY <1>4 DEF FailExport
<1>5. ASSUME NEW e \in Exports, Finish(e) PROVE CloseTypeOK'
  BY <1>5 DEF Finish, CloseNow, Remove
<1>6. ASSUME NEW w \in Workspaces, RequestClose(w) PROVE CloseTypeOK'
  BY <1>6 DEF RequestClose, CloseNow, Remove, Unseen
<1>7. CASE Discard
  BY <1>7 DEF Discard, CloseNow, Remove
<1>8. CASE Cancel
  BY <1>8 DEF Cancel
<1>9. CASE UNCHANGED closeVars
  BY <1>9 DEF closeVars
<1> QED
  BY <1>1, <1>2, <1>3, <1>4, <1>5, <1>6, <1>7, <1>8, <1>9 DEF NextClose

\* Every step keeps the invariant: an edit marks the exports it overtakes, an
\* export that starts is that of the graph or blind, and one that ends writes
\* what is marked as saved unless it was overtaken.
LEMMA CloseStep == CloseInv /\ [NextClose]_closeVars => CloseInv'
<1> SUFFICES ASSUME CloseInv, [NextClose]_closeVars PROVE OldExportsRaced' /\ SavedIsWritten' /\ LossNeedsRace'
  BY CloseTypeStep DEF CloseInv
<1> USE DEF CloseInv, CloseTypeOK, OldExportsRaced, SavedIsWritten, LossNeedsRace
<1>1. ASSUME NEW w \in Workspaces, NEW g \in Graphs, Edit(w, g)
      PROVE OldExportsRaced' /\ SavedIsWritten' /\ LossNeedsRace'
  BY <1>1 DEF Edit, Building
<1>2. CASE Render
  BY <1>2 DEF Render
<1>3. ASSUME NEW e \in Exports, NEW w \in Workspaces, NEW closing \in BOOLEAN,
             StartExport(e, w, closing)
      PROVE OldExportsRaced' /\ SavedIsWritten' /\ LossNeedsRace'
  BY <1>3 DEF StartExport, Unseen
<1>4. ASSUME NEW e \in Exports, FailExport(e)
      PROVE OldExportsRaced' /\ SavedIsWritten' /\ LossNeedsRace'
  BY <1>4 DEF FailExport
<1>5. ASSUME NEW e \in Exports, Finish(e)
      PROVE OldExportsRaced' /\ SavedIsWritten' /\ LossNeedsRace'
  <2> DEFINE w == export[e].of
  <2>1. w \in Workspaces
    OBVIOUS
  <2>2. written' = [written EXCEPT ![w] = @ \cup {export[e].graph}]
    BY <1>5 DEF Finish
  <2>3. open' \in {open, open \ {w}} /\ UNCHANGED <<graph, discarded, blind>>
    BY <1>5 DEF Finish, CloseNow, Remove
  <2>4. \A v \in Workspaces : v \in raced \cup blind /\ v \notin raced' \cup blind' =>
          graph[v] \in written'[v]
    BY <1>5, <2>1, <2>2 DEF Finish
  <2>5. w \notin raced' \cup blind' => graph[w] \in written'[w]
    BY <1>5, <2>1, <2>2, <2>4 DEF Finish
  <2>6. OldExportsRaced'
    BY <1>5, <2>1, <2>2, <2>3, <2>4 DEF Finish
  <2>7. SavedIsWritten'
    <3> SUFFICES ASSUME NEW v \in open', v \notin raced' \cup blind' PROVE saved'[v] \in written'[v]
      OBVIOUS
    <3>1. CASE v = w
      BY <1>5, <2>3, <2>5, <3>1 DEF Finish
    <3>2. CASE v # w
      BY <1>5, <2>1, <2>2, <2>3, <3>2 DEF Finish
    <3> QED
      BY <3>1, <3>2
  <2>8. LossNeedsRace'
    <3> SUFFICES ASSUME NEW v \in Workspaces, v \notin open' \cup discarded' \cup raced' \cup blind'
                 PROVE graph'[v] \in written'[v]
      OBVIOUS
    <3>1. CASE v = w
      BY <2>3, <2>5, <3>1
    <3>2. CASE v # w
      BY <1>5, <2>1, <2>2, <2>3, <2>4, <3>2 DEF Finish
    <3> QED
      BY <3>1, <3>2
  <2> QED
    BY <2>6, <2>7, <2>8
<1>6. ASSUME NEW w \in Workspaces, RequestClose(w)
      PROVE OldExportsRaced' /\ SavedIsWritten' /\ LossNeedsRace'
  BY <1>6 DEF RequestClose, CloseNow, Remove, Unseen
<1>7. CASE Discard
  BY <1>7 DEF Discard, CloseNow, Remove
<1>8. CASE Cancel
  BY <1>8 DEF Cancel
<1>9. CASE UNCHANGED closeVars
  BY <1>9 DEF closeVars
<1> QED
  BY <1>1, <1>2, <1>3, <1>4, <1>5, <1>6, <1>7, <1>8, <1>9 DEF NextClose

\* The invariant holds in every reachable state.
LEMMA CloseInvariance == SpecClose => []CloseInv
<1> QED
  BY InitCloseInv, CloseStep, PTL DEF SpecClose

\* A graph that counts as saved is in a file, however many exports of how many
\* workspaces run at once (relation-host.tsx:110-112).
THEOREM MarkedGraphsAreWritten == SpecClose => []SavedIsWritten
  BY CloseInvariance, PTL DEF CloseInv

\* Only "discard", an edit behind an export or one behind the last render loses
\* a graph, with any number of exports and workspaces (relation-host.tsx:193-202).
THEOREM ClosingLosesNothing == SpecClose => []LossNeedsRace
  BY CloseInvariance, PTL DEF CloseInv
=============================================================================
