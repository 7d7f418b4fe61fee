--------------------------- MODULE HostCommands ---------------------------
(***************************************************************************)
(* The commands of the element plugins, as the host runs them: runCommand  *)
(* in src/pip-editor/relation-host/relation-host-actions.ts.  The commands *)
(* of one workspace wait for each other along a chain of promises, whose   *)
(* end is kept in commandQueues; everything else that publishes a graph    *)
(* (apply-patch, creators, undo, redo, persisted results) goes past them.  *)
(*                                                                         *)
(* A graph is its revision: a command computes a patch for the revision it *)
(* was given, and commitPatch takes it only at that revision.              *)
(***************************************************************************)
EXTENDS HostWorkspaces, Naturals

CONSTANTS
  Commands,      \* the requests, one call of runCommand each
  Known,         \* those whose commandId is registered
  NoCommand,     \* no promise
  MaxRevision    \* bound: publications past the queue stop here

ASSUME CommandsAssumption ==
  /\ Known \subseteq Commands
  /\ NoCommand \notin Commands
  /\ MaxRevision \in Nat

VARIABLES
  revision,   \* graph.revision of each
  of,         \* the workspace each command is for
  pc,         \* where each command is
  behind,     \* `previous`: the command each one waits for
  queue,      \* commandQueues
  based,      \* the revision each command was given
  returned,   \* the calls whose `finally` has run
  asked,      \* history: how many requests came
  place,      \* history: the number of each request, 0 before it comes
  disturbed   \* history: the commands past which something was published

vars == <<open, revision, of, pc, behind, queue, based, returned, asked, place,
          disturbed>>

Settled == {"committed", "failed"}

IsSettled(c) == pc[c] \in Settled

Running(w) == {c \in Commands : of[c] = w /\ pc[c] = "running"}
-----------------------------------------------------------------------------
Init ==
  /\ open = Workspaces
  /\ revision = [w \in Workspaces |-> 0]
  /\ of \in [Commands -> Workspaces]
  /\ pc = [c \in Commands |-> "idle"]
  /\ behind = [c \in Commands |-> NoCommand]
  /\ queue = [w \in Workspaces |-> NoCommand]
  /\ based = [c \in Commands |-> 0]
  /\ returned = {}
  /\ asked = 0
  /\ place = [c \in Commands |-> 0]
  /\ disturbed = {}

\* The request arrives; its workspace may be closed already.
Request(c) ==
  /\ pc[c] = "idle"
  /\ pc' = [pc EXCEPT ![c] = "queued"]
  /\ behind' = [behind EXCEPT ![c] = queue[of[c]]]
  /\ queue' = [queue EXCEPT ![of[c]] = c]
  /\ asked' = asked + 1
  /\ place' = [place EXCEPT ![c] = asked + 1]
  /\ UNCHANGED <<open, revision, of, based, returned, disturbed>>

\* Mutant: a command runs as soon as it is asked for.
Unqueued(c) == TRUE

\* previous.catch(() => undefined): the one before has settled, either way.
Ready(c) == behind[c] # NoCommand => IsSettled(behind[c])

\* Mutant: a command whose workspace is gone waits for it.
BeginOpened(c) ==
  /\ pc[c] = "queued"
  /\ Ready(c)
  /\ of[c] \in open
  /\ IF c \in Known
     THEN /\ pc' = [pc EXCEPT ![c] = "running"]
          /\ based' = [based EXCEPT ![c] = revision[of[c]]]
     ELSE /\ pc' = [pc EXCEPT ![c] = "failed"]
          /\ UNCHANGED based
  /\ UNCHANGED <<open, revision, of, behind, queue, returned, asked, place, disturbed>>

\* The command reads the latest graph and starts computing, or throws.
Begin(c) ==
  /\ pc[c] = "queued"
  /\ Ready(c)
  /\ IF of[c] \in open /\ c \in Known
     THEN /\ pc' = [pc EXCEPT ![c] = "running"]
          /\ based' = [based EXCEPT ![c] = revision[of[c]]]
     ELSE /\ pc' = [pc EXCEPT ![c] = "failed"]
          /\ UNCHANGED based
  /\ UNCHANGED <<open, revision, of, behind, queue, returned, asked, place, disturbed>>

\* Its patch is there and commitPatch takes it.
Commit(c) ==
  /\ pc[c] = "running"
  /\ of[c] \in open
  /\ based[c] = revision[of[c]]
  /\ revision' = [revision EXCEPT ![of[c]] = @ + 1]
  /\ pc' = [pc EXCEPT ![c] = "committed"]
  /\ UNCHANGED <<open, of, behind, queue, based, returned, asked, place, disturbed>>

\* The command throws, its workspace is gone, or its patch is refused: it is
\* stale or the graph it makes is invalid.
Fail(c) ==
  /\ pc[c] = "running"
  /\ pc' = [pc EXCEPT ![c] = "failed"]
  /\ UNCHANGED <<open, revision, of, behind, queue, based, returned, asked, place, disturbed>>

\* Mutant: the end of the chain is forgotten although others follow.
Forgotten(c) == NoCommand

\* commandQueues after the `finally` of a call: its own promise is forgotten.
QueueWithout(c) == IF queue[of[c]] = c THEN NoCommand ELSE queue[of[c]]

\* The code behind `await queued` runs.
Return(c) ==
  /\ IsSettled(c)
  /\ c \notin returned
  /\ returned' = returned \cup {c}
  /\ queue' = [queue EXCEPT ![of[c]] = QueueWithout(c)]
  /\ UNCHANGED <<open, revision, of, pc, behind, based, asked, place, disturbed>>

\* A patch, a creation or a step through the history is published.
Publish(w) ==
  /\ w \in open
  /\ revision[w] < MaxRevision
  /\ revision' = [revision EXCEPT ![w] = @ + 1]
  /\ disturbed' = disturbed \cup Running(w)
  /\ UNCHANGED <<open, of, pc, behind, queue, based, returned, asked, place>>

\* closeNow removes the workspace from the store.
Close(w) ==
  /\ w \in open
  /\ Remove(w)
  /\ UNCHANGED <<revision, of, pc, behind, queue, based, returned, asked, place, disturbed>>

Next ==
  \/ \E c \in Commands : Request(c)
  \/ \E c \in Commands : Begin(c)
  \/ \E c \in Commands : Commit(c)
  \/ \E c \in Commands : Fail(c)
  \/ \E c \in Commands : Return(c)
  \/ \E w \in Workspaces : Publish(w)
  \/ \E w \in Workspaces : Close(w)

\* Continuations run.  A command's own function need not return.
Spec ==
  /\ Init
  /\ [][Next]_vars
  /\ \A c \in Commands : WF_vars(Begin(c)) /\ WF_vars(Return(c))

\* The functions of the commands of one workspace return.
Returning(w) ==
  \A c \in Commands : WF_vars(of[c] = w /\ (Commit(c) \/ Fail(c)))
-----------------------------------------------------------------------------
TypeOK ==
  /\ open \subseteq Workspaces
  /\ revision \in [Workspaces -> Nat]
  /\ of \in [Commands -> Workspaces]
  /\ pc \in [Commands -> {"idle", "queued", "running"} \cup Settled]
  /\ behind \in [Commands -> Commands \cup {NoCommand}]
  /\ queue \in [Workspaces -> Commands \cup {NoCommand}]
  /\ based \in [Commands -> Nat]
  /\ returned \subseteq {c \in Commands : IsSettled(c)}
  /\ asked \in Nat
  /\ place \in [Commands -> Nat]
  /\ disturbed \subseteq Commands

\* "Commands of one workspace must run serially" (relation-host-actions.ts:41):
\* when a command has begun, all that were asked for before it in its
\* workspace have settled, although the end of the chain is forgotten from
\* time to time and the next command then starts a new one.
SerialInOrder ==
  \A c, d \in Commands :
    /\ of[c] = of[d]
    /\ 0 < place[d] /\ place[d] < place[c]
    /\ pc[c] \notin {"idle", "queued"}
    => IsSettled(d)

\* "... so that two asynchronous commands never compute conflicting patches
\* from the same revision" (relation-host-actions.ts:43): the graph a command
\* is computing for is the published one, unless something that is not a
\* command was published meanwhile.
CommandsNeverConflict ==
  \A c \in Commands :
    pc[c] = "running" /\ c \notin disturbed => based[c] = revision[of[c]]

\* A workspace that has no command left has no entry in commandQueues, so
\* closed workspaces leave nothing behind (relation-host-actions.ts:79).
QueuesAreForgotten ==
  \A w \in Workspaces :
    queue[w] # NoCommand => queue[w] \notin returned /\ of[queue[w]] = w

\* Every command settles when those of its workspace return, also when the
\* ones before it fail and when its workspace is closed; the commands of
\* other workspaces need not return (relation-host-actions.ts:52-54).
EveryCommandSettles ==
  \A w \in Workspaces :
    Returning(w) =>
      \A c \in Commands : (of[c] = w /\ pc[c] = "queued") ~> IsSettled(c)
=============================================================================
