--------------------------- MODULE ResourceWorkspace ---------------------------
(***************************************************************************)
(* A split workspace on disk: intent.pip with the index of the resources,  *)
(* the directory of the resources, and the session that works on both.     *)
(*                                                                         *)
(* A call of the session is cut at its awaits: it calls the store, the     *)
(* store changes the directory, and the session goes on with its index.    *)
(* The store is a Node directory (a temporary file and a rename for each   *)
(* write) or one of the browser (a handle that creates the file, and a     *)
(* stream that fills it when it is closed).  SHA-256 tells contents apart, *)
(* so an index maps a path to the content it describes.                    *)
(***************************************************************************)
EXTENDS Naturals, FiniteSets, Functions

CONSTANTS
    Paths,              \* numbers, in the order of the index
    Contents,           \* contents of resources
    Length(_),          \* of a content
    Callers,            \* who calls the session at the same time
    InitialIndexes,     \* the workspaces to start with
    MaxCalls, MaxFaults, MaxCrashes

Missing == "missing"
Hollow == "hollow"      \* a file that was created and never filled

Indexes == UNION {[P -> Contents] : P \in SUBSET Paths}

ASSUME WorkspaceAssumption ==
    /\ Paths \subseteq Nat
    /\ {Missing, Hollow} \cap Contents = {}
    /\ InitialIndexes \subseteq Indexes
    /\ {MaxCalls, MaxFaults, MaxCrashes} \subseteq Nat

VARIABLES
    host,       \* "node" or "browser"
    resources,  \* path -> content, Hollow or Missing
    intent,     \* the index in intent.pip
    session,    \* the index of the session, and whether it is dirty and open
    call,       \* the calls of the session that have not returned
    save,       \* the save of intent.pip that is under way
    \* History:
    loose,      \* paths whose calls overlapped, or that a crash left unsaved
    unsaved,    \* paths changed in the directory and not saved in intent.pip
    calls, faults, crashes

directory == <<resources, intent>>
history == <<loose, unsaved>>
workspace == <<host, directory, session, call, save, history, calls, faults, crashes>>

Resting == [pc |-> "resting"]
NotSaving == [pc |-> "idle", index |-> << >>, covers |-> {}]

(* openWorkspaceResourceSession()                                          *)
Opened(index) == [open |-> TRUE, index |-> index, dirty |-> FALSE]
Closed == [open |-> FALSE, index |-> << >>, dirty |-> FALSE]

WorkspaceInit ==
    \E index \in InitialIndexes :
        /\ host \in {"node", "browser"}
        /\ resources = [p \in Paths |-> IF p \in DOMAIN index THEN index[p] ELSE Missing]
        /\ intent = index
        /\ session = Opened(index)
        /\ call = [c \in Callers |-> Resting]
        /\ save = NotSaving
        /\ loose = {} /\ unsaved = {}
        /\ calls = 0 /\ faults = 0 /\ crashes = 0

-----------------------------------------------------------------------------
(* Indexes.                                                                *)

With(index, p, content) ==
    [q \in DOMAIN index \cup {p} |-> IF q = p THEN content ELSE index[q]]
Without(index, p) == Restrict(index, DOMAIN index \ {p})

Exists(p) == resources[p] # Missing

(* The checks of session.read(), and of a stream.                          *)
LengthFits(content, entry) == Length(content) = Length(entry)
Fits(content, entry) == LengthFits(content, entry) /\ content = entry

-----------------------------------------------------------------------------
(* Calls of the session.                                                   *)

InFlight(p) == \E c \in Callers : call[c].pc # "resting" /\ call[c].path = p

Fails == faults < MaxFaults /\ faults' = faults + 1

Calls(c, op, p, content) ==
    /\ session.open /\ call[c].pc = "resting"
    /\ calls < MaxCalls /\ calls' = calls + 1
    /\ call' = [d \in Callers |->
                    IF d = c THEN [pc |-> "store", op |-> op, path |-> p, content |-> content,
                                   alone |-> ~InFlight(p)]
                    ELSE IF call[d].pc # "resting" /\ call[d].path = p
                         THEN [call[d] EXCEPT !.alone = FALSE]
                         ELSE call[d]]
    /\ loose' = IF InFlight(p) THEN loose \cup {p} ELSE loose
    /\ save' = [save EXCEPT !.covers = @ \ {p}]
    /\ UNCHANGED <<host, directory, session, unsaved, faults, crashes>>

Write(c) == \E p \in Paths, content \in Contents : Calls(c, "write", p, content)
Remove(c) == \E p \in DOMAIN session.index : Calls(c, "remove", p, Missing)

InStore(c, op, where) == call[c].pc = "store" /\ call[c].op = op /\ host = where
Returns(c) == call' = [call EXCEPT ![c] = Resting]

Stores(c, content) ==
    /\ resources' = [resources EXCEPT ![call[c].path] = content]
    /\ unsaved' = unsaved \cup {call[c].path}
    /\ call' = [call EXCEPT ![c].pc = "resume"]
    /\ UNCHANGED <<host, intent, session, save, loose, calls, faults, crashes>>

StoreFails(c) ==
    /\ Fails /\ Returns(c)
    /\ UNCHANGED <<host, directory, session, save, history, calls, crashes>>

NodeWrite(c) ==
    /\ InStore(c, "write", "node")
    /\ Stores(c, call[c].content) \/ StoreFails(c)

(* getFileHandle(create) and createWritable()                              *)
BrowserCreate(c) ==
    /\ InStore(c, "write", "browser")
    /\ resources' = [resources EXCEPT ![call[c].path] = IF @ = Missing THEN Hollow ELSE @]
    /\ call' = [call EXCEPT ![c].pc = "created"]
    /\ UNCHANGED <<host, intent, session, save, history, calls, faults, crashes>>

BrowserCloseUncaught(c) ==   \* an aborted stream counts as closed
    /\ call[c].pc = "created"
    /\ \/ Stores(c, call[c].content)
       \/ /\ Fails
          /\ call' = [call EXCEPT ![c].pc = "resume"]
          /\ UNCHANGED <<host, directory, session, save, history, calls, crashes>>

BrowserClose(c) ==
    /\ call[c].pc = "created"
    /\ Stores(c, call[c].content) \/ StoreFails(c)

StoreRemove(c) ==
    /\ call[c].pc = "store" /\ call[c].op = "remove"
    /\ IF Exists(call[c].path) THEN Stores(c, Missing)
       ELSE /\ Returns(c)
            /\ UNCHANGED <<host, directory, session, save, history, calls, faults, crashes>>

(* The code behind the await of write() and remove().                      *)
Resume(c) ==
    /\ call[c].pc = "resume"
    /\ LET p == call[c].path
       IN  /\ session' = [session EXCEPT
                    !.index = IF call[c].op = "write" THEN With(@, p, call[c].content)
                              ELSE Without(@, p),
                    !.dirty = TRUE]
           /\ loose' = IF call[c].alone THEN loose \ {p} ELSE loose
    /\ Returns(c)
    /\ UNCHANGED <<host, directory, save, unsaved, calls, faults, crashes>>

-----------------------------------------------------------------------------
(* Saving: saveSplitWorkspaceIntent() encodes the index of the moment,     *)
(* writeIntentPip() replaces the file, markSaved() clears the mark.        *)

CaptureIndex ==
    /\ session.open /\ save.pc = "idle" /\ session.dirty
    /\ save' = [pc |-> "write", index |-> session.index,
                covers |-> {p \in Paths : ~InFlight(p)}]
    /\ UNCHANGED <<host, directory, session, call, history, calls, faults, crashes>>

WriteIntent ==
    /\ save.pc = "write"
    /\ \/ /\ intent' = save.index
          /\ unsaved' = unsaved \ save.covers
          /\ save' = [save EXCEPT !.pc = "mark"]
          /\ UNCHANGED faults
       \/ /\ Fails
          /\ save' = NotSaving
          /\ UNCHANGED <<intent, unsaved>>
    /\ UNCHANGED <<host, resources, session, call, loose, calls, crashes>>

(* Whatever was changed since the index was captured.                      *)
MarkSaved ==
    /\ save.pc = "mark"
    /\ session' = [session EXCEPT !.dirty = FALSE]
    /\ save' = NotSaving
    /\ UNCHANGED <<host, directory, call, history, calls, faults, crashes>>

(* The process ends with whatever it was doing, and starts again.          *)
Crash ==
    /\ session.open
    /\ crashes < MaxCrashes /\ crashes' = crashes + 1
    /\ session' = Closed
    /\ call' = [c \in Callers |-> Resting]
    /\ save' = NotSaving
    /\ UNCHANGED <<host, directory, history, calls, faults>>

Reopen ==
    /\ ~session.open
    /\ session' = Opened(intent)
    /\ loose' = loose \cup unsaved
    /\ UNCHANGED <<host, directory, call, save, unsaved, calls, faults, crashes>>

WorkspaceStep ==
    \/ \E c \in Callers :
        \/ Write(c) \/ Remove(c)
        \/ NodeWrite(c) \/ BrowserCreate(c) \/ BrowserClose(c) \/ StoreRemove(c)
        \/ Resume(c)
    \/ CaptureIndex \/ WriteIntent \/ MarkSaved
    \/ Reopen

-----------------------------------------------------------------------------
(* What the index of the session says of a resource is what is in the      *)
(* directory, so that a read of it succeeds, whatever writes failed and    *)
(* whatever was saved before a crash (resource-store.ts:67-94).  Calls for *)
(* one path that overlap, and a crash before a save, are the exceptions.   *)
IndexNamesResources ==
    session.open =>
        \A p \in DOMAIN session.index \ loose :
            ~InFlight(p) => Fits(resources[p], session.index[p])
=============================================================================
