---------------------------- MODULE WorkspaceBundles ----------------------------
(***************************************************************************)
(* Bundlers make one file of a split workspace while its session goes on   *)
(* working, unbundlers make a split workspace of a bundle.  Each exists    *)
(* for Node (a temporary beside the destination, and a rename) and for the *)
(* browser (a stream that commits when it is closed; a directory that is   *)
(* filled in place); a third bundler reads through the session, in memory. *)
(*                                                                         *)
(* A job is cut at its awaits: it opens a resource, streams it, closes     *)
(* what it made, moves it to its place.  There is one destination for      *)
(* bundles and one for workspaces, so that jobs meet there.                *)
(***************************************************************************)
EXTENDS ResourceWorkspace, FiniteSetsExt

CONSTANTS
    Jobs,
    GivenBundles,       \* what may be at the destination of the bundles
    MaxResourceCount,   \* the limits of the policy
    MaxSingleResourceBytes, MaxExpandedBytes

ASSUME BundlesAssumption ==
    /\ {MaxResourceCount, MaxSingleResourceBytes, MaxExpandedBytes} \subseteq Nat
    /\ \A given \in GivenBundles : given.there => ~given.settled /\ given.resources \in Indexes

VARIABLES
    bundle,     \* the file at the destination of the bundles
    place,      \* the directory that the unbundlers fill
    jobs,
    temps,      \* the jobs whose temporary file or directory is on the disk
    crowded     \* history: unbundlers of the browser overlapped

files == <<bundle, place, temps, crowded>>
vars == <<workspace, files, jobs>>

NoFile == [there |-> FALSE]
Emptied == [made |-> FALSE, resources |-> << >>, intent |-> "none", index |-> << >>]
Idle == [pc |-> "idle"]

BundlesInit ==
    /\ WorkspaceInit
    /\ bundle \in GivenBundles
    /\ place = Emptied
    /\ jobs = [j \in Jobs |-> Idle]
    /\ temps = {} /\ crowded = FALSE

-----------------------------------------------------------------------------
(* Sizes.  A bundle has a resource more than its index: the index.         *)

LengthsOf(index) == [p \in DOMAIN index |-> Length(index[p])]
ExpandedSize(index) == FoldFunction(LAMBDA length, sum : length + sum, 0, LengthsOf(index))

Authorized(index) ==
    /\ Cardinality(DOMAIN index) + 1 <= MaxResourceCount
    /\ \A p \in DOMAIN index : Length(index[p]) <= MaxSingleResourceBytes
    /\ ExpandedSize(index) <= MaxExpandedBytes

(* What the checks of the header and of the small sections pass.           *)
Parses(file) == file.there /\ file.layout

Sound(file) == file.index = file.resources

-----------------------------------------------------------------------------
(* Jobs.                                                                   *)

Working(j) == jobs[j].pc # "idle"
At(j, kind, pc) == jobs[j].pc = pc /\ jobs[j].kind = kind
Goes(j, job) == jobs' = [jobs EXCEPT ![j] = job]
Begun == calls < MaxCalls /\ calls' = calls + 1
Following(j) == Min(jobs[j].todo)
Took(j, content) ==
    Goes(j, [jobs[j] EXCEPT !.pc = "next", !.todo = @ \ {Following(j)},
                            !.opened = Missing, !.done = With(@, Following(j), content)])

Outside == <<host, directory, session, call, save, history>>
Steady == UNCHANGED <<Outside, calls, faults, crashes>>

(* The catch of a job: its temporary and, in the browser, what it created  *)
(* of the destination is removed.                                          *)
Removed(job) ==
    IF job.kind # "browserUnbundle" THEN place
    ELSE [place EXCEPT !.intent = IF job.createdIntent THEN "none" ELSE @,
                       !.index = IF job.createdIntent THEN << >> ELSE @,
                       !.made = IF job.createdResources THEN FALSE ELSE @,
                       !.resources = IF job.createdResources THEN << >> ELSE @]

CatchAndLeave(j) ==     \* without the rm of the temporary
    /\ Goes(j, Idle)
    /\ place' = Removed(jobs[j])
    /\ UNCHANGED <<bundle, temps, crowded>>

Catch(j) ==
    /\ Goes(j, Idle)
    /\ temps' = temps \ {j}
    /\ place' = Removed(jobs[j])
    /\ UNCHANGED <<bundle, crowded>>

(* A write, a sync, a close or a rename that fails.                        *)
IoFails(j) ==
    /\ Working(j)
    /\ Fails /\ Catch(j)
    /\ UNCHANGED <<Outside, calls, crashes>>

-----------------------------------------------------------------------------
(* Bundlers.  The scripts open a session of their own from intent.pip.     *)

Bundling(kind, index) ==
    [pc |-> "next", kind |-> kind, index |-> index, todo |-> DOMAIN index,
     done |-> << >>, opened |-> Missing, changed |-> FALSE]

NodeBundle(j) ==
    /\ host = "node" /\ ~Working(j) /\ Begun
    /\ ~bundle.there
    /\ \E index \in {intent} \cup (IF session.open THEN {session.index} ELSE {}) :
        /\ Authorized(index)
        /\ Goes(j, Bundling("node", index))
    /\ temps' = temps \cup {j}
    /\ UNCHANGED <<Outside, faults, crashes, bundle, place, crowded>>

BrowserBundle(j) ==
    /\ host = "browser" /\ ~Working(j) /\ Begun
    /\ session.open /\ Authorized(session.index)
    /\ Goes(j, Bundling("browser", session.index))
    /\ UNCHANGED <<Outside, faults, crashes, files>>

Opens(j) ==
    LET p == Following(j)
    IN  /\ IF Exists(p) /\ LengthFits(resources[p], jobs[j].index[p])
           THEN /\ Goes(j, [jobs[j] EXCEPT !.pc = "stream", !.opened = resources[p]])
                /\ UNCHANGED files
           ELSE Catch(j)
        /\ Steady

NodeOpenRead(j) == At(j, "node", "next") /\ jobs[j].todo # {} /\ Opens(j)
BrowserOpenRead(j) == At(j, "browser", "next") /\ jobs[j].todo # {} /\ Opens(j)

StreamsByLength(j, readable) ==     \* the length is compared, the hash is not
    LET p == Following(j)
    IN  /\ IF readable /\ LengthFits(resources[p], jobs[j].index[p])
           THEN Took(j, resources[p]) /\ UNCHANGED files
           ELSE Catch(j)
        /\ Steady

Streams(j, readable) ==
    LET p == Following(j)
    IN  /\ IF readable /\ Fits(resources[p], jobs[j].index[p])
           THEN Took(j, resources[p]) /\ UNCHANGED files
           ELSE Catch(j)
        /\ Steady

(* A read stream of Node opens the file when it is first read; a File of   *)
(* the browser refuses to be read once the file has changed.               *)
NodeStream(j) ==
    At(j, "node", "stream") /\ Streams(j, Exists(Following(j)))

Unchanged(j) == resources[Following(j)] = jobs[j].opened
BrowserStream(j) ==
    At(j, "browser", "stream") /\ Streams(j, Unchanged(j))

Made(j, index) ==
    [there |-> TRUE, layout |-> TRUE, intact |-> TRUE, index |-> index,
     resources |-> jobs[j].done, settled |-> jobs[j].kind # "memory" \/ ~jobs[j].changed]

(* file.close() and assertMissing()                                        *)
CloseBundle(j) ==
    /\ At(j, "node", "next") /\ jobs[j].todo = {}
    /\ IF bundle.there THEN Catch(j)
       ELSE Goes(j, [jobs[j] EXCEPT !.pc = "move"]) /\ UNCHANGED files
    /\ Steady

(* rename() replaces a file that came there since.                         *)
MoveBundle(j) ==
    /\ At(j, "node", "move")
    /\ bundle' = Made(j, jobs[j].index)
    /\ temps' = temps \ {j}
    /\ Goes(j, Idle)
    /\ UNCHANGED <<place, crowded>> /\ Steady

BrowserCommit(j) ==
    /\ At(j, "browser", "next") /\ jobs[j].todo = {}
    /\ bundle' = Made(j, jobs[j].index)
    /\ Goes(j, Idle)
    /\ UNCHANGED <<place, temps, crowded>> /\ Steady

-----------------------------------------------------------------------------
(* bundleSplitWorkspace(): the list is taken first, each resource is read  *)
(* through the session, and the index is taken last.                       *)

MemoryBundle(j) ==
    /\ ~Working(j) /\ Begun
    /\ session.open
    /\ Goes(j, Bundling("memory", session.index))
    /\ UNCHANGED <<Outside, faults, crashes, files>>

(* session.read(): the entry of the moment, and then the store.            *)
LookUp(j) ==
    /\ At(j, "memory", "next") /\ jobs[j].todo # {}
    /\ LET p == Following(j)
       IN  IF session.open /\ p \in DOMAIN session.index
           THEN /\ Goes(j, [jobs[j] EXCEPT !.pc = "read", !.opened = session.index[p]])
                /\ UNCHANGED files
           ELSE Catch(j)
    /\ Steady

Read(j) ==
    /\ At(j, "memory", "read")
    /\ LET p == Following(j)
       IN  IF Exists(p) /\ Fits(resources[p], jobs[j].opened)
           THEN Took(j, resources[p]) /\ UNCHANGED files
           ELSE Catch(j)
    /\ Steady

(* Whoever asked for it keeps the bytes as a file.                         *)
ReturnBundle(j) ==
    /\ At(j, "memory", "next") /\ jobs[j].todo = {}
    /\ IF Authorized(session.index)
       THEN /\ bundle' = Made(j, session.index)
            /\ Goes(j, Idle)
            /\ UNCHANGED <<place, temps, crowded>>
       ELSE Catch(j)
    /\ Steady

-----------------------------------------------------------------------------
(* Unbundlers.  source is the open file, whatever its name leads to later. *)

Unbundling(kind) ==
    [pc |-> "next", kind |-> kind, source |-> bundle, todo |-> DOMAIN bundle.resources,
     opened |-> Missing, done |-> << >>, createdResources |-> FALSE, createdIntent |-> FALSE, changed |-> FALSE]

MayUnbundle(j) ==
    /\ ~Working(j) /\ Begun
    /\ place = Emptied
    /\ Parses(bundle) /\ Authorized(bundle.resources)

NodeUnbundle(j) ==
    /\ host = "node" /\ MayUnbundle(j)
    /\ Goes(j, Unbundling("nodeUnbundle"))
    /\ temps' = temps \cup {j}
    /\ UNCHANGED <<Outside, faults, crashes, bundle, place, crowded>>

BrowserUnbundle(j) ==
    /\ host = "browser" /\ MayUnbundle(j)
    /\ Goes(j, [Unbundling("browserUnbundle") EXCEPT !.pc = "directory"])
    /\ crowded' = (crowded \/ \E k \in Jobs : Working(k) /\ jobs[k].kind = "browserUnbundle")
    /\ UNCHANGED <<Outside, faults, crashes, bundle, place, temps>>

(* getDirectoryHandle("resources", create)                                 *)
MakeResources(j) ==
    /\ At(j, "browserUnbundle", "directory")
    /\ place' = [place EXCEPT !.made = TRUE]
    /\ Goes(j, [jobs[j] EXCEPT !.pc = "next", !.createdResources = TRUE])
    /\ UNCHANGED <<bundle, temps, crowded>> /\ Steady

Unpacked(j) == jobs[j].source.resources[Following(j)]

NodeExtract(j) ==
    /\ At(j, "nodeUnbundle", "next") /\ jobs[j].todo # {}
    /\ Took(j, Unpacked(j))
    /\ UNCHANGED files /\ Steady

(* A File of the browser whose bundle was replaced is not read any more,   *)
(* nor is there a place to write to in a directory that was removed.       *)
BrowserExtract(j) ==
    /\ At(j, "browserUnbundle", "next") /\ jobs[j].todo # {}
    /\ IF jobs[j].source = bundle /\ place.made
       THEN /\ Took(j, Unpacked(j))
            /\ place' = [place EXCEPT !.resources = With(@, Following(j), Unpacked(j))]
            /\ UNCHANGED <<bundle, temps, crowded>>
       ELSE Catch(j)
    /\ Steady

(* The checks behind the last record; without the second one, the index    *)
(* is not compared.                                                        *)
VerifiesHash(source) == source.intact
Verifies(source) == source.intact /\ Sound(source)

(* intent.pip is written beside the resources, and the file is closed.     *)
NodeVerify(j) ==
    /\ At(j, "nodeUnbundle", "next") /\ jobs[j].todo = {}
    /\ IF Verifies(jobs[j].source) /\ place = Emptied
       THEN Goes(j, [jobs[j] EXCEPT !.pc = "move"]) /\ UNCHANGED files
       ELSE Catch(j)
    /\ Steady

(* intent.pip is created empty.                                            *)
BrowserVerify(j) ==
    /\ At(j, "browserUnbundle", "next") /\ jobs[j].todo = {}
    /\ IF Verifies(jobs[j].source)
       THEN /\ Goes(j, [jobs[j] EXCEPT !.pc = "fill", !.createdIntent = TRUE])
            /\ place' = [place EXCEPT !.intent = IF @ = "none" THEN "hollow" ELSE @]
            /\ UNCHANGED <<bundle, temps, crowded>>
       ELSE Catch(j)
    /\ Steady

(* rename() of a directory does not replace one that has files.            *)
MoveWorkspace(j) ==
    /\ At(j, "nodeUnbundle", "move")
    /\ IF place # Emptied THEN Catch(j)
       ELSE /\ place' = [made |-> TRUE, resources |-> jobs[j].done,
                         intent |-> "full", index |-> jobs[j].source.index]
            /\ temps' = temps \ {j}
            /\ Goes(j, Idle)
            /\ UNCHANGED <<bundle, crowded>>
    /\ Steady

FillIntent(j) ==
    /\ At(j, "browserUnbundle", "fill")
    /\ IF place.intent = "none" THEN Catch(j)
       ELSE /\ place' = [place EXCEPT !.intent = "full", !.index = jobs[j].source.index]
            /\ Goes(j, Idle)
            /\ UNCHANGED <<bundle, temps, crowded>>
    /\ Steady

JobStep(j) ==
    \/ NodeBundle(j) \/ BrowserBundle(j) \/ MemoryBundle(j)
    \/ NodeOpenRead(j) \/ BrowserOpenRead(j) \/ NodeStream(j) \/ BrowserStream(j)
    \/ CloseBundle(j) \/ MoveBundle(j) \/ BrowserCommit(j)
    \/ LookUp(j) \/ Read(j) \/ ReturnBundle(j)
    \/ NodeUnbundle(j) \/ BrowserUnbundle(j) \/ MakeResources(j)
    \/ NodeExtract(j) \/ BrowserExtract(j) \/ NodeVerify(j) \/ BrowserVerify(j)
    \/ MoveWorkspace(j) \/ FillIntent(j)
    \/ IoFails(j)

(* What the session does while jobs are under way.                         *)
SessionStep ==
    /\ WorkspaceStep
    /\ jobs' = [j \in Jobs |->
                  IF Working(j) /\ session'.index # session.index
                  THEN [jobs[j] EXCEPT !.changed = TRUE] ELSE jobs[j]]
    /\ UNCHANGED files

(* Temporaries and half-filled directories stay behind.                    *)
Stop ==
    /\ Crash
    /\ jobs' = [j \in Jobs |-> Idle]
    /\ UNCHANGED files

Next == SessionStep \/ Stop \/ \E j \in Jobs : JobStep(j)

Spec == BundlesInit /\ [][Next]_vars

-----------------------------------------------------------------------------
(* A bundle that was made holds, for every entry of its index, the content *)
(* that the entry describes and nothing else, whatever the session wrote   *)
(* or removed while it was made (node-streaming-bundle.ts:186-202,         *)
(* browser-streaming-bundle.ts:170-185).  The bundler in memory takes the  *)
(* index last and promises this only while the session rests.              *)
BundlesAreSound ==
    bundle.there /\ bundle.settled => Sound(bundle)

(* In Node the destination of an unbundler holds a whole workspace or is   *)
(* not there at any moment, also after a crash; in the browser it is whole *)
(* or empty again when its only unbundler has ended                        *)
(* (node-streaming-unbundle.ts:248-277,                                    *)
(* browser-streaming-unbundle.ts:212-245).                                 *)
Whole == place.made /\ place.intent = "full" /\ place.index = place.resources
DestinationsAreWhole ==
    \/ place = Emptied \/ Whole
    \/ /\ host = "browser"
       /\ \/ crowded \/ crashes > 0
          \/ \E j \in Jobs : Working(j) /\ jobs[j].kind = "browserUnbundle"

(* A job that failed leaves no temporary file or directory beside its      *)
(* destination: without a crash, each belongs to a job under way           *)
(* (node-streaming-bundle.ts:214-218, node-streaming-unbundle.ts:273-277). *)
FailedJobsLeaveNothing ==
    crashes = 0 => \A j \in temps : Working(j)
=============================================================================
