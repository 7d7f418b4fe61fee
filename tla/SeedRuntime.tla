------------------------------ MODULE SeedRuntime ------------------------------
(***************************************************************************)
(* Seed at run time: the processes that start a loader or an editor out of *)
(* PIP packages and answer the requests of the page they show.  The shell  *)
(* of the command line answers each connection on a thread of its own, the *)
(* desktop shell all of them on its main thread; both work in one user     *)
(* data directory, without a lock.                                         *)
(*                                                                         *)
(* A step is one call that the others can see: reading a file, opening,    *)
(* writing or renaming one, or replacing the package a process runs.  Files *)
(* are inodes: two writers of one temporary file write into one inode, and *)
(* go on writing into it after one of them has renamed it.                 *)
(*                                                                         *)
(* Everything that only reads packages is SeedPackages.  The registry of   *)
(* the user only grows, so that the packages a step reads one by one are   *)
(* read at its end.                                                        *)
(***************************************************************************)
EXTENDS SeedPackages

CONSTANTS
    Processes,        \* names of processes; a restarted one may get its id again
    Desktop,          \* those that are the desktop shell
    Threads, Process, \* threads, and the process of each
    Main,             \* the thread that boots a process
    ProfileIds,
    Requests,         \* what pages may ask for
    Arguments,        \* command lines
    TrustedBefore,    \* the hashes and packages of the user at the beginning,
    InstalledBefore,  \* unless the user's directory is empty
    Inodes,           \* a set of numbers, as many as files and threads need
    Length(_),        \* the bytes a content takes
    MaxRequests, MaxBoots, MaxFaults, MaxCrashes

NoInode == 0
File(store, owner) == [store |-> store, owner |-> owner, temporary |-> FALSE]
Temporary(store, owner) == [store |-> store, owner |-> owner, temporary |-> TRUE]
TrustFile == File("trust", "")
PolicyFile == File("policy", "")
Paths == {TrustFile, PolicyFile, Temporary("trust", "")}
         \cup {Temporary("policy", p) : p \in Processes}
         \cup {File("profile", id) : id \in ProfileIds}
         \cup {Temporary("profile", id) : id \in ProfileIds}

Empty == [kind |-> "empty"]
Torn(n) == [kind |-> "torn", bytes |-> n]
TrustContent(hashes) == [kind |-> "trust", hashes |-> hashes]
ProfileContent(profile) == [kind |-> "profile", profile |-> profile]
PolicyContent(policy) == [kind |-> "policy", policy |-> policy]

ASSUME SeedAssumption ==
    /\ 1 \in Inodes /\ Inodes \subseteq Nat \ {0}
    /\ Process \in [Threads -> Processes]
    /\ Main \in [Processes -> Threads]
    /\ \A p \in Processes : Process[Main[p]] = p
    /\ Desktop \subseteq Processes
    /\ Shipped \in DOMAIN Folders
    /\ \A args \in Arguments : \A f, g \in args.loader : f.place \in DOMAIN Folders /\ f = g
    /\ TrustedBefore \subseteq Packages
    /\ \A args \in Arguments : args.kind = "boot"
    /\ \A r \in Requests : r.kind # "boot"
    /\ \A r \in Requests : r.kind = "install" =>
            r.file = [sha |-> r.file.sha, length |-> r.file.length]
    /\ {MaxRequests, MaxBoots, MaxFaults, MaxCrashes} \subseteq Nat

VARIABLES
    files,      \* path -> inode, or NoInode
    data,       \* inode -> content
    registry,   \* the user's packages: file name -> file
    proc,       \* what a process runs, and how it was started
    thread,     \* where a thread stands in the handler of its request
    asked,      \* the closures somebody asked to trust
    requests, boots, faults, crashes

disk == <<files, data, registry>>
counters == <<requests, boots, faults, crashes>>
vars == <<disk, proc, thread, asked, counters>>

Idle == [pc |-> "idle", request |-> [kind |-> "none"], content |-> Empty, inode |-> NoInode]
Off == [status |-> "off"]

Init ==
    \E seeded \in BOOLEAN :
        /\ files = [path \in Paths |-> IF seeded /\ path = TrustFile THEN 1 ELSE NoInode]
        /\ data = [i \in Inodes |-> IF seeded /\ i = 1 THEN TrustContent(TrustedBefore) ELSE Empty]
        /\ registry = IF seeded THEN InstalledBefore ELSE << >>
        /\ proc = [p \in Processes |-> Off]
        /\ thread = [t \in Threads |-> Idle]
        /\ asked = IF seeded THEN {TrustedBefore} ELSE {}
        /\ requests = 0 /\ boots = 0 /\ faults = 0 /\ crashes = 0

-----------------------------------------------------------------------------
(* Threads.                                                                *)

My(t) == proc[Process[t]]
Request(t) == thread[t].request
At(t, pc) == thread[t].pc = pc
Goto(t, pc) == thread' = [thread EXCEPT ![t].pc = pc]

Answer(t) == thread' = [thread EXCEPT ![t] = Idle]

(* A failed request: the connection is dropped, or answered with 400.  A   *)
(* failed boot ends the process.                                           *)
Failed == [Idle EXCEPT !.pc = "failed"]

Fail(t) ==
    /\ thread' = [thread EXCEPT ![t] = IF Request(t).kind = "boot" THEN Idle ELSE Failed]
    /\ proc' = IF Request(t).kind = "boot" THEN [proc EXCEPT ![Process[t]] = Off] ELSE proc

Refuse(t) == Fail(t) /\ UNCHANGED <<disk, asked, counters>>

-----------------------------------------------------------------------------
(* Files.                                                                  *)

Linked(path) == files[path] # NoInode
Content(path) == data[files[path]]

Free(i) == /\ \A path \in Paths : files[path] # i
           /\ \A t \in Threads : thread[t].inode # i
LeastFree(i) == Free(i) /\ \A j \in Inodes : Free(j) => i <= j

(* Opens a file for writing and leaves it empty.                           *)
Truncate(t, path, pc) ==
    \E i \in Inodes :
        /\ IF Linked(path) THEN i = files[path] ELSE LeastFree(i)
        /\ files' = [files EXCEPT ![path] = i]
        /\ data' = [data EXCEPT ![i] = Empty]
        /\ thread' = [thread EXCEPT ![t].inode = i, ![t].pc = pc]

(* A shorter content written over a longer one leaves the longer one's end. *)
Overlay(old, new) ==
    IF old.kind # "empty" /\ Length(old) > Length(new) THEN Torn(Length(old)) ELSE new

PutContent(t) ==
    data' = [data EXCEPT ![thread[t].inode] = Overlay(data[thread[t].inode], thread[t].content)]

(* A write that runs out of space leaves what was in the file, or a part   *)
(* of the new content.                                                     *)
PutPart(t) ==
    /\ faults < MaxFaults /\ faults' = faults + 1
    /\ LET old == data[thread[t].inode]
       IN  data' = [data EXCEPT ![thread[t].inode] =
                        Torn(IF old.kind = "empty" THEN 1 ELSE Length(old))]

Move(from, to) ==
    files' = [files EXCEPT ![to] = files[from], ![from] = NoInode]

-----------------------------------------------------------------------------
(* The stores that share a temporary file: trust and profiles.             *)

TrustReadable == Linked(TrustFile) => Content(TrustFile).kind = "trust"
TrustedHashes == IF Linked(TrustFile) THEN Content(TrustFile).hashes ELSE {}

Wanted(t) == IF Request(t).kind = "boot" THEN LaunchHashes(Request(t).launch)
             ELSE Request(t).hashes

ReadTrustOneByOne(t) ==   \* saves each hash of a closure on its own
    /\ At(t, "readTrust")
    /\ IF TrustReadable /\ Wanted(t) # {}
       THEN /\ \E h \in Wanted(t) :
                thread' = [thread EXCEPT ![t].pc = "open",
                                         ![t].content = TrustContent(TrustedHashes \cup {h})]
            /\ UNCHANGED <<disk, proc, asked, counters>>
       ELSE Refuse(t)

(* trust_package_hashes(): read the list, extend it, ...                   *)
ReadTrust(t) ==
    /\ At(t, "readTrust")
    /\ IF TrustReadable /\ Wanted(t) # {}
       THEN /\ thread' = [thread EXCEPT ![t].pc = "open",
                                        ![t].content = TrustContent(TrustedHashes \cup Wanted(t))]
            /\ UNCHANGED <<disk, proc, asked, counters>>
       ELSE Refuse(t)

ValidateProfileLater(t) ==   \* checks the trust of a profile, not its references
    /\ At(t, "validate")
    /\ LET profile == Request(t).profile
       IN  IF TrustReadable /\ ProfileTrusted(profile, TrustedHashes) /\ profile.id \in ProfileIds
           THEN /\ thread' = [thread EXCEPT ![t].pc = "open",
                                            ![t].content = ProfileContent(profile)]
                /\ UNCHANGED <<disk, proc, asked, counters>>
           ELSE Refuse(t)

(* save_runtime_profile(): validate, ...                                   *)
ValidateProfile(t) ==
    /\ At(t, "validate")
    /\ LET profile == Request(t).profile
       IN  IF /\ ValidProfile(profile, Sources(My(t).system, registry), My(t).policy)
              /\ TrustReadable
              /\ ProfileTrusted(profile, TrustedHashes)
              /\ profile.id \in ProfileIds
           THEN /\ thread' = [thread EXCEPT ![t].pc = "open",
                                            ![t].content = ProfileContent(profile)]
                /\ UNCHANGED <<disk, proc, asked, counters>>
           ELSE Refuse(t)

Target(t) == IF Request(t).kind = "profiles" THEN File("profile", Request(t).profile.id)
             ELSE TrustFile
Beside(path) == [path EXCEPT !.temporary = TRUE]

(* ... and write the temporary file beside the store ...                   *)
OpenTemporary(t) ==
    /\ At(t, "open")
    /\ Truncate(t, Beside(Target(t)), "write")
    /\ UNCHANGED <<registry, proc, asked, counters>>

WriteTemporary(t) ==
    /\ At(t, "write")
    /\ \/ /\ PutContent(t)
          /\ thread' = [thread EXCEPT ![t].pc = "rename", ![t].inode = NoInode]
          /\ UNCHANGED <<proc, faults>>
       \/ PutPart(t) /\ Fail(t)
    /\ UNCHANGED <<files, registry, asked, requests, boots, crashes>>

(* ... and rename it, whoever wrote it last; it may be gone already.       *)
CommitTemporary(t) ==
    /\ At(t, "rename")
    /\ IF Linked(Beside(Target(t)))
       THEN /\ Move(Beside(Target(t)), Target(t))
            /\ IF Request(t).kind = "boot" THEN Goto(t, "profile") ELSE Answer(t)
            /\ UNCHANGED <<data, registry, proc, asked, counters>>
       ELSE Refuse(t)

-----------------------------------------------------------------------------
(* save_io_policy(): the temporary file is the process's own and must not  *)
(* exist; it is synced before it is renamed and removed when that fails.   *)

OwnTemporary(t) == Temporary("policy", Process[t])

CreatePolicy(t) ==
    /\ At(t, "create")
    /\ IF ValidPolicy(Request(t).policy) /\ ~Linked(OwnTemporary(t))
       THEN /\ Truncate(t, OwnTemporary(t), "sync")
            /\ UNCHANGED <<registry, proc, asked, counters>>
       ELSE Refuse(t)

SyncPolicy(t) ==
    /\ At(t, "sync")
    /\ \/ /\ data' = [data EXCEPT ![thread[t].inode] = PolicyContent(Request(t).policy)]
          /\ thread' = [thread EXCEPT ![t].pc = "commit", ![t].inode = NoInode]
          /\ UNCHANGED <<files, proc, faults>>
       \/ /\ PutPart(t) /\ Fail(t)
          /\ files' = [files EXCEPT ![OwnTemporary(t)] = NoInode]
    /\ UNCHANGED <<registry, asked, requests, boots, crashes>>

CommitPolicyAndLeave(t) ==   \* leaves the temporary file when the rename fails
    /\ At(t, "commit")
    /\ \/ Move(OwnTemporary(t), PolicyFile) /\ Answer(t) /\ UNCHANGED <<proc, faults>>
       \/ /\ faults < MaxFaults /\ faults' = faults + 1
          /\ UNCHANGED files /\ Fail(t)
    /\ UNCHANGED <<data, registry, asked, requests, boots, crashes>>

CommitPolicy(t) ==
    /\ At(t, "commit")
    /\ \/ Move(OwnTemporary(t), PolicyFile) /\ Answer(t) /\ UNCHANGED <<proc, faults>>
       \/ /\ faults < MaxFaults /\ faults' = faults + 1
          /\ files' = [files EXCEPT ![OwnTemporary(t)] = NoInode]
          /\ Fail(t)
    /\ UNCHANGED <<data, registry, asked, requests, boots, crashes>>

-----------------------------------------------------------------------------
(* install_user_package(): the file is created where it stays, and only if *)
(* it is not there; then it is written and read back.                      *)

CreatePackage(t) ==
    /\ At(t, "createPackage")
    /\ LET name == Request(t).name   file == Request(t).file
       IN  IF /\ Parses(file, My(t).policy) /\ NameMatches(name, file)
              /\ name \notin DOMAIN registry
           THEN /\ registry' = [n \in DOMAIN registry \cup {name} |->
                                    IF n = name THEN [file EXCEPT !.length = 0] ELSE registry[n]]
                /\ Goto(t, "writePackage")
                /\ UNCHANGED <<files, data, proc, asked, counters>>
           ELSE Refuse(t)

(* A package is large: a part of it is written when the write fails.       *)
WritePackage(t) ==
    /\ At(t, "writePackage")
    /\ LET name == Request(t).name   file == Request(t).file
       IN  \/ /\ registry' = [registry EXCEPT ![name] = file]
              /\ Goto(t, "verifyPackage")
              /\ UNCHANGED <<proc, faults>>
           \/ /\ faults < MaxFaults /\ faults' = faults + 1
              /\ \E n \in 1 .. file.length - 1 : registry' = [registry EXCEPT ![name].length = n]
              /\ Fail(t)
    /\ UNCHANGED <<files, data, asked, requests, boots, crashes>>

VerifyPackage(t) ==
    /\ At(t, "verifyPackage")
    /\ IF registry[Request(t).name] = Request(t).file THEN Answer(t) /\ UNCHANGED proc ELSE Fail(t)
    /\ UNCHANGED <<disk, asked, counters>>

-----------------------------------------------------------------------------
(* Activating an editor: the package is read, its hash looked up in the    *)
(* trust store if it is the user's, and then it is what the process runs.  *)

LoadEditorUnasked(t) ==   \* looks only system packages up
    /\ At(t, "load")
    /\ LET r == Request(t)   sources == Sources(My(t).system, registry)
       IN  IF Loads(sources, r.origin, r.name, My(t).policy)
              /\ Facts[Loaded(sources, r.origin, r.name)].layer = "a2"
           THEN /\ thread' = [thread EXCEPT ![t].pc = IF r.origin = "system" THEN "lookup" ELSE "replace",
                                            ![t].content = Whole(Loaded(sources, r.origin, r.name))]
                /\ UNCHANGED <<disk, proc, asked, counters>>
           ELSE Refuse(t)

LoadEditor(t) ==
    /\ At(t, "load")
    /\ LET r == Request(t)   sources == Sources(My(t).system, registry)
       IN  IF Loads(sources, r.origin, r.name, My(t).policy)
              /\ Facts[Loaded(sources, r.origin, r.name)].layer = "a2"
           THEN /\ thread' = [thread EXCEPT ![t].pc = IF r.origin = "user" THEN "lookup" ELSE "replace",
                                            ![t].content = Whole(Loaded(sources, r.origin, r.name))]
                /\ UNCHANGED <<disk, proc, asked, counters>>
           ELSE Refuse(t)

LookUpTrust(t) ==
    /\ At(t, "lookup")
    /\ IF TrustReadable /\ thread[t].content.sha \in TrustedHashes
       THEN Goto(t, "replace") /\ UNCHANGED <<disk, proc, asked, counters>>
       ELSE Refuse(t)

ReplaceEditor(t) ==
    /\ At(t, "replace")
    /\ proc' = [proc EXCEPT ![Process[t]].running = thread[t].content.sha]
    /\ Answer(t)
    /\ UNCHANGED <<disk, asked, counters>>

-----------------------------------------------------------------------------
(* The routes of the two shells.                                           *)

FirstStep(r) ==
    CASE r.kind \in {"trust", "trustBatch"} -> "readTrust"
      [] r.kind = "profiles" -> "validate"
      [] r.kind = "savePolicy" -> "create"
      [] r.kind = "install" -> "createPackage"
      [] r.kind = "activate" -> "load"

Waiting(t) == thread[t].pc \in {"idle", "failed"}

(* A request the page makes, on a thread that has none.                    *)
Arrives(t) ==
    /\ Waiting(t) /\ My(t).status = "serving"
    /\ requests < MaxRequests /\ requests' = requests + 1
    /\ UNCHANGED <<disk, proc, boots, faults, crashes>>

Enter(t, r) ==
    /\ thread' = [thread EXCEPT ![t] = [Idle EXCEPT !.pc = FirstStep(r), !.request = r]]
    /\ asked' = IF FirstStep(r) = "readTrust" THEN asked \cup {r.hashes} ELSE asked

CliWrites == {"savePolicy", "activate", "trust", "profiles", "install"}
DesktopWrites == CliWrites \cup {"trustBatch"}

CliWrite(t, r) ==
    /\ Process[t] \notin Desktop /\ r.kind \in CliWrites
    /\ Arrives(t) /\ Enter(t, r)

DesktopWrite(t, r) ==
    /\ Process[t] \in Desktop /\ r.kind \in DesktopWrites
    /\ Arrives(t) /\ Enter(t, r)

(* The shell of the command line reads a connection once: a request that   *)
(* comes in two segments is cut, and is refused whatever it asks for.      *)
CutRequest(t, r) ==
    /\ Process[t] \notin Desktop /\ r.kind \in CliWrites
    /\ Arrives(t)
    /\ thread' = [thread EXCEPT ![t] = Failed]
    /\ UNCHANGED asked

Replied(t, ok) ==
    /\ thread' = [thread EXCEPT ![t] = IF ok THEN Idle ELSE Failed]
    /\ UNCHANGED asked

(* The catalog needs a readable trust store, the policy a readable policy. *)
PolicyReadable == Linked(PolicyFile) => Content(PolicyFile).kind = "policy"

CliRead(t, r) ==
    /\ Process[t] \notin Desktop
    /\ Arrives(t)
    /\ \/ r.kind = "catalog" /\ Replied(t, TrustReadable)
       \/ r.kind = "readPolicy" /\ Replied(t, PolicyReadable)

DesktopRead(t, r) ==
    /\ Process[t] \in Desktop
    /\ Arrives(t)
    /\ \/ r.kind = "catalog" /\ Replied(t, TrustReadable)
       \/ r.kind = "readPolicy" /\ Replied(t, PolicyReadable)

(* A package of the catalog, or a file of the package the process runs: it *)
(* is found or it is not.                                                  *)
Found(t, r) ==
    IF r.kind = "package" THEN Loads(Sources(My(t).system, registry), r.origin, r.name, My(t).policy)
    ELSE HasAsset(My(t).running, r.path)

CliFetch(t, r) ==
    /\ Process[t] \notin Desktop /\ r.kind \in {"package", "asset"}
    /\ Arrives(t) /\ Replied(t, Found(t, r))

DesktopFetch(t, r) ==
    /\ Process[t] \in Desktop /\ r.kind \in {"package", "asset"}
    /\ Arrives(t) /\ Replied(t, Found(t, r))

-----------------------------------------------------------------------------
(* Starting a process.                                                     *)

Boot(p) ==
    /\ proc[p].status = "off" /\ boots < MaxBoots /\ boots' = boots + 1
    /\ \E args \in Arguments :
        /\ p \notin Desktop => args.launch \notin Packages
        /\ proc' = [proc EXCEPT ![p] = [status |-> "booting"]]
        /\ thread' = [thread EXCEPT ![Main[p]] = [Idle EXCEPT !.pc = "policy", !.request = args]]
    /\ UNCHANGED <<disk, asked, requests, faults, crashes>>

SavedPolicy == IF Linked(PolicyFile) THEN Content(PolicyFile).policy ELSE AskAll

(* The policy: the file under the options.  The command line refuses to    *)
(* start while a limit would have to be confirmed, the desktop allows it.  *)
Launches(t) == Request(t).launch \in Packages

(* The directory whose packages are the system's: the one of the loader    *)
(* that the command line names, or the one beside the executable.  The     *)
(* desktop always takes the latter.                                        *)
SystemPlace(t) ==
    IF Process[t] \notin Desktop /\ Request(t).loader # {}
    THEN CHOOSE place \in {f.place : f \in Request(t).loader} : TRUE
    ELSE Shipped

ResolveLimits(t) ==
    /\ At(t, "policy")
    /\ LET args == Request(t)
           resolved == ResolvePolicy(args.options, args.allow, SavedPolicy)
           policy == IF Process[t] \in Desktop THEN AllowAsked(resolved) ELSE resolved
       IN  IF /\ PolicyReadable /\ ValidPolicy(resolved) /\ ~RequiresConfirmation(policy)
              /\ Launches(t) => ValidLaunch(args.launch, policy)
           THEN /\ proc' = [proc EXCEPT ![Process[t]] =
                        [status |-> "booting", policy |-> policy, system |-> SystemPlace(t)]]
                /\ Goto(t, IF Launches(t) THEN "readTrust" ELSE "profile")
                /\ asked' = IF Launches(t) THEN asked \cup {LaunchHashes(args.launch)} ELSE asked
                /\ UNCHANGED <<disk, counters>>
           ELSE Refuse(t)

(* The profile, if one is named, must be whole, valid and trusted.         *)
HasProfile(t) == Request(t).profile \in ProfileIds
ProfileOf(t) == Content(File("profile", Request(t).profile)).profile

LoadProfile(t) ==
    /\ At(t, "profile")
    /\ IF HasProfile(t)
       THEN LET path == File("profile", Request(t).profile)
            IN  IF /\ Linked(path) /\ Content(path).kind = "profile"
                   /\ ValidProfile(ProfileOf(t), Sources(My(t).system, registry), My(t).policy)
                   /\ TrustReadable /\ ProfileTrusted(ProfileOf(t), TrustedHashes)
                THEN /\ thread' = [thread EXCEPT ![t].pc = "select",
                                                 ![t].content = Content(path)]
                     /\ UNCHANGED <<disk, proc, asked, counters>>
                ELSE Refuse(t)
       ELSE Goto(t, "select") /\ UNCHANGED <<disk, proc, asked, counters>>

(* The loader the command line names, wherever it lies, or the one of the  *)
(* profile, else the only one beside the executable; when there is not one *)
(* the desktop asks, and the user picks any file.                          *)
Offered(t) == DiscoveredLoaders(Folders[Shipped], My(t).policy)
AnyFile == UNION {{[place |-> place, name |-> n] : n \in DOMAIN Folders[place]} :
                    place \in DOMAIN Folders}

Asks(t) ==
    /\ Process[t] \in Desktop
    /\ ~Launches(t) /\ ~HasProfile(t) /\ Request(t).loader = {}
    /\ Cardinality(Offered(t)) # 1

CliLoaders(t) ==
    IF Request(t).loader # {} THEN NamedLoaders(Request(t).loader, My(t).policy)
    ELSE IF HasProfile(t) THEN {thread[t].content.profile.loader.sha}
    ELSE IF Cardinality(Offered(t)) = 1 THEN Offered(t) ELSE {}

DesktopLoaders(t) ==
    IF Launches(t) THEN {l.loader.sha : l \in Facts[Request(t).launch].launch}
    ELSE IF Asks(t) THEN NamedLoaders(AnyFile, My(t).policy)
    ELSE CliLoaders(t)

(* What the user named for this process: an editor, a loader, a file in    *)
(* the dialog.                                                             *)
Named(t, loader) ==
    ({Request(t).editor} \cap Packages) \cup NamedLoaders(Request(t).loader, My(t).policy)
        \cup (IF Asks(t) THEN {loader} ELSE {})

(* What runs first: the editor of the launch package, of the command line, *)
(* of the profile, the loader's default, or the loader itself.             *)
FirstPackage(t, loader) ==
    LET args == Request(t)   default == DefaultEditor(loader, Sources(My(t).system, registry), My(t).policy)
    IN  IF args.force THEN {loader}
        ELSE IF Launches(t) THEN {l.editor.sha : l \in Facts[args.launch].launch}
        ELSE IF args.editor \in Packages THEN {args.editor}
        ELSE IF HasProfile(t) THEN {thread[t].content.profile.editor.sha}
        ELSE IF default # {} THEN default ELSE {loader}

EditorAllowed(t) ==
    Request(t).editor \in Packages =>
        Parses(Whole(Request(t).editor), My(t).policy) /\ Facts[Request(t).editor].layer = "a2"

Serve(t, loaders) ==
    /\ At(t, "select")
    /\ \/ \E loader \in loaders :
            /\ HasAsset(loader, "index.html") /\ EditorAllowed(t)
            /\ \E first \in FirstPackage(t, loader) :
                proc' = [proc EXCEPT ![Process[t]] =
                    [status |-> "serving", policy |-> My(t).policy, system |-> My(t).system,
                     loader |-> loader, running |-> first, named |-> Named(t, loader)]]
            /\ thread' = [thread EXCEPT ![t] = Idle]
            /\ UNCHANGED <<disk, asked, counters>>
       \/ /\ \A loader \in loaders : ~HasAsset(loader, "index.html") \/ ~EditorAllowed(t)
          /\ Refuse(t)

CliServe(t) == Process[t] \notin Desktop /\ Serve(t, CliLoaders(t))
DesktopServe(t) == Process[t] \in Desktop /\ Serve(t, DesktopLoaders(t))

(* The user closes the dialog in which the desktop asks, or picks a file   *)
(* that is no loader.                                                      *)
CancelSelection(t) == At(t, "select") /\ Asks(t) /\ Refuse(t)

(* A process ends, or is killed, at any point.                             *)
Crash(p) ==
    /\ proc[p].status # "off" /\ crashes < MaxCrashes /\ crashes' = crashes + 1
    /\ proc' = [proc EXCEPT ![p] = Off]
    /\ thread' = [t \in Threads |-> IF Process[t] = p THEN Idle ELSE thread[t]]
    /\ UNCHANGED <<disk, asked, requests, boots, faults>>

Step(t) ==
    \/ ReadTrust(t) \/ ValidateProfile(t)
    \/ OpenTemporary(t) \/ WriteTemporary(t) \/ CommitTemporary(t)
    \/ CreatePolicy(t) \/ SyncPolicy(t) \/ CommitPolicy(t)
    \/ CreatePackage(t) \/ WritePackage(t) \/ VerifyPackage(t)
    \/ LoadEditor(t) \/ LookUpTrust(t) \/ ReplaceEditor(t)
    \/ ResolveLimits(t) \/ LoadProfile(t)
    \/ CliServe(t) \/ DesktopServe(t) \/ CancelSelection(t)

PageRequests(t) ==
    \E r \in Requests :
        \/ CliWrite(t, r) \/ DesktopWrite(t, r) \/ CutRequest(t, r)
        \/ CliRead(t, r) \/ DesktopRead(t, r)
        \/ CliFetch(t, r) \/ DesktopFetch(t, r)

Next ==
    \/ \E p \in Processes : Boot(p) \/ Crash(p)
    \/ \E t \in Threads : Step(t) \/ PageRequests(t)

Spec == Init /\ [][Next]_vars

-----------------------------------------------------------------------------
(* Properties.                                                             *)

(* What the trust store lists is a union of closures that somebody asked   *)
(* to trust: a closure is committed whole or not at all (runtime.rs:193),  *)
(* whatever saves overlap, fail or are cut short.  That one save may       *)
(* forget what another one committed is not excluded.                      *)
TrustCommitsClosures ==
    Linked(TrustFile) /\ Content(TrustFile).kind = "trust" =>
        \E closures \in SUBSET asked : Content(TrustFile).hashes = UNION closures

(* What a process runs is of its system directory, in a closure somebody   *)
(* asked to trust, or what the user named for it: an editor or a loader of *)
(* the command line or of the file dialog.  And only the shell of the      *)
(* command line takes another directory for the system's than the one      *)
(* beside the executable, the one of a loader it was told to start.        *)
RunsOnlyTrusted ==
    \A p \in Processes : proc[p].status = "serving" =>
        /\ proc[p].running \in Held(proc[p].system) \cup (UNION asked) \cup proc[p].named
        /\ \/ proc[p].system = Shipped
           \/ p \notin Desktop /\ proc[p].named \cap Held(proc[p].system) # {}

(* Every profile on disk that is whole still names packages that are       *)
(* there, whole and of the right layer, beside a directory that was the    *)
(* system's for a process: nothing that happens after a profile was saved  *)
(* takes away what it refers to.                                           *)
ProfilesResolve ==
    \A id \in ProfileIds :
        LET path == File("profile", id)
        IN  Linked(path) /\ Content(path).kind = "profile" =>
                \E place \in DOMAIN Folders :
                    ValidProfile(Content(path).profile, Sources(place, registry),
                                 [f \in Fields |-> Unlimited])

(* The saved policy is whole at every moment, and a save that fails leaves *)
(* no temporary file that would refuse the next one; only a process that   *)
(* was killed does.                                                        *)
PolicySavesAreAtomic ==
    /\ PolicyReadable
    /\ crashes = 0 => \A p \in Processes : Linked(Temporary("policy", p)) =>
            \E t \in Threads : Process[t] = p /\ thread[t].pc \in {"sync", "commit"}

(* runtime.rs:193 says of trust_package_hashes: "Commits a verified        *)
(* package closure to the trust store with one atomic rename."  Then the   *)
(* store is readable at every moment.                                      *)
TrustStoreIsReadable == TrustReadable
=============================================================================
