--------------------------- MODULE SeedRuntimeProofs ---------------------------
(*****************************************************************************)
(* What the Seed writes and runs, for any packages, processes, threads,      *)
(* requests, failures and crashes: the trust store lists a union of          *)
(* closures that somebody asked to trust (TrustIsOfClosures), saves of the   *)
(* policy are atomic (PolicySavesHold), what runs was allowed to             *)
(* (OnlyTrustedRuns) and saved profiles resolve (ProfilesStayValid).         *)
(*                                                                           *)
(* TrustCommitsClosures speaks of one file.  Inductive is that it holds of   *)
(* every inode and of every list a thread is about to write, whatever file   *)
(* they belong to.  PolicySavesAreAtomic needs to know whose inode is        *)
(* whose: two files never have one inode, a thread that writes into an       *)
(* inode of the shared temporaries never writes into one of the policy, and  *)
(* the thread that syncs a temporary policy is the only one of its process;  *)
(* which takes that a process boots on one thread while the others rest.     *)
(* Both are parts of SInv.                                                   *)
(*                                                                           *)
(* RunsOnlyTrusted follows once it is known of each thread what it has       *)
(* looked up before it starts or replaces anything (RInv); ProfilesResolve,  *)
(* once nothing that can be loaded is ever written again (VInv).  Both lean  *)
(* on SInv.                                                                  *)
(*****************************************************************************)
EXTENDS SeedRuntime, FiniteSetTheorems, TLAPS

Threadlike(r) ==
    r = [pc |-> r.pc, request |-> r.request, content |-> r.content, inode |-> r.inode]

Serving(r) ==
    r = [status |-> r.status, policy |-> r.policy, system |-> r.system,
         loader |-> r.loader, running |-> r.running, named |-> r.named]

Shape ==
    /\ files \in [Paths -> Inodes \cup {NoInode}]
    /\ data = [i \in Inodes |-> data[i]]
    /\ thread = [t \in Threads |-> thread[t]] /\ \A t \in Threads : Threadlike(thread[t])
    /\ crashes \in Nat

ProcShape ==
    /\ proc = [p \in Processes |-> proc[p]]
    /\ \A p \in Processes : proc[p].status = "serving" => Serving(proc[p])

(* What the request of a thread is at a step.                              *)
RequestOk(t) ==
    /\ thread[t].pc = "readTrust" => Request(t).kind # "profiles" /\ Wanted(t) \in asked
    /\ thread[t].pc \in {"open", "write", "rename"} /\ Request(t).kind = "profiles" =>
          Request(t).profile.id \in ProfileIds
    /\ thread[t].pc \in {"policy", "profile", "select"} => Request(t).kind = "boot"
    /\ thread[t].pc \in {"validate", "load", "lookup", "replace"} => Request(t).kind # "boot"

Busy(t) == ~Waiting(t)
BootOk(t) ==
    Busy(t) => IF Request(t).kind = "boot" THEN t = Main[Process[t]] /\ My(t).status = "booting"
               ELSE My(t).status = "serving"

CoveredBy(hashes, all) == \E closures \in SUBSET all : hashes = UNION closures
Covered(hashes) == CoveredBy(hashes, asked)

TrustInv ==
    /\ \A i \in Inodes : data[i].kind = "trust" => Covered(data[i].hashes)
    /\ \A t \in Threads : thread[t].pc \in {"open", "write"} /\ thread[t].content.kind = "trust"
          => Covered(thread[t].content.hashes)

Saving(t) == thread[t].pc \in {"sync", "commit"}
PolicyPaths == {PolicyFile} \cup {Temporary("policy", p) : p \in Processes}

OneInode == \A p, q \in Paths : files[p] = files[q] /\ files[p] # NoInode => p = q

WriterOk(t) ==
    /\ thread[t].pc = "write" =>
          thread[t].inode # NoInode /\ \A q \in PolicyPaths : files[q] # thread[t].inode
    /\ thread[t].pc = "sync" =>
          files[OwnTemporary(t)] = thread[t].inode /\ thread[t].inode # NoInode
    /\ thread[t].pc = "commit" =>
          Linked(OwnTemporary(t)) /\ Content(OwnTemporary(t)).kind = "policy"

OneSaver ==
    \A t, u \in Threads : Saving(t) /\ Saving(u) /\ Process[t] = Process[u] => t = u

TempsHaveSavers ==
    crashes = 0 => \A p \in Processes : Linked(Temporary("policy", p)) =>
        \E t \in Threads : Process[t] = p /\ Saving(t)

PolicyInv ==
    /\ OneInode /\ \A t \in Threads : WriterOk(t)
    /\ OneSaver /\ PolicyReadable /\ TempsHaveSavers

SInv ==
    /\ Shape /\ ProcShape /\ TrustInv /\ PolicyInv
    /\ \A t \in Threads : RequestOk(t) /\ BootOk(t)

(* The paths of the policy are not those of the shared stores.             *)
LEMMA PathsDiffer ==
    /\ PolicyPaths \subseteq Paths /\ TrustFile \in Paths /\ Temporary("trust", "") \in Paths
    /\ \A id \in ProfileIds : File("profile", id) \in Paths /\ Temporary("profile", id) \in Paths
    /\ TrustFile \notin PolicyPaths /\ Temporary("trust", "") \notin PolicyPaths
    /\ \A id : File("profile", id) \notin PolicyPaths /\ Temporary("profile", id) \notin PolicyPaths
    /\ \A p \in Processes : Temporary("policy", p) # PolicyFile
    /\ \A p, q : Temporary("policy", p) = Temporary("policy", q) => p = q
    /\ NoInode \notin Inodes
<1>1. NoInode \notin Inodes
    BY SeedAssumption DEF NoInode
<1>2. QED
    BY <1>1 DEF PolicyPaths, Paths, TrustFile, PolicyFile, File, Temporary

-----------------------------------------------------------------------------
(* How a step changes its thread.                                          *)
Now(t, pc, request, content, inode) ==
    /\ thread' = [u \in Threads |-> thread'[u]]
    /\ thread'[t] = [pc |-> pc, request |-> request, content |-> content, inode |-> inode]
    /\ \A u \in Threads \ {t} : thread'[u] = thread[u]

LEMMA GoesTo ==
    ASSUME Shape, NEW t \in Threads, NEW pc, Goto(t, pc)
    PROVE  Now(t, pc, thread[t].request, thread[t].content, thread[t].inode)
<1>1. Threadlike(thread[t])
    BY DEF Shape
<1>2. thread'[t] = [thread[t] EXCEPT !.pc = pc] /\ \A u \in Threads \ {t} : thread'[u] = thread[u]
    BY DEF Goto, Shape
<1>3. QED
    BY <1>1, <1>2 DEF Goto, Shape, Now, Threadlike

LEMMA Becomes ==
    ASSUME Shape, NEW t \in Threads, NEW r, Threadlike(r), thread' = [thread EXCEPT ![t] = r]
    PROVE  Now(t, r.pc, r.request, r.content, r.inode)
BY DEF Shape, Now, Threadlike

LEMMA Prepares ==
    ASSUME Shape, NEW t \in Threads, NEW pc, NEW content,
           thread' = [thread EXCEPT ![t].pc = pc, ![t].content = content]
    PROVE  Now(t, pc, thread[t].request, content, thread[t].inode)
<1>1. Threadlike(thread[t])
    BY DEF Shape
<1> DEFINE one == [thread[t] EXCEPT !.pc = pc]
<1>2. /\ thread'[t] = [one EXCEPT !.content = content]
      /\ \A u \in Threads \ {t} : thread'[u] = thread[u]
    BY DEF Shape
<1>3. one = [pc |-> pc, request |-> thread[t].request, content |-> thread[t].content,
             inode |-> thread[t].inode]
    BY <1>1 DEF Threadlike
<1> HIDE DEF one
<1>4. thread' = [u \in Threads |-> thread'[u]]
    BY DEF Shape
<1>5. QED
    BY <1>2, <1>3, <1>4 DEF Now

LEMMA Holds ==
    ASSUME Shape, NEW t \in Threads, NEW pc, NEW inode,
           \/ thread' = [thread EXCEPT ![t].inode = inode, ![t].pc = pc]
           \/ thread' = [thread EXCEPT ![t].pc = pc, ![t].inode = inode]
    PROVE  Now(t, pc, thread[t].request, thread[t].content, inode)
<1>1. Threadlike(thread[t])
    BY DEF Shape
<1> DEFINE one == [thread[t] EXCEPT !.pc = pc]
           other == [thread[t] EXCEPT !.inode = inode]
<1>2. /\ thread'[t] = [one EXCEPT !.inode = inode] \/ thread'[t] = [other EXCEPT !.pc = pc]
      /\ \A u \in Threads \ {t} : thread'[u] = thread[u]
    BY DEF Shape
<1>3. /\ one = [pc |-> pc, request |-> thread[t].request, content |-> thread[t].content,
                inode |-> thread[t].inode]
      /\ other = [pc |-> thread[t].pc, request |-> thread[t].request,
                  content |-> thread[t].content, inode |-> inode]
    BY <1>1 DEF Threadlike
<1> HIDE DEF one, other
<1>4. thread' = [u \in Threads |-> thread'[u]]
    BY DEF Shape
<1>5. QED
    BY <1>2, <1>3, <1>4 DEF Now

-----------------------------------------------------------------------------
(* What a step leaves alone.                                               *)

(* A step that touches no file of the policy, and whose thread writes none. *)
LEMMA QuietPolicy ==
    ASSUME SInv, NEW t \in Threads, NEW pc, NEW request, NEW content, NEW inode,
           Now(t, pc, request, content, inode), ~Saving(t), pc \notin {"sync", "commit"},
           OneInode', UNCHANGED crashes,
           \A q \in PolicyPaths : /\ files'[q] = files[q]
                                  /\ Linked(q) => data'[files[q]] = data[files[q]],
           pc = "write" => inode # NoInode /\ \A q \in PolicyPaths : files[q] # inode
    PROVE  PolicyInv'
<1>1. /\ thread'[t].pc = pc /\ thread'[t].inode = inode
      /\ \A u \in Threads \ {t} : thread'[u] = thread[u]
    BY DEF Now
<1>2. \A u \in Threads : (Saving(u)' <=> Saving(u)) /\ (Saving(u) => thread'[u] = thread[u])
    BY <1>1 DEF Saving
<1>3. PolicyReadable'
    BY DEF SInv, PolicyInv, PolicyReadable, Linked, Content, PolicyPaths
<1>4. \A u \in Threads : WriterOk(u)'
    <2>1. ASSUME NEW u \in Threads \ {t}
          PROVE  WriterOk(u)'
        <3>1. OwnTemporary(u) \in PolicyPaths
            BY <2>1, SeedAssumption DEF OwnTemporary, PolicyPaths
        <3>2. QED
            BY <1>1, <2>1, <3>1 DEF SInv, PolicyInv, WriterOk, Linked, Content, OwnTemporary
    <2>2. WriterOk(t)'
        BY <1>1 DEF WriterOk
    <2>3. QED
        BY <2>1, <2>2
<1>5. OneSaver'
    BY <1>2 DEF SInv, PolicyInv, OneSaver
<1>6. TempsHaveSavers'
    BY <1>2 DEF SInv, PolicyInv, TempsHaveSavers, Linked, PolicyPaths
<1>7. QED
    BY <1>3, <1>4, <1>5, <1>6 DEF PolicyInv

(* ... in particular a step that touches no file.                          *)
LEMMA NoFile ==
    ASSUME SInv, NEW t \in Threads, NEW pc, NEW request, NEW content, NEW inode,
           Now(t, pc, request, content, inode), ~Saving(t),
           pc \notin {"write", "sync", "commit"}, UNCHANGED <<files, data, crashes>>
    PROVE  PolicyInv'
<1>1. OneInode'
    BY DEF SInv, PolicyInv, OneInode
<1>2. QED
    BY <1>1, QuietPolicy

(* What is covered stays so while more is asked for.                       *)
LEMMA TrustKept ==
    ASSUME SInv, NEW t \in Threads, NEW pc, NEW request, NEW content, NEW inode,
           Now(t, pc, request, content, inode), asked \subseteq asked',
           pc \in {"open", "write"} /\ content.kind = "trust" => CoveredBy(content.hashes, asked'),
           \A i \in Inodes : data'[i] = data[i] \/ data'[i].kind # "trust"
                             \/ Covered(data'[i].hashes)
    PROVE  TrustInv'
<1>1. \A hashes : Covered(hashes) => CoveredBy(hashes, asked')
    BY DEF Covered, CoveredBy
<1>2. /\ thread'[t].pc = pc /\ thread'[t].content = content
      /\ \A u \in Threads \ {t} : thread'[u] = thread[u]
    BY DEF Now
<1>3. \A i \in Inodes : data'[i].kind = "trust" => CoveredBy(data'[i].hashes, asked')
    BY <1>1 DEF SInv, TrustInv
<1>4. ASSUME NEW u \in Threads, thread'[u].pc \in {"open", "write"},
             thread'[u].content.kind = "trust"
      PROVE  CoveredBy(thread'[u].content.hashes, asked')
    BY <1>1, <1>2, <1>4 DEF SInv, TrustInv
<1>5. QED
    BY <1>3, <1>4 DEF TrustInv, Covered

LEMMA RequestsKept ==
    ASSUME SInv, NEW t \in Threads, NEW pc, NEW request, NEW content, NEW inode,
           Now(t, pc, request, content, inode), asked \subseteq asked', RequestOk(t)'
    PROVE  \A u \in Threads : RequestOk(u)'
<1>1. ASSUME NEW u \in Threads \ {t}
      PROVE  RequestOk(u)'
    BY <1>1 DEF SInv, RequestOk, Now, Request, Wanted
<1>2. QED
    BY <1>1

LEMMA ShapeKept ==
    ASSUME SInv, NEW t \in Threads, NEW pc, NEW request, NEW content, NEW inode,
           Now(t, pc, request, content, inode), UNCHANGED crashes,
           files' \in [Paths -> Inodes \cup {NoInode}], data' = [i \in Inodes |-> data'[i]]
    PROVE  Shape'
<1>1. \A u \in Threads : Threadlike(thread'[u])
    BY DEF Now, SInv, Shape, Threadlike
<1>2. QED
    BY <1>1 DEF SInv, Shape, Now, Threadlike

(* A request goes on, begins or ends, and the processes do not change.     *)
LEMMA BootsKept ==
    ASSUME SInv, NEW t \in Threads, NEW pc, NEW request, NEW content, NEW inode,
           Now(t, pc, request, content, inode), proc' = proc,
           \/ pc \in {"idle", "failed"}
           \/ Busy(t) /\ request = thread[t].request
           \/ request.kind # "boot" /\ My(t).status = "serving"
    PROVE  ProcShape' /\ \A u \in Threads : BootOk(u)'
<1>1. ProcShape'
    BY DEF SInv, ProcShape
<1>2. ASSUME NEW u \in Threads \ {t}
      PROVE  BootOk(u)'
    BY <1>2 DEF SInv, BootOk, Now, Busy, Waiting, Request, My
<1>3. BootOk(t)'
    BY DEF SInv, BootOk, Now, Busy, Waiting, Request, My
<1>4. QED
    BY <1>1, <1>2, <1>3

(* A failure: a process that boots ends, and had one thread at work.       *)
LEMMA FailsOk ==
    ASSUME SInv, NEW t \in Threads, Busy(t), Fail(t)
    PROVE  /\ ProcShape' /\ \A u \in Threads : BootOk(u)'
           /\ \E pc \in {"idle", "failed"} : Now(t, pc, Idle.request, Idle.content, Idle.inode)
<1>1. /\ Threadlike(Idle) /\ Threadlike(Failed) /\ Idle.pc = "idle" /\ Failed.pc = "failed"
      /\ Failed.request = Idle.request /\ Failed.content = Idle.content /\ Failed.inode = Idle.inode
    BY DEF Idle, Failed, Threadlike
<1>2. CASE Request(t).kind = "boot"
    <2>1. thread' = [thread EXCEPT ![t] = Idle] /\ proc' = [proc EXCEPT ![Process[t]] = Off]
        BY <1>2 DEF Fail
    <2>2. Now(t, "idle", Idle.request, Idle.content, Idle.inode)
        BY <1>1, <2>1, Becomes DEF SInv
    <2>3. /\ Process[t] \in Processes /\ proc'[Process[t]] = Off
          /\ \A p \in Processes \ {Process[t]} : proc'[p] = proc[p]
          /\ proc' = [p \in Processes |-> proc'[p]]
        BY <2>1, SeedAssumption DEF SInv, ProcShape
    <2>4. ProcShape'
        BY <2>3 DEF SInv, ProcShape, Off, Serving
    <2>5. t = Main[Process[t]] /\ My(t).status = "booting"
        BY <1>2 DEF SInv, BootOk
    <2>6. ASSUME NEW u \in Threads
          PROVE  BootOk(u)'
        <3>1. CASE u = t
            BY <2>2, <3>1 DEF BootOk, Busy, Waiting, Now
        <3>2. CASE u # t /\ Process[u] = Process[t]
            <4>1. ~Busy(u)
                BY <2>5, <3>2 DEF SInv, BootOk, My
            <4>2. QED
                BY <2>2, <3>2, <4>1 DEF BootOk, Busy, Waiting, Now
        <3>3. CASE Process[u] # Process[t]
            <4>1. thread'[u] = thread[u] /\ proc'[Process[u]] = proc[Process[u]]
                BY <2>2, <2>3, <3>3, SeedAssumption DEF Now
            <4>2. QED
                BY <4>1 DEF SInv, BootOk, Busy, Waiting, Request, My
        <3>4. QED
            BY <3>1, <3>2, <3>3
    <2>7. QED
        BY <2>2, <2>4, <2>6
<1>3. CASE Request(t).kind # "boot"
    <2>1. thread' = [thread EXCEPT ![t] = Failed] /\ proc' = proc
        BY <1>3 DEF Fail
    <2>2. Now(t, "failed", Idle.request, Idle.content, Idle.inode)
        BY <1>1, <2>1, Becomes DEF SInv
    <2>3. QED
        BY <2>1, <2>2, BootsKept
<1>4. QED
    BY <1>2, <1>3

LEMMA FailedOk ==
    ASSUME SInv, NEW t \in Threads, Busy(t), ~Saving(t), Fail(t),
           UNCHANGED <<files, data, asked, crashes>>
    PROVE  SInv'
<1>1. ProcShape' /\ \A u \in Threads : BootOk(u)'
    BY FailsOk
<1>2. PICK pc \in {"idle", "failed"} : Now(t, pc, Idle.request, Idle.content, Idle.inode)
    BY FailsOk
<1>3. RequestOk(t)'
    BY <1>2 DEF RequestOk, Now
<1>4. PolicyInv'
    BY <1>2, NoFile
<1>5. TrustInv'
    BY <1>2, TrustKept
<1>6. Shape'
    BY <1>2, ShapeKept DEF SInv, Shape
<1>7. \A u \in Threads : RequestOk(u)'
    BY <1>2, <1>3, RequestsKept
<1>8. QED
    BY <1>1, <1>4, <1>5, <1>6, <1>7 DEF SInv

LEMMA RefusedOk ==
    ASSUME SInv, NEW t \in Threads, Busy(t), ~Saving(t), Refuse(t)
    PROVE  SInv'
BY FailedOk DEF Refuse, disk, counters

(* A step that changes its thread alone.                                   *)
LEMMA ThreadGoesOn ==
    ASSUME SInv, NEW t \in Threads, NEW pc, NEW request, NEW content, NEW inode,
           Now(t, pc, request, content, inode), ~Saving(t),
           pc \notin {"write", "sync", "commit"}, UNCHANGED <<files, data, crashes>>,
           asked \subseteq asked',
           pc = "open" /\ content.kind = "trust" => CoveredBy(content.hashes, asked'),
           RequestOk(t)', ProcShape', \A u \in Threads : BootOk(u)'
    PROVE  SInv'
<1>1. Shape'
    BY ShapeKept DEF SInv, Shape
<1>2. PolicyInv'
    BY NoFile
<1>3. TrustInv'
    BY TrustKept
<1>4. \A u \in Threads : RequestOk(u)'
    BY RequestsKept
<1>5. QED
    BY <1>1, <1>2, <1>3, <1>4 DEF SInv

(* ... and the process and the request of its thread stay what they are.   *)
LEMMA HandlerGoesOn ==
    ASSUME SInv, NEW t \in Threads, NEW pc, NEW content, Busy(t), ~Saving(t),
           Now(t, pc, thread[t].request, content, thread[t].inode),
           pc \notin {"write", "sync", "commit"}, UNCHANGED <<files, data, proc, asked, crashes>>,
           pc = "open" /\ content.kind = "trust" => Covered(content.hashes),
           RequestOk(t)'
    PROVE  SInv'
<1>1. ProcShape' /\ \A u \in Threads : BootOk(u)'
    BY BootsKept
<1>2. pc = "open" /\ content.kind = "trust" => CoveredBy(content.hashes, asked')
    BY DEF Covered
<1>3. QED
    BY <1>1, <1>2, ThreadGoesOn

LEMMA Asked ==
    ASSUME SInv, TrustReadable, NEW hashes \in asked
    PROVE  Covered(TrustedHashes \cup hashes)
<1>1. CASE Linked(TrustFile)
    <2>1. files[TrustFile] \in Inodes
        BY <1>1, PathsDiffer DEF SInv, Shape, Linked
    <2>2. Covered(TrustedHashes)
        BY <1>1, <2>1 DEF TrustReadable, TrustedHashes, Content, SInv, TrustInv
    <2>3. PICK closures \in SUBSET asked : TrustedHashes = UNION closures
        BY <2>2 DEF Covered, CoveredBy
    <2>4. /\ closures \cup {hashes} \in SUBSET asked
          /\ TrustedHashes \cup hashes = UNION (closures \cup {hashes})
        BY <2>3
    <2>5. QED
        BY <2>4 DEF Covered, CoveredBy
<1>2. CASE ~Linked(TrustFile)
    <2>1. {hashes} \in SUBSET asked /\ TrustedHashes \cup hashes = UNION {hashes}
        BY <1>2 DEF TrustedHashes
    <2>2. QED
        BY <2>1 DEF Covered, CoveredBy
<1>3. QED
    BY <1>1, <1>2

-----------------------------------------------------------------------------
(* The handlers of the shared stores.                                      *)
LEMMA ReadTrustOk ==
    ASSUME SInv, NEW t \in Threads, ReadTrust(t)
    PROVE  SInv'
<1>1. Busy(t) /\ ~Saving(t) /\ thread[t].pc = "readTrust"
    BY DEF ReadTrust, At, Busy, Waiting, Saving
<1>2. CASE TrustReadable /\ Wanted(t) # {}
    <2> DEFINE content == TrustContent(TrustedHashes \cup Wanted(t))
    <2>1. /\ thread' = [thread EXCEPT ![t].pc = "open", ![t].content = content]
          /\ UNCHANGED <<files, data, proc, asked, crashes>>
        BY <1>2 DEF ReadTrust, disk, counters
    <2>2. Covered(TrustedHashes \cup Wanted(t)) /\ Request(t).kind # "profiles"
        BY <1>1, <1>2, Asked DEF SInv, RequestOk
    <2>3. content.hashes = TrustedHashes \cup Wanted(t)
        BY DEF TrustContent
    <2> HIDE DEF content
    <2>4. Now(t, "open", thread[t].request, content, thread[t].inode)
        BY <2>1, Prepares DEF SInv
    <2>5. RequestOk(t)'
        BY <2>2, <2>4 DEF RequestOk, Request, Now
    <2>6. Covered(content.hashes)
        BY <2>2, <2>3
    <2>7. QED
        BY <1>1, <2>1, <2>4, <2>5, <2>6, HandlerGoesOn
<1>3. CASE ~(TrustReadable /\ Wanted(t) # {})
    BY <1>1, <1>3, RefusedOk DEF ReadTrust
<1>4. QED
    BY <1>2, <1>3

LEMMA ValidateProfileOk ==
    ASSUME SInv, NEW t \in Threads, ValidateProfile(t)
    PROVE  SInv'
<1>1. Busy(t) /\ ~Saving(t) /\ thread[t].pc = "validate"
    BY DEF ValidateProfile, At, Busy, Waiting, Saving
<1> DEFINE content == ProfileContent(Request(t).profile)
<1>2. \/ Refuse(t)
      \/ /\ Request(t).profile.id \in ProfileIds
         /\ thread' = [thread EXCEPT ![t].pc = "open", ![t].content = content]
         /\ UNCHANGED <<files, data, proc, asked, crashes>>
    BY DEF ValidateProfile, disk, counters
<1>3. content.kind # "trust"
    BY DEF ProfileContent
<1> HIDE DEF content
<1>4. CASE Refuse(t)
    BY <1>1, <1>4, RefusedOk
<1>5. CASE ~Refuse(t)
    <2>1. Now(t, "open", thread[t].request, content, thread[t].inode)
        BY <1>2, <1>5, Prepares DEF SInv
    <2>2. RequestOk(t)'
        BY <1>2, <1>5, <2>1 DEF RequestOk, Request, Now
    <2>3. QED
        BY <1>1, <1>2, <1>3, <1>5, <2>1, <2>2, HandlerGoesOn
<1>6. QED
    BY <1>4, <1>5

(* Packages are no files of these stores.                                  *)
LEMMA EditorOk ==
    ASSUME SInv, NEW t \in Threads, LoadEditor(t) \/ LookUpTrust(t)
    PROVE  SInv'
<1>1. Busy(t) /\ ~Saving(t) /\ Request(t).kind # "boot"
    BY DEF LoadEditor, LookUpTrust, At, Busy, Waiting, Saving, SInv, RequestOk
<1>2. CASE Refuse(t)
    BY <1>1, <1>2, RefusedOk
<1>3. CASE ~Refuse(t)
    <2>1. UNCHANGED <<files, data, proc, asked, crashes>>
        BY <1>3 DEF LoadEditor, LookUpTrust, disk, counters
    <2>2. \E pc, content : /\ pc \in {"lookup", "replace"}
                          /\ Now(t, pc, thread[t].request, content, thread[t].inode)
        <3>1. CASE LoadEditor(t)
            <4> DEFINE r == Request(t)
                       pc == IF r.origin = "user" THEN "lookup" ELSE "replace"
                       content == Whole(Loaded(Sources(My(t).system, registry), r.origin, r.name))
            <4>1. thread' = [thread EXCEPT ![t].pc = pc, ![t].content = content]
                BY <1>3, <3>1 DEF LoadEditor
            <4>2. pc \in {"lookup", "replace"}
                OBVIOUS
            <4> HIDE DEF pc, content
            <4>3. Now(t, pc, thread[t].request, content, thread[t].inode)
                BY <4>1, Prepares DEF SInv
            <4>4. QED
                BY <4>2, <4>3
        <3>2. CASE LookUpTrust(t)
            BY <1>3, <3>2, GoesTo DEF LookUpTrust, SInv
        <3>3. QED
            BY <3>1, <3>2
    <2>3. PICK pc, content :
            /\ pc \in {"lookup", "replace"}
            /\ Now(t, pc, thread[t].request, content, thread[t].inode)
        BY <2>2
    <2>4. RequestOk(t)'
        BY <1>1, <2>3 DEF RequestOk, Request, Now
    <2>5. QED
        BY <1>1, <2>1, <2>3, <2>4, HandlerGoesOn
<1>4. QED
    BY <1>2, <1>3

-----------------------------------------------------------------------------
(* What the calls on files do to the files.                                *)

(* Opening a file takes its own inode, or one that nobody uses.            *)
LEMMA Opens ==
    ASSUME SInv, NEW t \in Threads, NEW path \in Paths, NEW pc, Truncate(t, path, pc)
    PROVE  \E i \in Inodes :
              /\ files' = [files EXCEPT ![path] = i] /\ data' = [data EXCEPT ![i] = Empty]
              /\ Now(t, pc, thread[t].request, thread[t].content, i)
              /\ \A q \in Paths \ {path} : files[q] # i
              /\ Linked(path) \/ Free(i)
              /\ OneInode' /\ files' \in [Paths -> Inodes \cup {NoInode}]
              /\ data' = [j \in Inodes |-> data'[j]]
<1>1. PICK i \in Inodes :
        /\ IF Linked(path) THEN i = files[path] ELSE LeastFree(i)
        /\ files' = [files EXCEPT ![path] = i] /\ data' = [data EXCEPT ![i] = Empty]
        /\ thread' = [thread EXCEPT ![t].inode = i, ![t].pc = pc]
    BY DEF Truncate
<1>2. Now(t, pc, thread[t].request, thread[t].content, i)
    BY <1>1, Holds DEF SInv
<1>3. Linked(path) \/ Free(i)
    BY <1>1 DEF LeastFree
<1>4. \A q \in Paths \ {path} : files[q] # i
    BY <1>1, <1>3 DEF Free, SInv, PolicyInv, OneInode, Linked
<1>5. files' \in [Paths -> Inodes \cup {NoInode}] /\ data' = [j \in Inodes |-> data'[j]]
    BY <1>1 DEF SInv, Shape
<1>6. /\ files'[path] = i
      /\ \A q \in Paths \ {path} : files'[q] = files[q]
    BY <1>1 DEF SInv, Shape
<1>7. OneInode'
    BY <1>4, <1>6 DEF SInv, PolicyInv, OneInode
<1>8. QED
    BY <1>1, <1>2, <1>3, <1>4, <1>5, <1>7

LEMMA Moves ==
    ASSUME SInv, NEW from \in Paths, NEW to \in Paths, from # to, Linked(from), Move(from, to)
    PROVE  /\ files'[to] = files[from] /\ files'[from] = NoInode
           /\ \A q \in Paths \ {from, to} : files'[q] = files[q]
           /\ OneInode' /\ files' \in [Paths -> Inodes \cup {NoInode}]
<1>1. /\ files'[to] = files[from] /\ files'[from] = NoInode
      /\ \A q \in Paths \ {from, to} : files'[q] = files[q]
      /\ files' \in [Paths -> Inodes \cup {NoInode}]
    BY DEF Move, SInv, Shape
<1>2. OneInode'
    BY <1>1 DEF SInv, PolicyInv, OneInode
<1>3. QED
    BY <1>1, <1>2

LEMMA Removes ==
    ASSUME SInv, NEW path \in Paths, files' = [files EXCEPT ![path] = NoInode]
    PROVE  /\ files'[path] = NoInode /\ \A q \in Paths \ {path} : files'[q] = files[q]
           /\ OneInode' /\ files' \in [Paths -> Inodes \cup {NoInode}]
<1>1. /\ files'[path] = NoInode /\ \A q \in Paths \ {path} : files'[q] = files[q]
      /\ files' \in [Paths -> Inodes \cup {NoInode}]
    BY DEF SInv, Shape
<1>2. OneInode'
    BY <1>1 DEF SInv, PolicyInv, OneInode
<1>3. QED
    BY <1>1, <1>2

(* A write that fails leaves something torn, and only in its inode.        *)
LEMMA WritesPart ==
    ASSUME SInv, NEW t \in Threads, PutPart(t)
    PROVE  /\ data' = [i \in Inodes |-> data'[i]]
           /\ \A i \in Inodes : /\ i # thread[t].inode => data'[i] = data[i]
                                /\ data'[i] = data[i] \/ data'[i].kind = "torn"
<1> DEFINE part == Torn(IF data[thread[t].inode].kind = "empty" THEN 1
                        ELSE Length(data[thread[t].inode]))
<1>1. part.kind = "torn"
    BY DEF Torn
<1>2. data' = [data EXCEPT ![thread[t].inode] = part]
    BY DEF PutPart
<1> HIDE DEF part
<1>3. QED
    BY <1>1, <1>2 DEF SInv, Shape

LEMMA BesideIt ==
    ASSUME NEW store, NEW owner
    PROVE  Beside(File(store, owner)) = Temporary(store, owner)
           /\ Temporary(store, owner) # File(store, owner)
<1>1. Beside(File(store, owner)) = Temporary(store, owner)
    <2>1. ASSUME NEW before, NEW after
          PROVE  [[store |-> store, owner |-> owner, temporary |-> before]
                        EXCEPT !.temporary = after]
                 = [store |-> store, owner |-> owner, temporary |-> after]
        OBVIOUS
    <2>2. QED
        BY <2>1 DEF Beside, File, Temporary
<1>2. Temporary(store, owner).temporary = TRUE /\ File(store, owner).temporary = FALSE
    BY DEF File, Temporary
<1>3. QED
    BY <1>1, <1>2

LEMMA SharedPaths ==
    ASSUME SInv, NEW t \in Threads, thread[t].pc \in {"open", "write", "rename"}
    PROVE  /\ Target(t) \in Paths \ PolicyPaths /\ Beside(Target(t)) \in Paths \ PolicyPaths
           /\ Beside(Target(t)) # Target(t)
<1>1. CASE Request(t).kind = "profiles"
    <2>1. Request(t).profile.id \in ProfileIds
        BY <1>1 DEF SInv, RequestOk
    <2>2. Target(t) = File("profile", Request(t).profile.id)
        BY <1>1 DEF Target
    <2>3. /\ Beside(Target(t)) = Temporary("profile", Request(t).profile.id)
          /\ Beside(Target(t)) # Target(t)
        BY <2>2, BesideIt
    <2> DEFINE id == Request(t).profile.id
    <2>4. /\ File("profile", id) \in Paths \ PolicyPaths
          /\ Temporary("profile", id) \in Paths \ PolicyPaths
        <3>1. id \in ProfileIds
            BY <2>1
        <3> HIDE DEF id
        <3>2. QED
            BY <3>1, PathsDiffer
    <2>5. QED
        BY <2>2, <2>3, <2>4
<1>2. CASE Request(t).kind # "profiles"
    <2>1. Target(t) = TrustFile
        BY <1>2 DEF Target
    <2>2. Beside(TrustFile) = Temporary("trust", "") /\ Temporary("trust", "") # TrustFile
        BY BesideIt DEF TrustFile
    <2>3. QED
        BY <2>1, <2>2, PathsDiffer
<1>3. QED
    BY <1>1, <1>2

-----------------------------------------------------------------------------
(* A step on files of a thread whose request goes on or ends.              *)
LEMMA StepOk ==
    ASSUME SInv, NEW t \in Threads, NEW pc, NEW request, NEW content, NEW inode,
           Now(t, pc, request, content, inode), UNCHANGED <<asked, crashes>>,
           files' \in [Paths -> Inodes \cup {NoInode}], data' = [i \in Inodes |-> data'[i]],
           \A i \in Inodes : \/ data'[i] = data[i] \/ data'[i].kind # "trust"
                             \/ Covered(data'[i].hashes),
           pc \in {"open", "write"} /\ content.kind = "trust" => Covered(content.hashes),
           ProcShape', \A u \in Threads : BootOk(u)', RequestOk(t)', PolicyInv'
    PROVE  SInv'
<1>1. Shape'
    BY ShapeKept
<1>2. pc \in {"open", "write"} /\ content.kind = "trust" => CoveredBy(content.hashes, asked')
    BY DEF Covered
<1>3. TrustInv'
    BY <1>2, TrustKept
<1>4. \A u \in Threads : RequestOk(u)'
    BY RequestsKept
<1>5. QED
    BY <1>1, <1>3, <1>4 DEF SInv

LEMMA OpenTemporaryOk ==
    ASSUME SInv, NEW t \in Threads, OpenTemporary(t)
    PROVE  SInv'
<1> DEFINE path == Beside(Target(t))
<1>1. /\ thread[t].pc = "open" /\ Busy(t) /\ ~Saving(t)
      /\ Truncate(t, path, "write") /\ UNCHANGED <<proc, asked, crashes>>
    BY DEF OpenTemporary, At, Busy, Waiting, Saving, counters
<1>2. path \in Paths /\ path \notin PolicyPaths
    BY <1>1, SharedPaths
<1> HIDE DEF path
<1>3. PICK i \in Inodes :
        /\ files' = [files EXCEPT ![path] = i] /\ data' = [data EXCEPT ![i] = Empty]
        /\ Now(t, "write", thread[t].request, thread[t].content, i)
        /\ \A q \in Paths \ {path} : files[q] # i
        /\ OneInode' /\ files' \in [Paths -> Inodes \cup {NoInode}]
        /\ data' = [j \in Inodes |-> data'[j]]
    BY <1>1, <1>2, Opens
<1>4. \A q \in PolicyPaths : /\ files'[q] = files[q] /\ files[q] # i
                             /\ Linked(q) => data'[files[q]] = data[files[q]]
    BY <1>2, <1>3, PathsDiffer DEF SInv, Shape, Linked
<1>5. PolicyInv'
    <2>1. i # NoInode
        BY PathsDiffer
    <2>2. QED
        BY <1>1, <1>3, <1>4, <2>1, QuietPolicy
<1>6. \A j \in Inodes : data'[j] = data[j] \/ data'[j].kind # "trust"
    <2>1. Empty.kind # "trust"
        BY DEF Empty
    <2>2. QED
        BY <1>3, <2>1 DEF SInv, Shape
<1>7. ProcShape' /\ \A u \in Threads : BootOk(u)'
    BY <1>1, <1>3, BootsKept
<1>8. RequestOk(t)'
    BY <1>1, <1>3 DEF SInv, RequestOk, Request, Now
<1>9. thread[t].content.kind = "trust" => Covered(thread[t].content.hashes)
    BY <1>1 DEF SInv, TrustInv
<1>10. QED
    BY <1>1, <1>3, <1>5, <1>6, <1>7, <1>8, <1>9, StepOk

LEMMA WriteTemporaryOk ==
    ASSUME SInv, NEW t \in Threads, WriteTemporary(t)
    PROVE  SInv'
<1>1. /\ thread[t].pc = "write" /\ Busy(t) /\ ~Saving(t)
      /\ UNCHANGED <<files, asked, crashes>>
    BY DEF WriteTemporary, At, Busy, Waiting, Saving
<1>2. \A q \in PolicyPaths : files[q] # thread[t].inode
    BY <1>1 DEF SInv, PolicyInv, WriterOk
<1>3. OneInode' /\ files' \in [Paths -> Inodes \cup {NoInode}]
    BY <1>1 DEF SInv, Shape, PolicyInv, OneInode
<1>4. ASSUME NEW pc \in {"rename", "idle", "failed"}, NEW request, NEW content, NEW inode,
             Now(t, pc, request, content, inode),
             \A i \in Inodes : i # thread[t].inode => data'[i] = data[i]
      PROVE  PolicyInv'
    <2>1. \A q \in PolicyPaths : /\ files'[q] = files[q]
                                 /\ Linked(q) => data'[files[q]] = data[files[q]]
        BY <1>1, <1>2, <1>4, PathsDiffer DEF SInv, Shape, Linked
    <2>2. QED
        BY <1>1, <1>3, <1>4, <2>1, QuietPolicy
<1>5. CASE /\ PutContent(t) /\ UNCHANGED proc
           /\ thread' = [thread EXCEPT ![t].pc = "rename", ![t].inode = NoInode]
    <2> DEFINE new == Overlay(data[thread[t].inode], thread[t].content)
    <2>1. Now(t, "rename", thread[t].request, thread[t].content, NoInode)
        BY <1>5, Holds DEF SInv
    <2>2. new.kind = "trust" => Covered(new.hashes)
        BY <1>1 DEF Overlay, Torn, SInv, TrustInv
    <2>3. data' = [data EXCEPT ![thread[t].inode] = new]
        BY <1>5 DEF PutContent
    <2> HIDE DEF new
    <2>4. /\ data' = [i \in Inodes |-> data'[i]]
          /\ \A i \in Inodes : i # thread[t].inode => data'[i] = data[i]
          /\ \A i \in Inodes : data'[i] = data[i] \/ data'[i] = new
        BY <2>3 DEF SInv, Shape
    <2>5. \A i \in Inodes : \/ data'[i] = data[i] \/ data'[i].kind # "trust"
                            \/ Covered(data'[i].hashes)
        BY <2>2, <2>4
    <2>6. PolicyInv'
        BY <1>4, <2>1, <2>4
    <2>7. ProcShape' /\ \A u \in Threads : BootOk(u)'
        BY <1>1, <1>5, <2>1, BootsKept
    <2>8. RequestOk(t)'
        BY <1>1, <2>1 DEF SInv, RequestOk, Request, Now
    <2>9. QED
        BY <1>1, <1>3, <2>1, <2>4, <2>5, <2>6, <2>7, <2>8, StepOk
<1>6. CASE PutPart(t) /\ Fail(t)
    <2>1. ProcShape' /\ \A u \in Threads : BootOk(u)'
        BY <1>1, <1>6, FailsOk
    <2>2. PICK pc \in {"idle", "failed"} : Now(t, pc, Idle.request, Idle.content, Idle.inode)
        BY <1>1, <1>6, FailsOk
    <2>3. /\ data' = [i \in Inodes |-> data'[i]]
          /\ \A i \in Inodes : i # thread[t].inode => data'[i] = data[i]
          /\ \A i \in Inodes : data'[i] = data[i] \/ data'[i].kind # "trust"
        BY <1>6, WritesPart
    <2>4. PolicyInv'
        BY <1>4, <2>2, <2>3
    <2>5. RequestOk(t)'
        BY <2>2 DEF RequestOk, Now
    <2>6. QED
        BY <1>1, <1>3, <2>1, <2>2, <2>3, <2>4, <2>5, StepOk
<1>7. QED
    BY <1>5, <1>6 DEF WriteTemporary

LEMMA CommitTemporaryOk ==
    ASSUME SInv, NEW t \in Threads, CommitTemporary(t)
    PROVE  SInv'
<1> DEFINE from == Beside(Target(t))   to == Target(t)
<1>1. thread[t].pc = "rename" /\ Busy(t) /\ ~Saving(t)
    BY DEF CommitTemporary, At, Busy, Waiting, Saving
<1>2. /\ from \in Paths /\ to \in Paths /\ from # to
      /\ from \notin PolicyPaths /\ to \notin PolicyPaths
    BY <1>1, SharedPaths
<1>3. CASE ~Linked(from)
    BY <1>1, <1>3, RefusedOk DEF CommitTemporary
<1>4. CASE Linked(from)
    <2>1. /\ Move(from, to) /\ UNCHANGED <<data, proc, asked, crashes>>
          /\ IF Request(t).kind = "boot" THEN Goto(t, "profile") ELSE Answer(t)
        BY <1>4 DEF CommitTemporary, counters
    <2> HIDE DEF from, to
    <2>2. /\ \A q \in Paths \ {from, to} : files'[q] = files[q]
          /\ OneInode' /\ files' \in [Paths -> Inodes \cup {NoInode}]
        BY <1>2, <1>4, <2>1, Moves
    <2>3. \A q \in PolicyPaths : files'[q] = files[q]
        BY <1>2, <2>2, PathsDiffer
    <2>4. data' = [i \in Inodes |-> data'[i]]
        BY <2>1 DEF SInv, Shape
    <2>5. CASE Request(t).kind = "boot"
        <3>1. Now(t, "profile", thread[t].request, thread[t].content, thread[t].inode)
            BY <2>1, <2>5, GoesTo DEF SInv
        <3>2. PolicyInv'
            BY <1>1, <2>1, <2>2, <2>3, <3>1, QuietPolicy
        <3>3. ProcShape' /\ \A u \in Threads : BootOk(u)'
            BY <1>1, <2>1, <3>1, BootsKept
        <3>4. RequestOk(t)'
            BY <2>5, <3>1 DEF RequestOk, Request, Now
        <3>5. QED
            BY <2>1, <2>2, <2>4, <3>1, <3>2, <3>3, <3>4, StepOk
    <2>6. CASE Request(t).kind # "boot"
        <3>1. Threadlike(Idle) /\ Idle.pc = "idle"
            BY DEF Idle, Threadlike
        <3>2. Now(t, "idle", Idle.request, Idle.content, Idle.inode)
            BY <2>1, <2>6, <3>1, Becomes DEF SInv, Answer
        <3>3. PolicyInv'
            BY <1>1, <2>1, <2>2, <2>3, <3>2, QuietPolicy
        <3>4. ProcShape' /\ \A u \in Threads : BootOk(u)'
            BY <2>1, <3>2, BootsKept
        <3>5. RequestOk(t)'
            BY <3>2 DEF RequestOk, Now
        <3>6. QED
            BY <2>1, <2>2, <2>4, <3>2, <3>3, <3>4, <3>5, StepOk
    <2>7. QED
        BY <2>5, <2>6
<1>5. QED
    BY <1>3, <1>4

-----------------------------------------------------------------------------
(* The policy.  A step of the one saver of a process that leaves the       *)
(* temporary files of the other processes alone.                           *)
LEMMA OthersSave ==
    ASSUME SInv, NEW t \in Threads, NEW pc, NEW request, NEW content, NEW inode,
           Now(t, pc, request, content, inode), pc # "write", OneInode', UNCHANGED crashes,
           \A u \in Threads : Saving(u) /\ Process[u] = Process[t] => u = t,
           \A p \in Processes \ {Process[t]} :
                LET q == Temporary("policy", p)
                IN  files'[q] = files[q] /\ (Linked(q) => data'[files[q]] = data[files[q]]),
           \A u \in Threads \ {t} : thread[u].pc = "write" =>
                \A q \in PolicyPaths : files'[q] # thread[u].inode,
           PolicyReadable', WriterOk(t)',
           crashes = 0 /\ Linked(OwnTemporary(t))' => pc \in {"sync", "commit"}
    PROVE  PolicyInv'
<1>1. /\ thread'[t].pc = pc /\ thread'[t].inode = inode
      /\ \A u \in Threads \ {t} : thread'[u] = thread[u]
    BY DEF Now
<1>2. \A u \in Threads \ {t} : Saving(u)' <=> Saving(u)
    BY <1>1 DEF Saving
<1>3. ASSUME NEW u \in Threads \ {t}
      PROVE  WriterOk(u)'
    <2>1. CASE Saving(u)
        <3>1. Process[u] \in Processes \ {Process[t]}
            BY <1>3, <2>1, SeedAssumption
        <3>2. QED
            BY <1>1, <1>3, <2>1, <3>1
               DEF SInv, PolicyInv, WriterOk, Saving, OwnTemporary, Linked, Content
    <2>2. CASE thread[u].pc = "write"
        BY <1>1, <1>3, <2>2 DEF SInv, PolicyInv, WriterOk
    <2>3. CASE ~Saving(u) /\ thread[u].pc # "write"
        BY <1>1, <1>3, <2>3 DEF WriterOk, Saving
    <2>4. QED
        BY <2>1, <2>2, <2>3
<1>4. OneSaver'
    BY <1>2 DEF SInv, PolicyInv, OneSaver
<1>5. ASSUME crashes' = 0, NEW p \in Processes, Linked(Temporary("policy", p))'
      PROVE  \E u \in Threads : Process[u] = p /\ Saving(u)'
    <2>1. CASE p = Process[t]
        BY <1>1, <1>5, <2>1 DEF OwnTemporary, Saving
    <2>2. CASE p # Process[t]
        <3>1. Linked(Temporary("policy", p))
            BY <1>5, <2>2 DEF Linked
        <3>2. PICK u \in Threads : Process[u] = p /\ Saving(u)
            BY <1>5, <3>1 DEF SInv, PolicyInv, TempsHaveSavers
        <3>3. QED
            BY <1>2, <2>2, <3>2
    <2>3. QED
        BY <2>1, <2>2
<1>6. TempsHaveSavers'
    BY <1>5 DEF TempsHaveSavers
<1>7. QED
    BY <1>3, <1>4, <1>6 DEF PolicyInv

LEMMA CreatePolicyOk ==
    ASSUME SInv, NEW t \in Threads, CreatePolicy(t)
    PROVE  SInv'
<1> DEFINE own == OwnTemporary(t)
<1>1. thread[t].pc = "create" /\ Busy(t) /\ ~Saving(t)
    BY DEF CreatePolicy, At, Busy, Waiting, Saving
<1>2. own \in PolicyPaths /\ own \in Paths /\ own # PolicyFile
    BY SeedAssumption, PathsDiffer DEF OwnTemporary, PolicyPaths
<1>3. CASE Refuse(t)
    BY <1>1, <1>3, RefusedOk
<1>4. CASE ~Refuse(t)
    <2>1. ~Linked(own) /\ Truncate(t, own, "sync") /\ UNCHANGED <<proc, asked, crashes>>
        BY <1>4 DEF CreatePolicy, counters
    <2>2. PICK i \in Inodes :
            /\ files' = [files EXCEPT ![own] = i] /\ data' = [data EXCEPT ![i] = Empty]
            /\ Now(t, "sync", thread[t].request, thread[t].content, i)
            /\ Free(i)
            /\ OneInode' /\ files' \in [Paths -> Inodes \cup {NoInode}]
            /\ data' = [j \in Inodes |-> data'[j]]
        BY <1>2, <2>1, Opens
    <2>3. /\ files'[own] = i /\ i # NoInode
          /\ \A q \in Paths \ {own} : files'[q] = files[q]
          /\ \A q \in Paths : Linked(q) => data'[files[q]] = data[files[q]]
        BY <1>2, <2>2, PathsDiffer DEF SInv, Shape, Free, Linked
    <2>4. ASSUME NEW u \in Threads, Saving(u), Process[u] = Process[t]
          PROVE  u = t
        <3>1. Linked(OwnTemporary(u))
            BY <2>4 DEF SInv, PolicyInv, WriterOk, Saving, Linked
        <3>2. QED
            BY <2>1, <2>4, <3>1 DEF OwnTemporary
    <2>5. ASSUME NEW p \in Processes \ {Process[t]}
          PROVE  /\ files'[Temporary("policy", p)] = files[Temporary("policy", p)]
                 /\ Linked(Temporary("policy", p)) =>
                        data'[files[Temporary("policy", p)]] = data[files[Temporary("policy", p)]]
        <3>1. Temporary("policy", p) \in Paths \ {own}
            BY <2>5, PathsDiffer DEF OwnTemporary, PolicyPaths
        <3>2. QED
            BY <2>3, <3>1
    <2>6. ASSUME NEW u \in Threads \ {t}, thread[u].pc = "write", NEW q \in PolicyPaths
          PROVE  files'[q] # thread[u].inode
        <3>1. files[q] # thread[u].inode
            BY <2>6 DEF SInv, PolicyInv, WriterOk
        <3>2. QED
            BY <2>2, <2>3, <2>6, <3>1, PathsDiffer DEF Free
    <2>7. PolicyReadable'
        BY <1>2, <2>3, PathsDiffer
           DEF SInv, PolicyInv, PolicyReadable, Linked, Content, PolicyPaths
    <2>8. WriterOk(t)'
        BY <2>2, <2>3 DEF WriterOk, Now, OwnTemporary
    <2>9. PolicyInv'
        BY <2>1, <2>2, <2>4, <2>5, <2>6, <2>7, <2>8, OthersSave
    <2>10. ProcShape' /\ \A u \in Threads : BootOk(u)'
        BY <1>1, <2>1, <2>2, BootsKept
    <2>11. RequestOk(t)'
        BY <2>2 DEF RequestOk, Now
    <2>12. \A j \in Inodes : data'[j] = data[j] \/ data'[j].kind # "trust"
        <3>1. Empty.kind # "trust"
            BY DEF Empty
        <3>2. QED
            BY <2>2, <3>1 DEF SInv, Shape
    <2>13. QED
        BY <2>1, <2>2, <2>9, <2>10, <2>11, <2>12, StepOk
<1>5. QED
    BY <1>3, <1>4

(* A saver's temporary file is its own, and nobody else writes into it.    *)
LEMMA Saver ==
    ASSUME SInv, NEW t \in Threads, Saving(t)
    PROVE  /\ OwnTemporary(t) \in PolicyPaths /\ OwnTemporary(t) \in Paths
           /\ OwnTemporary(t) # PolicyFile /\ PolicyFile \in Paths
           /\ files[OwnTemporary(t)] \in Inodes /\ Linked(OwnTemporary(t)) /\ Busy(t)
           /\ \A u \in Threads : Saving(u) /\ Process[u] = Process[t] => u = t
           /\ \A q \in Paths \ {OwnTemporary(t)} : files[q] # files[OwnTemporary(t)]
           /\ \A p \in Processes \ {Process[t]} :
                Temporary("policy", p) \in Paths \ {OwnTemporary(t), PolicyFile}
           /\ \A u \in Threads : thread[u].pc = "write" =>
                thread[u].inode # NoInode /\ \A q \in PolicyPaths : files[q] # thread[u].inode
<1>1. /\ OwnTemporary(t) \in PolicyPaths /\ OwnTemporary(t) \in Paths
      /\ OwnTemporary(t) # PolicyFile /\ PolicyFile \in Paths
    BY SeedAssumption, PathsDiffer DEF OwnTemporary, PolicyPaths
<1>2. /\ \A u \in Threads : Saving(u) /\ Process[u] = Process[t] => u = t
      /\ \A u \in Threads : thread[u].pc = "write" =>
            thread[u].inode # NoInode /\ \A q \in PolicyPaths : files[q] # thread[u].inode
    BY DEF SInv, PolicyInv, OneSaver, WriterOk
<1>3. Linked(OwnTemporary(t)) /\ Busy(t)
    BY DEF SInv, PolicyInv, WriterOk, Saving, Linked, Busy, Waiting
<1>4. files[OwnTemporary(t)] \in Inodes
    BY <1>1, <1>3 DEF SInv, Shape, Linked
<1>5. \A q \in Paths \ {OwnTemporary(t)} : files[q] # files[OwnTemporary(t)]
    BY <1>1, <1>3 DEF SInv, PolicyInv, OneInode, Linked
<1>6. \A p \in Processes \ {Process[t]} :
            Temporary("policy", p) \in Paths \ {OwnTemporary(t), PolicyFile}
    BY PathsDiffer DEF OwnTemporary, PolicyPaths
<1>7. QED
    BY <1>1, <1>2, <1>3, <1>4, <1>5, <1>6

(* A save that fails removes its temporary file.                           *)
LEMMA SaveFails ==
    ASSUME SInv, NEW t \in Threads, Saving(t), Fail(t), UNCHANGED <<asked, crashes>>,
           files' = [files EXCEPT ![OwnTemporary(t)] = NoInode],
           data' = [i \in Inodes |-> data'[i]],
           \A i \in Inodes : /\ i # files[OwnTemporary(t)] => data'[i] = data[i]
                             /\ data'[i] = data[i] \/ data'[i].kind # "trust"
    PROVE  SInv'
<1> DEFINE own == OwnTemporary(t)
<1>1. PICK pc \in {"idle", "failed"} : Now(t, pc, Idle.request, Idle.content, Idle.inode)
    BY Saver, FailsOk
<1>2. ProcShape' /\ \A u \in Threads : BootOk(u)'
    BY Saver, FailsOk
<1>3. /\ files'[own] = NoInode /\ \A q \in Paths \ {own} : files'[q] = files[q]
      /\ OneInode' /\ files' \in [Paths -> Inodes \cup {NoInode}]
    BY Saver, Removes
<1>4. \A i \in Inodes : data'[i] = data[i] \/ data'[i].kind # "trust"
    OBVIOUS
<1>5. \A q \in Paths \ {own} : Linked(q) => data'[files[q]] = data[files[q]]
    BY Saver DEF SInv, Shape, Linked
<1>6. PolicyReadable'
    BY <1>3, <1>5, Saver DEF SInv, PolicyInv, PolicyReadable, Linked, Content
<1>7. \A u \in Threads \ {t} : thread[u].pc = "write" =>
            \A q \in PolicyPaths : files'[q] # thread[u].inode
    BY <1>3, Saver, PathsDiffer
<1>8. WriterOk(t)' /\ RequestOk(t)'
    BY <1>1 DEF WriterOk, RequestOk, Now
<1>9. PolicyInv'
    BY <1>1, <1>3, <1>5, <1>6, <1>7, <1>8, Saver, OthersSave DEF Linked
<1>10. QED
    BY <1>1, <1>2, <1>3, <1>4, <1>8, <1>9, StepOk

LEMMA SyncPolicyOk ==
    ASSUME SInv, NEW t \in Threads, SyncPolicy(t)
    PROVE  SInv'
<1> DEFINE own == OwnTemporary(t)
<1>1. thread[t].pc = "sync" /\ Saving(t) /\ UNCHANGED <<asked, crashes>>
    BY DEF SyncPolicy, At, Saving
<1>2. thread[t].inode = files[own]
    BY <1>1 DEF SInv, PolicyInv, WriterOk
<1>3. CASE PutPart(t) /\ Fail(t) /\ files' = [files EXCEPT ![own] = NoInode]
    <2>1. /\ data' = [i \in Inodes |-> data'[i]]
          /\ \A i \in Inodes : /\ i # files[own] => data'[i] = data[i]
                               /\ data'[i] = data[i] \/ data'[i].kind # "trust"
        BY <1>2, <1>3, WritesPart
    <2>2. QED
        BY <1>1, <1>3, <2>1, SaveFails
<1>4. CASE /\ data' = [data EXCEPT ![thread[t].inode] = PolicyContent(Request(t).policy)]
           /\ thread' = [thread EXCEPT ![t].pc = "commit", ![t].inode = NoInode]
           /\ UNCHANGED <<files, proc, faults>>
    <2>1. Now(t, "commit", thread[t].request, thread[t].content, NoInode)
        BY <1>4, Holds DEF SInv
    <2>2. PolicyContent(Request(t).policy).kind = "policy"
        BY DEF PolicyContent
    <2>3. /\ data' = [i \in Inodes |-> data'[i]] /\ data'[files[own]].kind = "policy"
          /\ \A i \in Inodes : i # files[own] => data'[i] = data[i]
        BY <1>1, <1>2, <1>4, <2>2, Saver DEF SInv, Shape
    <2>4. \A i \in Inodes : data'[i] = data[i] \/ data'[i].kind # "trust"
        BY <2>3
    <2>5. OneInode' /\ files' \in [Paths -> Inodes \cup {NoInode}]
        BY <1>4 DEF SInv, Shape, PolicyInv, OneInode
    <2>6. \A q \in Paths \ {own} : Linked(q) => data'[files[q]] = data[files[q]]
        BY <1>1, <2>3, Saver DEF SInv, Shape, Linked
    <2>7. PolicyReadable'
        BY <1>1, <1>4, <2>6, Saver DEF SInv, PolicyInv, PolicyReadable, Linked, Content
    <2>8. WriterOk(t)' /\ RequestOk(t)'
        BY <1>1, <1>4, <2>1, <2>3, Saver
           DEF WriterOk, RequestOk, Now, Linked, Content, OwnTemporary
    <2>9. \A u \in Threads \ {t} : thread[u].pc = "write" =>
                \A q \in PolicyPaths : files'[q] # thread[u].inode
        BY <1>1, <1>4, Saver
    <2>10. PolicyInv'
        BY <1>1, <1>4, <2>1, <2>5, <2>6, <2>7, <2>8, <2>9, Saver, OthersSave
    <2>11. ProcShape' /\ \A u \in Threads : BootOk(u)'
        BY <1>1, <1>4, <2>1, Saver, BootsKept
    <2>12. QED
        BY <1>1, <2>1, <2>3, <2>4, <2>5, <2>8, <2>10, <2>11, StepOk
<1>5. QED
    BY <1>3, <1>4 DEF SyncPolicy

LEMMA CommitPolicyOk ==
    ASSUME SInv, NEW t \in Threads, CommitPolicy(t)
    PROVE  SInv'
<1> DEFINE own == OwnTemporary(t)
<1>1. /\ thread[t].pc = "commit" /\ Saving(t) /\ UNCHANGED <<data, asked, crashes>>
      /\ Content(own).kind = "policy"
    BY DEF CommitPolicy, At, Saving, SInv, PolicyInv, WriterOk
<1>2. CASE Fail(t) /\ files' = [files EXCEPT ![own] = NoInode]
    <2>1. data' = data /\ data' = [i \in Inodes |-> data'[i]]
        BY <1>1 DEF SInv, Shape
    <2>2. QED
        BY <1>1, <1>2, <2>1, SaveFails
<1>3. CASE Move(own, PolicyFile) /\ Answer(t) /\ UNCHANGED <<proc, faults>>
    <2>1. Threadlike(Idle) /\ Idle.pc = "idle"
        BY DEF Idle, Threadlike
    <2>2. Now(t, "idle", Idle.request, Idle.content, Idle.inode)
        BY <1>3, <2>1, Becomes DEF SInv, Answer
    <2>3. /\ files'[PolicyFile] = files[own] /\ files'[own] = NoInode
          /\ \A q \in Paths \ {own, PolicyFile} : files'[q] = files[q]
          /\ OneInode' /\ files' \in [Paths -> Inodes \cup {NoInode}]
        BY <1>1, <1>3, Saver, Moves
    <2>4. PolicyReadable'
        BY <1>1, <2>3 DEF PolicyReadable, Content
    <2>5. ASSUME NEW u \in Threads \ {t}, thread[u].pc = "write", NEW q \in PolicyPaths
          PROVE  files'[q] # thread[u].inode
        <3>1. /\ own \in PolicyPaths /\ q \in Paths /\ thread[u].inode # NoInode
              /\ \A r \in PolicyPaths : files[r] # thread[u].inode
            BY <1>1, <2>5, Saver, PathsDiffer
        <3>2. QED
            BY <2>3, <2>5, <3>1
    <2>6. WriterOk(t)' /\ RequestOk(t)'
        BY <2>2 DEF WriterOk, RequestOk, Now
    <2>7. PolicyInv'
        BY <1>1, <2>2, <2>3, <2>4, <2>5, <2>6, Saver, OthersSave DEF Linked
    <2>8. ProcShape' /\ \A u \in Threads : BootOk(u)'
        BY <1>3, <2>2, BootsKept
    <2>9. data' = [i \in Inodes |-> data'[i]]
        BY <1>1 DEF SInv, Shape
    <2>10. QED
        BY <1>1, <2>2, <2>3, <2>6, <2>7, <2>8, <2>9, StepOk
<1>4. QED
    BY <1>2, <1>3 DEF CommitPolicy

-----------------------------------------------------------------------------
(* The other handlers touch none of these files.                           *)
LEMMA AnswerOk ==
    ASSUME SInv, NEW t \in Threads, ~Saving(t), UNCHANGED <<files, data, asked, crashes>>,
           \/ Answer(t)
           \/ thread' = [thread EXCEPT ![t] = Idle]
           \/ thread' = [thread EXCEPT ![t] = Failed],
           ProcShape', \A u \in Threads \ {t} : BootOk(u)'
    PROVE  SInv'
<1>1. /\ Threadlike(Idle) /\ Threadlike(Failed) /\ Idle.pc = "idle" /\ Failed.pc = "failed"
    BY DEF Idle, Failed, Threadlike
<1>2. PICK r \in {Idle, Failed} : thread' = [thread EXCEPT ![t] = r]
    BY DEF Answer
<1>3. Now(t, r.pc, r.request, r.content, r.inode) /\ r.pc \in {"idle", "failed"}
    BY <1>1, <1>2, Becomes DEF SInv
<1>4. BootOk(t)' /\ RequestOk(t)'
    BY <1>3 DEF BootOk, RequestOk, Busy, Waiting, Now
<1>5. \A u \in Threads : BootOk(u)'
    BY <1>4
<1>6. QED
    BY <1>3, <1>4, <1>5, ThreadGoesOn

LEMMA ReplyOk ==
    ASSUME SInv, NEW t \in Threads, ~Saving(t), UNCHANGED <<files, data, proc, asked, crashes>>,
           \/ Answer(t)
           \/ thread' = [thread EXCEPT ![t] = Idle]
           \/ thread' = [thread EXCEPT ![t] = Failed]
    PROVE  SInv'
<1>1. /\ Threadlike(Idle) /\ Threadlike(Failed) /\ Idle.pc = "idle" /\ Failed.pc = "failed"
    BY DEF Idle, Failed, Threadlike
<1>2. PICK r \in {Idle, Failed} : thread' = [thread EXCEPT ![t] = r]
    BY DEF Answer
<1>3. Now(t, r.pc, r.request, r.content, r.inode) /\ r.pc \in {"idle", "failed"}
    BY <1>1, <1>2, Becomes DEF SInv
<1>4. ProcShape' /\ \A u \in Threads : BootOk(u)'
    BY <1>3, BootsKept
<1>5. QED
    BY <1>2, <1>4, AnswerOk

LEMMA PackageOk ==
    ASSUME SInv, NEW t \in Threads, CreatePackage(t) \/ WritePackage(t) \/ VerifyPackage(t)
    PROVE  SInv'
<1>1. /\ Busy(t) /\ ~Saving(t) /\ UNCHANGED <<files, data, asked, crashes>>
      /\ \/ Fail(t)
         \/ proc' = proc /\ (Answer(t) \/ Goto(t, "writePackage") \/ Goto(t, "verifyPackage"))
    BY DEF CreatePackage, WritePackage, VerifyPackage, At, Busy, Waiting, Saving, Refuse,
           disk, counters
<1>2. CASE Fail(t)
    BY <1>1, <1>2, FailedOk
<1>3. CASE proc' = proc /\ Answer(t)
    BY <1>1, <1>3, ReplyOk
<1>4. ASSUME proc' = proc, NEW pc \in {"writePackage", "verifyPackage"}, Goto(t, pc)
      PROVE  SInv'
    <2>1. Now(t, pc, thread[t].request, thread[t].content, thread[t].inode)
        BY <1>4, GoesTo DEF SInv
    <2>2. RequestOk(t)'
        BY <2>1 DEF RequestOk, Now
    <2>3. QED
        BY <1>1, <1>4, <2>1, <2>2, HandlerGoesOn
<1>5. QED
    BY <1>1, <1>2, <1>3, <1>4

(* The editor of a process that serves is replaced; it goes on serving.    *)
LEMMA ReplaceEditorOk ==
    ASSUME SInv, NEW t \in Threads, ReplaceEditor(t)
    PROVE  SInv'
<1> DEFINE p == Process[t]   sha == thread[t].content.sha
<1>1. /\ thread[t].pc = "replace" /\ ~Saving(t) /\ Busy(t) /\ Request(t).kind # "boot"
      /\ proc' = [proc EXCEPT ![p].running = sha] /\ Answer(t)
      /\ UNCHANGED <<files, data, asked, crashes>>
    BY DEF ReplaceEditor, At, Busy, Waiting, Saving, disk, counters, SInv, RequestOk
<1>2. proc[p].status = "serving" /\ p \in Processes
    BY <1>1, SeedAssumption DEF SInv, BootOk, My
<1>3. /\ proc' = [q \in Processes |-> proc'[q]]
      /\ proc'[p] = [proc[p] EXCEPT !.running = sha]
      /\ \A q \in Processes \ {p} : proc'[q] = proc[q]
    BY <1>1, <1>2 DEF SInv, ProcShape
<1>4. Serving(proc[p])
    BY <1>2 DEF SInv, ProcShape
<1>5. Serving(proc'[p]) /\ proc'[p].status = "serving"
    BY <1>2, <1>3, <1>4 DEF Serving
<1>6. ProcShape'
    BY <1>3, <1>5 DEF SInv, ProcShape
<1>7. \A u \in Threads \ {t} : thread'[u] = thread[u]
    BY <1>1 DEF Answer, SInv, Shape
<1>8. ASSUME NEW u \in Threads \ {t}
      PROVE  BootOk(u)'
    <2>1. proc'[Process[u]].status = proc[Process[u]].status
        BY <1>2, <1>3, <1>5, SeedAssumption
    <2>2. QED
        BY <1>7, <2>1 DEF SInv, BootOk, Busy, Waiting, Request, My
<1>9. QED
    BY <1>1, <1>6, <1>8, AnswerOk

-----------------------------------------------------------------------------
(* Booting.  While a process boots, its other threads rest.                *)
LEMMA BootsAlone ==
    ASSUME SInv, NEW t \in Threads, Busy(t), Request(t).kind = "boot", NEW r, r.status # "off",
           r.status = "serving" => Serving(r), proc' = [proc EXCEPT ![Process[t]] = r],
           \A u \in Threads \ {t} : thread'[u] = thread[u]
    PROVE  ProcShape' /\ \A u \in Threads \ {t} : BootOk(u)'
<1>1. t = Main[Process[t]] /\ My(t).status = "booting" /\ Process[t] \in Processes
    BY SeedAssumption DEF SInv, BootOk
<1>2. /\ proc' = [p \in Processes |-> proc'[p]] /\ proc'[Process[t]] = r
      /\ \A p \in Processes \ {Process[t]} : proc'[p] = proc[p]
    BY <1>1 DEF SInv, ProcShape
<1>3. ProcShape'
    BY <1>2 DEF SInv, ProcShape
<1>4. ASSUME NEW u \in Threads \ {t}
      PROVE  BootOk(u)'
    <2>1. CASE Process[u] = Process[t]
        <3>1. ~Busy(u)
            BY <1>1, <1>4, <2>1 DEF SInv, BootOk, My
        <3>2. QED
            BY <1>4, <3>1 DEF BootOk, Busy, Waiting
    <2>2. CASE Process[u] # Process[t]
        BY <1>2, <1>4, <2>2, SeedAssumption DEF SInv, BootOk, Busy, Waiting, Request, My
    <2>3. QED
        BY <2>1, <2>2
<1>5. QED
    BY <1>1, <1>2, <1>3, <1>4

LEMMA ResolveLimitsOk ==
    ASSUME SInv, NEW t \in Threads, ResolveLimits(t)
    PROVE  SInv'
<1>1. thread[t].pc = "policy" /\ Busy(t) /\ ~Saving(t) /\ Request(t).kind = "boot"
    BY DEF ResolveLimits, At, Busy, Waiting, Saving, SInv, RequestOk
<1>2. CASE Refuse(t)
    BY <1>1, <1>2, RefusedOk
<1>3. CASE ~Refuse(t)
    <2>1. PICK policy :
            /\ proc' = [proc EXCEPT ![Process[t]] =
                            [status |-> "booting", policy |-> policy, system |-> SystemPlace(t)]]
            /\ Goto(t, IF Launches(t) THEN "readTrust" ELSE "profile")
            /\ asked' = IF Launches(t) THEN asked \cup {LaunchHashes(Request(t).launch)} ELSE asked
            /\ UNCHANGED <<files, data, crashes>>
        BY <1>3 DEF ResolveLimits, disk, counters
    <2> DEFINE r == [status |-> "booting", policy |-> policy, system |-> SystemPlace(t)]
    <2>2. r.status = "booting" /\ proc' = [proc EXCEPT ![Process[t]] = r]
        BY <2>1
    <2>3. PICK pc \in {"readTrust", "profile"} :
            Goto(t, pc) /\ (pc = "readTrust" => LaunchHashes(Request(t).launch) \in asked')
        BY <2>1
    <2>4. Now(t, pc, thread[t].request, thread[t].content, thread[t].inode)
        BY <2>3, GoesTo DEF SInv
    <2> HIDE DEF r
    <2>5. ProcShape' /\ \A u \in Threads \ {t} : BootOk(u)'
        BY <1>1, <2>2, <2>4, BootsAlone DEF Now
    <2>6. BootOk(t)'
        <3>1. /\ proc'[Process[t]].status = "booting" /\ t = Main[Process[t]]
              /\ thread'[t].request.kind = "boot"
            <4>1. thread'[t].request = thread[t].request
                BY <2>4 DEF Now
            <4>2. proc'[Process[t]] = r /\ t = Main[Process[t]]
                BY <1>1, <2>2, SeedAssumption DEF SInv, ProcShape, BootOk
            <4>3. QED
                BY <1>1, <2>2, <4>1, <4>2 DEF Request
        <3>2. QED
            BY <3>1 DEF BootOk, Request, My
    <2>7. RequestOk(t)'
        BY <1>1, <2>3, <2>4 DEF RequestOk, Request, Wanted, Now
    <2>8. asked \subseteq asked'
        BY <2>1
    <2>9. \A u \in Threads : BootOk(u)'
        BY <2>5, <2>6
    <2>10. QED
        BY <1>1, <2>1, <2>4, <2>5, <2>7, <2>8, <2>9, ThreadGoesOn
<1>4. QED
    BY <1>2, <1>3

LEMMA Begins ==
    ASSUME Shape, NEW t \in Threads, NEW pc, NEW r,
           thread' = [thread EXCEPT ![t] = [Idle EXCEPT !.pc = pc, !.request = r]]
    PROVE  Now(t, pc, r, Idle.content, Idle.inode)
<1> DEFINE one == [Idle EXCEPT !.pc = pc]
           new == [one EXCEPT !.request = r]
<1>1. one = [pc |-> pc, request |-> Idle.request, content |-> Idle.content, inode |-> Idle.inode]
    BY DEF Idle
<1>2. thread' = [thread EXCEPT ![t] = new]
    OBVIOUS
<1> HIDE DEF one
<1>3. new = [pc |-> pc, request |-> r, content |-> Idle.content, inode |-> Idle.inode]
    BY <1>1
<1> HIDE DEF new
<1>4. Threadlike(new) /\ new.pc = pc /\ new.request = r /\ new.content = Idle.content
      /\ new.inode = Idle.inode
    BY <1>3 DEF Threadlike
<1>5. QED
    BY <1>2, <1>4, Becomes

LEMMA LoadProfileOk ==
    ASSUME SInv, NEW t \in Threads, LoadProfile(t)
    PROVE  SInv'
<1>1. Busy(t) /\ ~Saving(t) /\ Request(t).kind = "boot"
    BY DEF LoadProfile, At, Busy, Waiting, Saving, SInv, RequestOk
<1>2. CASE Refuse(t)
    BY <1>1, <1>2, RefusedOk
<1>3. CASE ~Refuse(t)
    <2>1. UNCHANGED <<files, data, proc, asked, crashes>>
        BY <1>3 DEF LoadProfile, disk, counters
    <2>2. \/ Goto(t, "select")
          \/ \E content : thread' = [thread EXCEPT ![t].pc = "select", ![t].content = content]
        BY <1>3 DEF LoadProfile
    <2>3. PICK content : Now(t, "select", thread[t].request, content, thread[t].inode)
        BY <2>2, GoesTo, Prepares DEF SInv
    <2>4. RequestOk(t)'
        BY <1>1, <2>3 DEF RequestOk, Request, Now
    <2>5. QED
        BY <1>1, <2>1, <2>3, <2>4, HandlerGoesOn
<1>4. QED
    BY <1>2, <1>3

LEMMA ServesOk ==
    ASSUME SInv, NEW t \in Threads, NEW loaders, Serve(t, loaders)
    PROVE  SInv'
<1>1. Busy(t) /\ ~Saving(t) /\ Request(t).kind = "boot"
    BY DEF Serve, At, Busy, Waiting, Saving, SInv, RequestOk
<1>2. CASE Refuse(t)
    BY <1>1, <1>2, RefusedOk
<1>3. CASE ~Refuse(t)
    <2>1. PICK loader, first :
            /\ proc' = [proc EXCEPT ![Process[t]] =
                    [status |-> "serving", policy |-> My(t).policy, system |-> My(t).system,
                     loader |-> loader, running |-> first, named |-> Named(t, loader)]]
            /\ thread' = [thread EXCEPT ![t] = Idle]
            /\ UNCHANGED <<files, data, asked, crashes>>
        BY <1>3 DEF Serve, disk, counters
    <2> DEFINE r == [status |-> "serving", policy |-> My(t).policy, system |-> My(t).system,
                     loader |-> loader, running |-> first, named |-> Named(t, loader)]
    <2>2. r.status # "off" /\ Serving(r) /\ proc' = [proc EXCEPT ![Process[t]] = r]
        BY <2>1 DEF Serving
    <2> HIDE DEF r
    <2>3. \A u \in Threads \ {t} : thread'[u] = thread[u]
        BY <2>1 DEF SInv, Shape
    <2>4. ProcShape' /\ \A u \in Threads \ {t} : BootOk(u)'
        BY <1>1, <2>2, <2>3, BootsAlone
    <2>5. QED
        BY <1>1, <2>1, <2>4, AnswerOk
<1>4. QED
    BY <1>2, <1>3

LEMMA SelectOk ==
    ASSUME SInv, NEW t \in Threads, CliServe(t) \/ DesktopServe(t) \/ CancelSelection(t)
    PROVE  SInv'
<1>1. CASE CliServe(t)
    BY <1>1, ServesOk DEF CliServe
<1>2. CASE DesktopServe(t)
    BY <1>2, ServesOk DEF DesktopServe
<1>3. CASE CancelSelection(t)
    <2>1. Busy(t) /\ ~Saving(t) /\ Refuse(t)
        BY <1>3 DEF CancelSelection, At, Busy, Waiting, Saving
    <2>2. QED
        BY <2>1, RefusedOk
<1>4. QED
    BY <1>1, <1>2, <1>3

LEMMA BootOfOk ==
    ASSUME SInv, NEW p \in Processes, Boot(p)
    PROVE  SInv'
<1> DEFINE t == Main[p]
<1>1. t \in Threads /\ Process[t] = p
    BY SeedAssumption
<1>2. PICK args \in Arguments :
        /\ proc' = [proc EXCEPT ![p] = [status |-> "booting"]]
        /\ thread' = [thread EXCEPT ![t] = [Idle EXCEPT !.pc = "policy", !.request = args]]
        /\ UNCHANGED <<files, data, asked, crashes>> /\ proc[p].status = "off"
    BY DEF Boot, disk
<1>3. args.kind = "boot"
    BY SeedAssumption
<1> HIDE DEF t
<1>4. Now(t, "policy", args, Idle.content, Idle.inode)
    BY <1>1, <1>2, Begins DEF SInv
<1>5. \A u \in Threads : Process[u] = p => ~Busy(u)
    BY <1>2 DEF SInv, BootOk, My
<1>6. ~Saving(t)
    BY <1>1, <1>5 DEF Saving, Busy, Waiting
<1>7. /\ proc' = [q \in Processes |-> proc'[q]] /\ proc'[p] = [status |-> "booting"]
      /\ \A q \in Processes \ {p} : proc'[q] = proc[q]
    BY <1>2 DEF SInv, ProcShape
<1>8. proc'[p].status = "booting"
    BY <1>7
<1>9. ProcShape'
    BY <1>7, <1>8 DEF SInv, ProcShape
<1>10. ASSUME NEW u \in Threads
       PROVE  BootOk(u)'
    <2>1. CASE u = t
        BY <1>1, <1>3, <1>4, <1>8, <2>1 DEF BootOk, Busy, Waiting, Request, My, Now, t
    <2>2. CASE u # t /\ Process[u] = p
        BY <1>4, <1>5, <2>2 DEF BootOk, Busy, Waiting, Now
    <2>3. CASE u # t /\ Process[u] # p
        BY <1>4, <1>7, <2>3, SeedAssumption
           DEF SInv, BootOk, Busy, Waiting, Request, My, Now
    <2>4. QED
        BY <2>1, <2>2, <2>3
<1>11. RequestOk(t)'
    BY <1>3, <1>4 DEF RequestOk, Request, Now
<1>12. QED
    BY <1>1, <1>2, <1>4, <1>6, <1>9, <1>10, <1>11, ThreadGoesOn

(* A crash leaves the files as they are; from then on a temporary policy   *)
(* may lie about.                                                          *)
LEMMA CrashOk ==
    ASSUME SInv, NEW p \in Processes, Crash(p)
    PROVE  SInv'
<1>1. /\ UNCHANGED <<files, data, asked>> /\ crashes' = crashes + 1 /\ crashes \in Nat
      /\ proc' = [proc EXCEPT ![p] = Off]
      /\ thread' = [t \in Threads |-> IF Process[t] = p THEN Idle ELSE thread[t]]
    BY DEF Crash, disk, SInv, Shape
<1>2. Threadlike(Idle) /\ Idle.pc = "idle"
    BY DEF Idle, Threadlike
<1>3. \A u \in Threads : \/ Process[u] = p /\ thread'[u] = Idle
                         \/ Process[u] # p /\ thread'[u] = thread[u]
    BY <1>1
<1>4. Shape'
    <2>1. \A u \in Threads : Threadlike(thread'[u])
        BY <1>2, <1>3 DEF SInv, Shape
    <2>2. crashes' \in Nat
        BY <1>1
    <2>3. QED
        BY <1>1, <2>1, <2>2 DEF SInv, Shape
<1>5. ProcShape'
    <2>1. /\ proc' = [q \in Processes |-> proc'[q]] /\ proc'[p] = Off
          /\ \A q \in Processes \ {p} : proc'[q] = proc[q]
        BY <1>1 DEF SInv, ProcShape
    <2>2. QED
        BY <2>1 DEF SInv, ProcShape, Off
<1>6. TrustInv'
    BY <1>1, <1>2, <1>3 DEF SInv, TrustInv, Covered
<1>7. \A u \in Threads : RequestOk(u)'
    BY <1>1, <1>2, <1>3 DEF SInv, RequestOk, Request, Wanted
<1>8. \A u \in Threads : BootOk(u)'
    <2>1. \A q \in Processes \ {p} : proc'[q] = proc[q]
        BY <1>1 DEF SInv, ProcShape
    <2>2. QED
        BY <1>2, <1>3, <2>1, SeedAssumption DEF SInv, BootOk, Busy, Waiting, Request, My
<1>9. PolicyInv'
    <2>1. OneInode' /\ PolicyReadable'
        BY <1>1 DEF SInv, PolicyInv, OneInode, PolicyReadable, Linked, Content
    <2>2. \A u \in Threads : WriterOk(u)'
        BY <1>1, <1>2, <1>3 DEF SInv, PolicyInv, WriterOk, Linked, Content, OwnTemporary
    <2>3. OneSaver'
        BY <1>2, <1>3 DEF SInv, PolicyInv, OneSaver, Saving
    <2>4. crashes' # 0
        BY <1>1
    <2>5. TempsHaveSavers'
        BY <2>4 DEF TempsHaveSavers
    <2>6. QED
        BY <2>1, <2>2, <2>3, <2>5 DEF PolicyInv
<1>10. QED
    BY <1>4, <1>5, <1>6, <1>7, <1>8, <1>9 DEF SInv

(* A request enters with what it asks for; the others are answered at once. *)
LEMMA PageOk ==
    ASSUME SInv, NEW t \in Threads, PageRequests(t)
    PROVE  SInv'
<1>1. PICK r \in Requests :
        \/ CliWrite(t, r) \/ DesktopWrite(t, r) \/ CutRequest(t, r)
        \/ CliRead(t, r) \/ DesktopRead(t, r) \/ CliFetch(t, r) \/ DesktopFetch(t, r)
    BY DEF PageRequests
<1>2. /\ Waiting(t) /\ ~Saving(t) /\ My(t).status = "serving" /\ r.kind # "boot"
      /\ UNCHANGED <<files, data, proc, crashes>>
    BY <1>1, SeedAssumption
       DEF CliWrite, DesktopWrite, CutRequest, CliRead, DesktopRead, CliFetch, DesktopFetch,
           Arrives, Waiting, Saving, disk
<1>3. CASE CliWrite(t, r) \/ DesktopWrite(t, r)
    <2> DEFINE pc == FirstStep(r)   new == [Idle EXCEPT !.pc = pc, !.request = r]
    <2>1. r.kind \in DesktopWrites /\ Enter(t, r)
        BY <1>3 DEF CliWrite, DesktopWrite, DesktopWrites
    <2>2. /\ pc \in {"readTrust", "validate", "create", "createPackage", "load"}
          /\ pc = "readTrust" => r.kind # "profiles"
        BY <2>1 DEF DesktopWrites, CliWrites, FirstStep
    <2>3. /\ thread' = [thread EXCEPT ![t] = new]
          /\ asked' = IF pc = "readTrust" THEN asked \cup {r.hashes} ELSE asked
        BY <2>1 DEF Enter
    <2> HIDE DEF pc
    <2>4. Now(t, pc, r, Idle.content, Idle.inode)
        BY <2>3, Begins DEF SInv
    <2>5. asked \subseteq asked' /\ (pc = "readTrust" => r.hashes \in asked')
        BY <2>3
    <2>6. RequestOk(t)'
        BY <1>2, <2>2, <2>4, <2>5 DEF RequestOk, Request, Wanted, Now
    <2>7. ProcShape' /\ \A u \in Threads : BootOk(u)'
        BY <1>2, <2>4, BootsKept
    <2>8. QED
        BY <1>2, <2>2, <2>4, <2>5, <2>6, <2>7, ThreadGoesOn
<1>4. CASE ~(CliWrite(t, r) \/ DesktopWrite(t, r))
    <2>1. asked' = asked /\ (\/ thread' = [thread EXCEPT ![t] = Idle]
                             \/ thread' = [thread EXCEPT ![t] = Failed])
        BY <1>1, <1>4 DEF CutRequest, CliRead, DesktopRead, CliFetch, DesktopFetch, Replied
    <2>2. QED
        BY <1>2, <2>1, ReplyOk
<1>5. QED
    BY <1>3, <1>4

-----------------------------------------------------------------------------
(* The invariant.                                                          *)
LEMMA InitOk == Init => SInv
<1> SUFFICES ASSUME Init PROVE SInv
    OBVIOUS
<1>1. PICK seeded \in BOOLEAN :
        /\ files = [path \in Paths |-> IF seeded /\ path = TrustFile THEN 1 ELSE NoInode]
        /\ data = [i \in Inodes |-> IF seeded /\ i = 1 THEN TrustContent(TrustedBefore) ELSE Empty]
        /\ asked = IF seeded THEN {TrustedBefore} ELSE {}
        /\ proc = [p \in Processes |-> Off] /\ thread = [t \in Threads |-> Idle] /\ crashes = 0
    BY DEF Init
<1>2. Threadlike(Idle) /\ Idle.pc = "idle" /\ Off.status = "off"
    BY DEF Idle, Off, Threadlike
<1>3. Shape
    BY <1>1, <1>2, SeedAssumption DEF Shape, NoInode
<1>4. ProcShape
    BY <1>1, <1>2 DEF ProcShape
<1>5. TrustInv
    <2>1. ASSUME NEW i \in Inodes, data[i].kind = "trust"
          PROVE  Covered(data[i].hashes)
        <3>1. seeded /\ data[i] = TrustContent(TrustedBefore)
            BY <1>1, <2>1 DEF Empty
        <3>2. data[i].hashes = TrustedBefore
            BY <3>1 DEF TrustContent
        <3>3. asked \in SUBSET asked /\ TrustedBefore = UNION asked
            BY <1>1, <3>1
        <3>4. QED
            BY <3>2, <3>3 DEF Covered, CoveredBy
    <2>2. QED
        BY <1>1, <1>2, <2>1 DEF TrustInv
<1>6. PolicyInv
    <2>1. \A path \in Paths \ {TrustFile} : files[path] = NoInode
        BY <1>1
    <2>2. /\ PolicyFile \in Paths \ {TrustFile}
          /\ \A p \in Processes : Temporary("policy", p) \in Paths \ {TrustFile}
        BY PathsDiffer DEF PolicyPaths
    <2>3. OneInode
        BY <2>1 DEF OneInode
    <2>4. PolicyReadable /\ TempsHaveSavers
        BY <2>1, <2>2 DEF PolicyReadable, TempsHaveSavers, Linked
    <2>5. OneSaver /\ \A t \in Threads : WriterOk(t)
        BY <1>1, <1>2 DEF OneSaver, WriterOk, Saving
    <2>6. QED
        BY <2>3, <2>4, <2>5 DEF PolicyInv
<1>7. \A t \in Threads : RequestOk(t) /\ BootOk(t)
    BY <1>1, <1>2 DEF RequestOk, BootOk, Busy, Waiting
<1>8. QED
    BY <1>3, <1>4, <1>5, <1>6, <1>7 DEF SInv

LEMMA StepOfThreadOk ==
    ASSUME SInv, NEW t \in Threads, Step(t)
    PROVE  SInv'
<1>1. CASE ReadTrust(t) \/ ValidateProfile(t)
    BY <1>1, ReadTrustOk, ValidateProfileOk
<1>2. CASE OpenTemporary(t) \/ WriteTemporary(t) \/ CommitTemporary(t)
    BY <1>2, OpenTemporaryOk, WriteTemporaryOk, CommitTemporaryOk
<1>3. CASE CreatePolicy(t) \/ SyncPolicy(t) \/ CommitPolicy(t)
    BY <1>3, CreatePolicyOk, SyncPolicyOk, CommitPolicyOk
<1>4. CASE CreatePackage(t) \/ WritePackage(t) \/ VerifyPackage(t)
    BY <1>4, PackageOk
<1>5. CASE LoadEditor(t) \/ LookUpTrust(t) \/ ReplaceEditor(t)
    BY <1>5, EditorOk, ReplaceEditorOk
<1>6. CASE ResolveLimits(t) \/ LoadProfile(t)
    BY <1>6, ResolveLimitsOk, LoadProfileOk
<1>7. CASE CliServe(t) \/ DesktopServe(t) \/ CancelSelection(t)
    BY <1>7, SelectOk
<1>8. QED
    BY <1>1, <1>2, <1>3, <1>4, <1>5, <1>6, <1>7 DEF Step

LEMMA NextOk == SInv /\ [Next]_vars => SInv'
<1> SUFFICES ASSUME SInv, [Next]_vars PROVE SInv'
    OBVIOUS
<1>1. CASE \E p \in Processes : Boot(p) \/ Crash(p)
    BY <1>1, BootOfOk, CrashOk
<1>2. CASE \E t \in Threads : Step(t) \/ PageRequests(t)
    BY <1>2, StepOfThreadOk, PageOk
<1>3. CASE UNCHANGED vars
    BY <1>3 DEF vars, disk, counters, SInv, Shape, ProcShape, TrustInv, Covered, PolicyInv,
       OneInode, WriterOk, OneSaver, TempsHaveSavers, PolicyReadable, Saving, Linked, Content,
       OwnTemporary, RequestOk, BootOk, Busy, Waiting, Request, Wanted, My
<1>4. QED
    BY <1>1, <1>2, <1>3 DEF Next

LEMMA SInvHolds == Spec => []SInv
BY InitOk, NextOk, PTL DEF Spec

(* What the trust store lists is a union of closures somebody asked to     *)
(* trust (trust_package_hashes, runtime.rs:193), for any packages,         *)
(* processes, overlapping saves, failures and crashes.                     *)
THEOREM TrustIsOfClosures == Spec => []TrustCommitsClosures
<1>1. ASSUME SInv, Linked(TrustFile), Content(TrustFile).kind = "trust"
      PROVE  \E closures \in SUBSET asked : Content(TrustFile).hashes = UNION closures
    <2>1. files[TrustFile] \in Inodes
        BY <1>1, PathsDiffer DEF SInv, Shape, Linked
    <2>2. QED
        BY <1>1, <2>1 DEF SInv, TrustInv, Covered, CoveredBy, Content
<1>2. SInv => TrustCommitsClosures
    BY <1>1 DEF TrustCommitsClosures
<1>3. QED
    BY <1>2, SInvHolds, PTL

(* The saved policy is whole at every moment, and as long as no process    *)
(* was killed a temporary policy belongs to a save that is going on        *)
(* (save_io_policy, runtime.rs).                                           *)
THEOREM PolicySavesHold == Spec => []PolicySavesAreAtomic
<1>1. SInv => PolicySavesAreAtomic
    BY DEF SInv, PolicyInv, TempsHaveSavers, Saving, PolicySavesAreAtomic
<1>2. QED
    BY <1>1, SInvHolds, PTL

-----------------------------------------------------------------------------
(* What runs.  Allowed are the packages of the system directory a process  *)
(* started with and those somebody asked to trust; a boot has the closure  *)
(* of its launch package asked for before anything of it is used, a        *)
(* profile it has read is trusted, and the directory is the one its        *)
(* command line led it to.                                                 *)
Allowed(sha, place, all) == sha \in Held(place) \cup UNION all

Carried(launch, all) ==
    /\ LaunchHashes(launch) \in all
    /\ \A l \in Facts[launch].launch :
            l.loader.sha \in LaunchHashes(launch) /\ l.editor.sha \in LaunchHashes(launch)

Started == {"readTrust", "open", "write", "rename", "profile", "select"}

RunOk(t) ==
    /\ thread[t].pc = "replace" => Allowed(thread[t].content.sha, My(t).system, asked)
    /\ thread[t].pc = "policy" => Request(t) \in Arguments
    /\ thread[t].pc \in Started /\ Request(t).kind = "boot" =>
          /\ Request(t) \in Arguments /\ My(t).system = SystemPlace(t)
          /\ Launches(t) => Carried(Request(t).launch, asked)
    /\ thread[t].pc = "select" /\ HasProfile(t) =>
          /\ Allowed(thread[t].content.profile.loader.sha, My(t).system, asked)
          /\ Allowed(thread[t].content.profile.editor.sha, My(t).system, asked)

RunsOk(p) ==
    proc[p].status = "serving" =>
        /\ Allowed(proc[p].running, proc[p].system, asked) \/ proc[p].running \in proc[p].named
        /\ \/ proc[p].system = Shipped
           \/ p \notin Desktop /\ proc[p].named \cap Held(proc[p].system) # {}
        /\ proc[p].system \in DOMAIN Folders

RInv == (\A t \in Threads : RunOk(t)) /\ (\A p \in Processes : RunsOk(p))

LEMMA RunKept ==
    ASSUME SInv, RInv, NEW t \in Threads, NEW pc, NEW request, NEW content, NEW inode,
           Now(t, pc, request, content, inode), asked \subseteq asked', RunOk(t)',
           \A u \in Threads \ {t} :
                Busy(u) => proc'[Process[u]].system = proc[Process[u]].system,
           \A p \in Processes : \/ proc'[p] = proc[p] \/ proc'[p].status # "serving"
                                \/ RunsOk(p)'
    PROVE  RInv'
<1>1. \A sha, place : Allowed(sha, place, asked) => Allowed(sha, place, asked')
    BY DEF Allowed
<1>2. \A launch : Carried(launch, asked) => Carried(launch, asked')
    BY DEF Carried
<1>3. ASSUME NEW u \in Threads
      PROVE  RunOk(u)'
    <2>1. CASE u # t /\ Busy(u)
        <3>1. thread'[u] = thread[u] /\ RunOk(u) /\ My(u)'.system = My(u).system
            BY <1>3, <2>1 DEF Now, RInv, My
        <3>2. SystemPlace(u)' = SystemPlace(u)
            BY <3>1 DEF SystemPlace, Request
        <3>3. QED
            BY <1>1, <1>2, <3>1, <3>2 DEF RunOk, Request, Launches, HasProfile
    <2>2. CASE u # t /\ ~Busy(u)
        BY <1>3, <2>2 DEF Now, Busy, Waiting, RunOk, Started
    <2>3. QED
        BY <2>1, <2>2
<1>4. ASSUME NEW p \in Processes
      PROVE  RunsOk(p)'
    BY <1>1, <1>4 DEF RInv, RunsOk
<1>5. QED
    BY <1>3, <1>4 DEF RInv

(* A step that does not come near running anything.                        *)
LEMMA RunGoesOn ==
    ASSUME SInv, RInv, NEW t \in Threads, NEW pc, NEW request, NEW content, NEW inode,
           Now(t, pc, request, content, inode), asked \subseteq asked', proc' = proc,
           pc \notin {"replace", "select", "policy"},
           \/ pc \notin Started
           \/ request.kind # "boot"
           \/ thread[t].pc \in Started /\ request = thread[t].request
    PROVE  RInv'
<1>1. /\ thread'[t].pc = pc /\ thread'[t].request = request
      /\ My(t)' = My(t)
    BY DEF Now, My
<1>2. request = thread[t].request => SystemPlace(t)' = SystemPlace(t)
    BY <1>1 DEF SystemPlace, Request
<1>3. \A launch : Carried(launch, asked) => Carried(launch, asked')
    BY DEF Carried
<1>4. RunOk(t)'
    BY <1>1, <1>2, <1>3 DEF RInv, RunOk, Request, Launches
<1>5. QED
    BY <1>4, RunKept

(* While a process boots, only one of its threads is busy.                 *)
LEMMA AloneAtBoot ==
    ASSUME SInv, NEW t \in Threads, Busy(t), Request(t).kind = "boot",
           NEW u \in Threads \ {t}, Busy(u)
    PROVE  Process[u] # Process[t]
<1>1. t = Main[Process[t]] /\ My(t).status = "booting"
    BY DEF SInv, BootOk
<1>2. IF Request(u).kind = "boot" THEN u = Main[Process[u]] ELSE My(u).status = "serving"
    BY DEF SInv, BootOk
<1>3. QED
    BY <1>1, <1>2 DEF My

LEMMA RunFails ==
    ASSUME SInv, RInv, NEW t \in Threads, Busy(t), Fail(t), asked' = asked
    PROVE  RInv'
<1>1. PICK pc \in {"idle", "failed"} : Now(t, pc, Idle.request, Idle.content, Idle.inode)
    BY FailsOk
<1>2. RunOk(t)'
    BY <1>1 DEF RunOk, Now, Started
<1>3. \A p \in Processes : proc'[p] = proc[p] \/ proc'[p].status # "serving"
    BY SeedAssumption DEF Fail, Off, SInv, ProcShape
<1>4. \A u \in Threads \ {t} : Busy(u) => proc'[Process[u]] = proc[Process[u]]
    BY AloneAtBoot, SeedAssumption DEF Fail, SInv, ProcShape
<1>5. QED
    BY <1>1, <1>2, <1>3, <1>4, RunKept

LEMMA RunAnswers ==
    ASSUME SInv, RInv, NEW t \in Threads, UNCHANGED asked,
           \/ Answer(t)
           \/ thread' = [thread EXCEPT ![t] = Idle]
           \/ thread' = [thread EXCEPT ![t] = Failed],
           \A p \in Processes : proc'[p] = proc[p] \/ RunsOk(p)',
           \A p \in Processes : proc'[p].system = proc[p].system
    PROVE  RInv'
<1>1. /\ Threadlike(Idle) /\ Threadlike(Failed) /\ Idle.pc = "idle" /\ Failed.pc = "failed"
    BY DEF Idle, Failed, Threadlike
<1>2. PICK r \in {Idle, Failed} : thread' = [thread EXCEPT ![t] = r]
    BY DEF Answer
<1>3. Now(t, r.pc, r.request, r.content, r.inode) /\ r.pc \in {"idle", "failed"}
    BY <1>1, <1>2, Becomes DEF SInv
<1>4. RunOk(t)'
    BY <1>3 DEF RunOk, Now, Started
<1>5. \A u \in Threads \ {t} : proc'[Process[u]].system = proc[Process[u]].system
    BY SeedAssumption
<1>6. QED
    BY <1>3, <1>4, <1>5, RunKept

(* Whatever the trust store lists somebody asked for.                      *)
LEMMA TrustedAreAsked ==
    ASSUME SInv, TrustReadable, NEW sha \in TrustedHashes, NEW place
    PROVE  Allowed(sha, place, asked)
<1>1. Linked(TrustFile) /\ files[TrustFile] \in Inodes
    BY PathsDiffer DEF TrustedHashes, Linked, SInv, Shape
<1>2. CoveredBy(TrustedHashes, asked)
    BY <1>1 DEF TrustReadable, TrustedHashes, Content, SInv, TrustInv, Covered
<1>3. QED
    BY <1>2 DEF CoveredBy, Allowed

LEMMA SystemLoads ==
    ASSUME NEW place, NEW user, NEW name \in DOMAIN Sources(place, user)["system"]
    PROVE  Loaded(Sources(place, user), "system", name) \in Held(place)
BY DEF Sources, Loaded, Held

LEMMA StoresRun ==
    ASSUME SInv, RInv, NEW t \in Threads,
           \/ ReadTrust(t) \/ ValidateProfile(t)
           \/ OpenTemporary(t) \/ WriteTemporary(t) \/ CommitTemporary(t)
    PROVE  RInv'
<1>1. /\ Busy(t) /\ asked' = asked
      /\ thread[t].pc = "validate" => Request(t).kind # "boot"
    BY DEF ReadTrust, ValidateProfile, OpenTemporary, WriteTemporary, CommitTemporary, Refuse,
           At, Busy, Waiting, counters, SInv, RequestOk
<1>2. CASE Fail(t)
    BY <1>1, <1>2, RunFails
<1>3. CASE ~Fail(t) /\ (ReadTrust(t) \/ ValidateProfile(t))
    <2>1. /\ thread[t].pc \in {"readTrust", "validate"} /\ proc' = proc
          /\ \E content : thread' = [thread EXCEPT ![t].pc = "open", ![t].content = content]
        BY <1>3 DEF ReadTrust, ValidateProfile, Refuse, At
    <2>2. PICK content : Now(t, "open", thread[t].request, content, thread[t].inode)
        BY <2>1, Prepares DEF SInv
    <2>3. QED
        BY <1>1, <2>1, <2>2, RunGoesOn DEF Request, Started
<1>4. CASE OpenTemporary(t)
    <2>1. /\ thread[t].pc = "open" /\ proc' = proc
          /\ \E i \in Inodes : thread' = [thread EXCEPT ![t].inode = i, ![t].pc = "write"]
        BY <1>4 DEF OpenTemporary, Truncate, At
    <2>2. PICK i \in Inodes : Now(t, "write", thread[t].request, thread[t].content, i)
        BY <2>1, Holds DEF SInv
    <2>3. QED
        BY <1>1, <2>1, <2>2, RunGoesOn DEF Started
<1>5. CASE ~Fail(t) /\ WriteTemporary(t)
    <2>1. /\ thread[t].pc = "write" /\ proc' = proc
          /\ thread' = [thread EXCEPT ![t].pc = "rename", ![t].inode = NoInode]
        BY <1>5 DEF WriteTemporary, At
    <2>2. Now(t, "rename", thread[t].request, thread[t].content, NoInode)
        BY <2>1, Holds DEF SInv
    <2>3. QED
        BY <1>1, <2>1, <2>2, RunGoesOn DEF Started
<1>6. CASE ~Fail(t) /\ CommitTemporary(t)
    <2>1. thread[t].pc = "rename" /\ proc' = proc /\ (Answer(t) \/ Goto(t, "profile"))
        BY <1>6 DEF CommitTemporary, Refuse, At
    <2>2. CASE Answer(t)
        BY <1>1, <2>1, <2>2, RunAnswers
    <2>3. CASE Goto(t, "profile")
        <3>1. Now(t, "profile", thread[t].request, thread[t].content, thread[t].inode)
            BY <2>3, GoesTo DEF SInv
        <3>2. QED
            BY <1>1, <2>1, <3>1, RunGoesOn DEF Started
    <2>4. QED
        BY <2>1, <2>2, <2>3
<1>7. QED
    BY <1>2, <1>3, <1>4, <1>5, <1>6

LEMMA PoliciesRun ==
    ASSUME SInv, RInv, NEW t \in Threads, CreatePolicy(t) \/ SyncPolicy(t) \/ CommitPolicy(t)
    PROVE  RInv'
<1>1. Busy(t) /\ asked' = asked
    BY DEF CreatePolicy, SyncPolicy, CommitPolicy, Refuse, At, Busy, Waiting, counters
<1>2. CASE Fail(t)
    BY <1>1, <1>2, RunFails
<1>3. CASE ~Fail(t) /\ CommitPolicy(t)
    BY <1>1, <1>3, RunAnswers DEF CommitPolicy
<1>4. CASE ~Fail(t) /\ CreatePolicy(t)
    <2>1. PICK i : thread' = [thread EXCEPT ![t].inode = i, ![t].pc = "sync"]
        BY <1>4 DEF CreatePolicy, Truncate, Refuse
    <2>2. proc' = proc
        BY <1>4 DEF CreatePolicy, Refuse
    <2>3. Now(t, "sync", thread[t].request, thread[t].content, i)
        BY <2>1, Holds DEF SInv
    <2>4. QED
        BY <1>1, <2>2, <2>3, RunGoesOn DEF Started
<1>5. CASE ~Fail(t) /\ SyncPolicy(t)
    <2>1. thread' = [thread EXCEPT ![t].pc = "commit", ![t].inode = NoInode] /\ proc' = proc
        BY <1>5 DEF SyncPolicy
    <2>2. Now(t, "commit", thread[t].request, thread[t].content, NoInode)
        BY <2>1, Holds DEF SInv
    <2>3. QED
        BY <1>1, <2>1, <2>2, RunGoesOn DEF Started
<1>6. QED
    BY <1>2, <1>3, <1>4, <1>5

LEMMA PackagesRun ==
    ASSUME SInv, RInv, NEW t \in Threads, CreatePackage(t) \/ WritePackage(t) \/ VerifyPackage(t)
    PROVE  RInv'
<1>1. /\ Busy(t) /\ asked' = asked
      /\ \/ Fail(t)
         \/ proc' = proc /\ (Answer(t) \/ Goto(t, "writePackage") \/ Goto(t, "verifyPackage"))
    BY DEF CreatePackage, WritePackage, VerifyPackage, At, Busy, Waiting, Refuse, disk, counters
<1>2. CASE Fail(t)
    BY <1>1, <1>2, RunFails
<1>3. CASE proc' = proc /\ Answer(t)
    BY <1>1, <1>3, RunAnswers
<1>4. ASSUME proc' = proc, NEW pc \in {"writePackage", "verifyPackage"}, Goto(t, pc)
      PROVE  RInv'
    <2>1. Now(t, pc, thread[t].request, thread[t].content, thread[t].inode)
        BY <1>4, GoesTo DEF SInv
    <2>2. QED
        BY <1>1, <1>4, <2>1, RunGoesOn DEF Started
<1>5. QED
    BY <1>1, <1>2, <1>3, <1>4

(* An editor is of the system, or its hash was in the trust store when it  *)
(* was looked up.                                                          *)
LEMMA EditorsRun ==
    ASSUME SInv, RInv, NEW t \in Threads, LoadEditor(t) \/ LookUpTrust(t) \/ ReplaceEditor(t)
    PROVE  RInv'
<1>1. Busy(t) /\ asked' = asked /\ Request(t).kind # "boot"
    BY DEF LoadEditor, LookUpTrust, ReplaceEditor, Refuse, At, Busy, Waiting, disk, counters,
           SInv, RequestOk
<1>2. CASE Fail(t)
    BY <1>1, <1>2, RunFails
<1>3. CASE ~Fail(t) /\ LoadEditor(t)
    <2> DEFINE r == Request(t)   sources == Sources(My(t).system, registry)
               sha == Loaded(sources, r.origin, r.name)
               pc == IF r.origin = "user" THEN "lookup" ELSE "replace"
    <2>1. /\ r.origin \in DOMAIN sources /\ r.name \in DOMAIN sources[r.origin]
          /\ thread' = [thread EXCEPT ![t].pc = pc, ![t].content = Whole(sha)] /\ proc' = proc
        BY <1>3 DEF LoadEditor, Refuse, Loads
    <2>2. pc = "replace" => r.origin = "system"
        BY <2>1 DEF Sources
    <2>3. pc = "replace" => Allowed(sha, My(t).system, asked)
        BY <2>1, <2>2, SystemLoads DEF Allowed
    <2>4. pc \in {"lookup", "replace"} /\ Whole(sha).sha = sha
        BY DEF Whole
    <2> HIDE DEF pc, sha
    <2>5. Now(t, pc, thread[t].request, Whole(sha), thread[t].inode)
        BY <2>1, Prepares DEF SInv
    <2>6. RunOk(t)'
        BY <1>1, <2>1, <2>3, <2>4, <2>5 DEF RunOk, Now, Request, My, Started
    <2>7. QED
        BY <1>1, <2>1, <2>5, <2>6, RunKept
<1>4. CASE ~Fail(t) /\ LookUpTrust(t)
    <2>1. TrustReadable /\ thread[t].content.sha \in TrustedHashes /\ Goto(t, "replace") /\ proc' = proc
        BY <1>4 DEF LookUpTrust, Refuse
    <2>2. Allowed(thread[t].content.sha, My(t).system, asked)
        BY <2>1, TrustedAreAsked
    <2>3. Now(t, "replace", thread[t].request, thread[t].content, thread[t].inode)
        BY <2>1, GoesTo DEF SInv
    <2>4. RunOk(t)'
        BY <1>1, <2>1, <2>2, <2>3 DEF RunOk, Now, Request, My, Started
    <2>5. QED
        BY <1>1, <2>1, <2>3, <2>4, RunKept
<1>5. CASE ReplaceEditor(t)
    <2> DEFINE p == Process[t]   sha == thread[t].content.sha
    <2>1. /\ proc' = [proc EXCEPT ![p].running = sha] /\ Answer(t)
          /\ Allowed(sha, My(t).system, asked)
        BY <1>5 DEF ReplaceEditor, At, RInv, RunOk
    <2>2. p \in Processes /\ proc[p].status = "serving"
        BY <1>1, SeedAssumption DEF SInv, BootOk, My
    <2>3. proc'[p] = [proc[p] EXCEPT !.running = sha] /\ \A q \in Processes \ {p} : proc'[q] = proc[q]
        BY <2>1, <2>2 DEF SInv, ProcShape
    <2>4. Serving(proc[p])
        BY <2>2 DEF SInv, ProcShape
    <2>5. /\ proc'[p].running = sha /\ proc'[p].system = proc[p].system
          /\ proc'[p].named = proc[p].named
        BY <2>3, <2>4 DEF Serving
    <2>6. RunsOk(p)'
        BY <1>1, <2>1, <2>2, <2>5 DEF RInv, RunsOk, My
    <2>7. \A q \in Processes : proc'[q].system = proc[q].system
        BY <2>3, <2>5
    <2>8. QED
        BY <1>1, <2>1, <2>3, <2>6, <2>7, RunAnswers
<1>6. QED
    BY <1>2, <1>3, <1>4, <1>5

(* A launch package carries the loader and the editor it names.            *)
LEMMA LaunchCarries ==
    ASSUME NEW launch, NEW policy, ValidLaunch(launch, policy), NEW l \in Facts[launch].launch
    PROVE  l.loader.sha \in LaunchHashes(launch) /\ l.editor.sha \in LaunchHashes(launch)
<1>1. ASSUME NEW ref, NEW e \in Facts[launch].embedded, IsReference(e.sha, ref)
      PROVE  ref.sha \in LaunchHashes(launch)
    BY <1>1 DEF IsReference, LaunchHashes
<1>2. /\ \E e \in Facts[launch].embedded : IsReference(e.sha, l.loader)
      /\ \E e \in Facts[launch].embedded : IsReference(e.sha, l.editor)
    BY DEF ValidLaunch
<1>3. QED
    BY <1>1, <1>2

LEMMA ResolvedIsAllowed ==
    ASSUME SInv, TrustReadable, NEW ref, NEW layer, NEW policy, NEW place,
           Resolves(Sources(place, registry), ref, layer, policy),
           ref.origin = "user" => ref.sha \in TrustedHashes
    PROVE  Allowed(ref.sha, place, asked)
<1>1. Matches(Sources(place, registry), ref, policy) # {} /\ ref.origin \in {"system", "user"}
    <2>1. Cardinality(Matches(Sources(place, registry), ref, policy)) = 1
        BY DEF Resolves
    <2>2. Matches(Sources(place, registry), ref, policy) # {}
        BY <2>1, FS_EmptySet
    <2>3. ref.origin \in DOMAIN Sources(place, registry)
        BY DEF Resolves
    <2>4. QED
        BY <2>2, <2>3 DEF Sources
<1>2. PICK n : n \in Matches(Sources(place, registry), ref, policy)
    BY <1>1
<1>3. n \in DOMAIN Sources(place, registry)[ref.origin] /\ Loaded(Sources(place, registry), ref.origin, n) = ref.sha
    BY <1>2 DEF Matches
<1>4. CASE ref.origin = "system"
    BY <1>3, <1>4, SystemLoads DEF Allowed
<1>5. CASE ref.origin = "user"
    BY <1>5, TrustedAreAsked
<1>6. QED
    BY <1>1, <1>4, <1>5

LEMMA BootsRun ==
    ASSUME SInv, RInv, NEW t \in Threads, ResolveLimits(t) \/ LoadProfile(t)
    PROVE  RInv'
<1>1. Busy(t) /\ Request(t).kind = "boot"
    BY DEF ResolveLimits, LoadProfile, At, Busy, Waiting, SInv, RequestOk
<1>2. CASE Refuse(t)
    BY <1>1, <1>2, RunFails DEF Refuse
<1>3. CASE ~Refuse(t) /\ ResolveLimits(t)
    <2>1. PICK policy :
            /\ Launches(t) => ValidLaunch(Request(t).launch, policy)
            /\ proc' = [proc EXCEPT ![Process[t]] =
                            [status |-> "booting", policy |-> policy, system |-> SystemPlace(t)]]
            /\ Goto(t, IF Launches(t) THEN "readTrust" ELSE "profile")
            /\ asked' = IF Launches(t) THEN asked \cup {LaunchHashes(Request(t).launch)} ELSE asked
        BY <1>3 DEF ResolveLimits
    <2>2. PICK pc \in {"readTrust", "profile"} : Goto(t, pc)
        BY <2>1
    <2>3. Now(t, pc, thread[t].request, thread[t].content, thread[t].inode)
        BY <2>2, GoesTo DEF SInv
    <2>4. Launches(t) => Carried(Request(t).launch, asked')
        BY <2>1, LaunchCarries DEF Carried
    <2>5. RunOk(t)'
        <3>1. /\ thread'[t].pc = pc /\ thread'[t].request = thread[t].request
              /\ Request(t) \in Arguments
            BY <1>3, <2>3 DEF Now, RInv, RunOk, ResolveLimits, At
        <3>2. My(t)'.system = SystemPlace(t)
            BY <2>1, SeedAssumption DEF SInv, ProcShape, My
        <3>3. SystemPlace(t)' = SystemPlace(t)
            BY <3>1 DEF SystemPlace, Request
        <3>4. QED
            BY <2>4, <3>1, <3>2, <3>3 DEF RunOk, Request, Launches
    <2>6. \A p \in Processes : proc'[p] = proc[p] \/ proc'[p].status # "serving"
        BY <2>1, SeedAssumption DEF SInv, ProcShape
    <2>7. asked \subseteq asked'
        BY <2>1
    <2>8. \A u \in Threads \ {t} : Busy(u) => proc'[Process[u]] = proc[Process[u]]
        BY <1>1, <2>1, AloneAtBoot, SeedAssumption DEF SInv, ProcShape
    <2>9. QED
        BY <2>3, <2>5, <2>6, <2>7, <2>8, RunKept
<1>4. CASE ~Refuse(t) /\ LoadProfile(t) /\ ~HasProfile(t)
    <2>1. thread[t].pc = "profile" /\ Goto(t, "select") /\ UNCHANGED <<proc, asked>>
        BY <1>4 DEF LoadProfile, At
    <2>2. Now(t, "select", thread[t].request, thread[t].content, thread[t].inode)
        BY <2>1, GoesTo DEF SInv
    <2>3. RunOk(t)'
        <3>1. /\ thread'[t].pc = "select" /\ thread'[t].request = thread[t].request
              /\ My(t)' = My(t) /\ ~HasProfile(t)'
            BY <1>4, <2>1, <2>2 DEF Now, My, HasProfile, Request
        <3>2. SystemPlace(t)' = SystemPlace(t)
            BY <3>1 DEF SystemPlace, Request
        <3>3. QED
            BY <1>1, <2>1, <3>1, <3>2 DEF RInv, RunOk, Request, Launches, Started
    <2>4. QED
        BY <2>1, <2>2, <2>3, RunKept
<1>5. CASE ~Refuse(t) /\ LoadProfile(t) /\ HasProfile(t)
    <2> DEFINE content == Content(File("profile", Request(t).profile))
    <2>1. /\ thread[t].pc = "profile" /\ UNCHANGED <<proc, asked>>
          /\ thread' = [thread EXCEPT ![t].pc = "select", ![t].content = content]
        BY <1>5 DEF LoadProfile, At
    <2>2. /\ ValidProfile(content.profile, Sources(My(t).system, registry), My(t).policy)
          /\ TrustReadable /\ ProfileTrusted(content.profile, TrustedHashes)
        BY <1>5 DEF LoadProfile, ProfileOf
    <2> HIDE DEF content
    <2>3. /\ Resolves(Sources(My(t).system, registry), content.profile.loader, "a1", My(t).policy)
          /\ Resolves(Sources(My(t).system, registry), content.profile.editor, "a2", My(t).policy)
        BY <2>2 DEF ValidProfile
    <2>4. \A ref \in {content.profile.loader, content.profile.editor} :
                ref.origin = "user" => ref.sha \in TrustedHashes
        BY <2>2 DEF ProfileTrusted, References
    <2>5. /\ Allowed(content.profile.loader.sha, My(t).system, asked)
          /\ Allowed(content.profile.editor.sha, My(t).system, asked)
        BY <2>2, <2>3, <2>4, ResolvedIsAllowed
    <2>6. Now(t, "select", thread[t].request, content, thread[t].inode)
        BY <2>1, Prepares DEF SInv
    <2>7. RunOk(t)'
        <3>1. /\ thread'[t].pc = "select" /\ thread'[t].request = thread[t].request
              /\ thread'[t].content = content /\ My(t)' = My(t)
            BY <2>1, <2>6 DEF Now, My
        <3>2. SystemPlace(t)' = SystemPlace(t)
            BY <3>1 DEF SystemPlace, Request
        <3>3. QED
            BY <1>1, <2>1, <2>5, <3>1, <3>2 DEF RInv, RunOk, Request, Launches, Started
    <2>8. QED
        BY <2>1, <2>6, <2>7, RunKept
<1>6. QED
    BY <1>2, <1>3, <1>4, <1>5

(* The loaders to choose from, and what runs first.                        *)
LEMMA LoadersAllowed ==
    ASSUME SInv, RInv, NEW t \in Threads, thread[t].pc = "select",
           NEW loader \in CliLoaders(t) \cup DesktopLoaders(t)
    PROVE  Allowed(loader, My(t).system, asked) \/ loader \in Named(t, loader)
<1>1. Request(t).kind = "boot"
    BY DEF SInv, RequestOk
<1>2. CASE loader \in Offered(t) /\ Request(t).loader = {}
    <2>1. My(t).system = Shipped
        BY <1>1, <1>2 DEF RInv, RunOk, Started, SystemPlace
    <2>2. QED
        BY <1>2, <2>1 DEF Offered, DiscoveredLoaders, Held, Allowed
<1>3. HasProfile(t) => Allowed(thread[t].content.profile.loader.sha, My(t).system, asked)
    BY DEF RInv, RunOk
<1>4. ASSUME Launches(t), NEW l \in Facts[Request(t).launch].launch
      PROVE  Allowed(l.loader.sha, My(t).system, asked)
    BY <1>1, <1>4 DEF RInv, RunOk, Started, Carried, Allowed
<1>5. CASE Asks(t) \/ loader \in NamedLoaders(Request(t).loader, My(t).policy)
    BY <1>5 DEF Named
<1>6. QED
    BY <1>2, <1>3, <1>4, <1>5 DEF CliLoaders, DesktopLoaders

(* Another directory than the shipped one is that of the loader that was   *)
(* named for the process.                                                  *)
LEMMA LoaderBeside ==
    ASSUME SInv, RInv, NEW t \in Threads, thread[t].pc = "select", NEW loader,
           Process[t] \notin Desktop => loader \in CliLoaders(t)
    PROVE  /\ \/ My(t).system = Shipped
              \/ Process[t] \notin Desktop /\ Named(t, loader) \cap Held(My(t).system) # {}
           /\ My(t).system \in DOMAIN Folders
<1>1. Request(t) \in Arguments /\ My(t).system = SystemPlace(t)
    BY DEF SInv, RequestOk, RInv, RunOk, Started
<1>2. CASE ~(Process[t] \notin Desktop /\ Request(t).loader # {})
    BY <1>1, <1>2, SeedAssumption DEF SystemPlace
<1>3. CASE Process[t] \notin Desktop /\ Request(t).loader # {}
    <2>1. loader \in NamedLoaders(Request(t).loader, My(t).policy)
        BY <1>3 DEF CliLoaders
    <2>2. PICK f \in Request(t).loader :
            f.name \in DOMAIN Folders[f.place] /\ loader = ContentAt(f)
        BY <2>1 DEF NamedLoaders
    <2>3. \A g \in Request(t).loader : g = f
        BY <1>1, SeedAssumption
    <2>4. {g.place : g \in Request(t).loader} = {f.place}
        BY <2>3
    <2>5. SystemPlace(t) = f.place
        BY <1>3, <2>4 DEF SystemPlace
    <2>6. f.place \in DOMAIN Folders
        BY <1>1, SeedAssumption
    <2>7. loader \in Held(f.place) /\ loader \in Named(t, loader)
        BY <2>1, <2>2 DEF ContentAt, Held, Named
    <2>8. QED
        BY <1>1, <1>3, <2>5, <2>6, <2>7
<1>4. QED
    BY <1>2, <1>3

LEMMA FirstAllowed ==
    ASSUME SInv, RInv, NEW t \in Threads, thread[t].pc = "select", NEW loader,
           Allowed(loader, My(t).system, asked) \/ loader \in Named(t, loader),
           NEW first \in FirstPackage(t, loader)
    PROVE  Allowed(first, My(t).system, asked) \/ first \in Named(t, loader)
<1> DEFINE sources == Sources(My(t).system, registry)
<1>1. Request(t).kind = "boot"
    BY DEF SInv, RequestOk
<1>2. ASSUME NEW sha \in DefaultEditor(loader, sources, My(t).policy)
      PROVE  Allowed(sha, My(t).system, asked)
    <2>1. PICK e \in CatalogEntries(sources, {}, My(t).policy) :
            e.valid /\ e.origin = "system" /\ sha = Loaded(sources, "system", e.file)
        BY <1>2 DEF DefaultEditor
    <2>2. e.file \in DOMAIN sources["system"]
        BY <2>1 DEF CatalogEntries
    <2>3. QED
        BY <2>1, <2>2, SystemLoads DEF Allowed
<1>3. HasProfile(t) => Allowed(thread[t].content.profile.editor.sha, My(t).system, asked)
    BY DEF RInv, RunOk
<1>4. ASSUME Launches(t), NEW l \in Facts[Request(t).launch].launch
      PROVE  Allowed(l.editor.sha, My(t).system, asked)
    BY <1>1, <1>4 DEF RInv, RunOk, Started, Carried, Allowed
<1>5. Request(t).editor \in Packages => Request(t).editor \in Named(t, loader)
    BY DEF Named
<1>6. QED
    BY <1>2, <1>3, <1>4, <1>5 DEF FirstPackage

LEMMA ServesRun ==
    ASSUME SInv, RInv, NEW t \in Threads, NEW loaders, Serve(t, loaders),
           loaders \subseteq CliLoaders(t) \cup DesktopLoaders(t),
           Process[t] \notin Desktop => loaders \subseteq CliLoaders(t)
    PROVE  RInv'
<1>1. thread[t].pc = "select" /\ Busy(t) /\ asked' = asked
    BY DEF Serve, At, Busy, Waiting, Refuse
<1>2. CASE Refuse(t)
    BY <1>1, <1>2, RunFails DEF Refuse
<1>3. CASE ~Refuse(t)
    <2>1. PICK loader, first :
            /\ loader \in loaders /\ first \in FirstPackage(t, loader)
            /\ proc' = [proc EXCEPT ![Process[t]] =
                    [status |-> "serving", policy |-> My(t).policy, system |-> My(t).system,
                     loader |-> loader, running |-> first, named |-> Named(t, loader)]]
        BY <1>3 DEF Serve
    <2>2. thread' = [thread EXCEPT ![t] = Idle]
        BY <1>3 DEF Serve
    <2>3. Allowed(first, My(t).system, asked) \/ first \in Named(t, loader)
        BY <1>1, <2>1, LoadersAllowed, FirstAllowed
    <2>4. /\ \/ My(t).system = Shipped
             \/ Process[t] \notin Desktop /\ Named(t, loader) \cap Held(My(t).system) # {}
          /\ My(t).system \in DOMAIN Folders
        BY <1>1, <2>1, LoaderBeside
    <2>5. ASSUME NEW p \in Processes
          PROVE  (proc'[p] = proc[p] \/ RunsOk(p)') /\ proc'[p].system = proc[p].system
        <3>1. CASE p = Process[t]
            <4>1. /\ proc'[p].running = first /\ proc'[p].named = Named(t, loader)
                  /\ proc'[p].system = proc[p].system
                BY <2>1, <2>5, <3>1 DEF SInv, ProcShape, My
            <4>2. QED
                BY <1>1, <2>3, <2>4, <3>1, <4>1 DEF RunsOk, My
        <3>2. CASE p # Process[t]
            BY <2>1, <2>5, <3>2 DEF SInv, ProcShape
        <3>3. QED
            BY <3>1, <3>2
    <2>6. QED
        BY <1>1, <2>2, <2>5, RunAnswers
<1>4. QED
    BY <1>2, <1>3

LEMMA SelectRuns ==
    ASSUME SInv, RInv, NEW t \in Threads, CliServe(t) \/ DesktopServe(t) \/ CancelSelection(t)
    PROVE  RInv'
<1>1. thread[t].pc = "select" /\ Busy(t)
    BY DEF CliServe, DesktopServe, CancelSelection, Serve, At, Busy, Waiting
<1>2. CASE CliServe(t)
    BY <1>1, <1>2, ServesRun DEF CliServe
<1>3. CASE DesktopServe(t)
    BY <1>1, <1>3, ServesRun DEF DesktopServe
<1>4. CASE CancelSelection(t)
    BY <1>1, <1>4, RunFails DEF CancelSelection, Refuse
<1>5. QED
    BY <1>2, <1>3, <1>4

LEMMA ProcessesRun ==
    ASSUME SInv, RInv, NEW p \in Processes, Boot(p) \/ Crash(p)
    PROVE  RInv'
<1>1. CASE Boot(p)
    <2> DEFINE t == Main[p]
    <2>1. t \in Threads
        BY SeedAssumption
    <2>2. PICK args :
            /\ proc' = [proc EXCEPT ![p] = [status |-> "booting"]]
            /\ thread' = [thread EXCEPT ![t] = [Idle EXCEPT !.pc = "policy", !.request = args]]
            /\ asked' = asked /\ args \in Arguments
        BY <1>1 DEF Boot
    <2> HIDE DEF t
    <2>3. Now(t, "policy", args, Idle.content, Idle.inode)
        BY <2>1, <2>2, Begins DEF SInv
    <2>4. RunOk(t)'
        BY <2>2, <2>3 DEF RunOk, Now, Request, Started
    <2>5. \A q \in Processes : proc'[q] = proc[q] \/ proc'[q].status # "serving"
        BY <2>2 DEF SInv, ProcShape
    <2>6. \A u \in Threads : Busy(u) => proc'[Process[u]] = proc[Process[u]]
        BY <1>1, <2>2, SeedAssumption DEF Boot, SInv, BootOk, ProcShape, My
    <2>7. QED
        BY <2>1, <2>2, <2>3, <2>4, <2>5, <2>6, RunKept
<1>2. CASE Crash(p)
    <2>1. /\ asked' = asked /\ proc' = [proc EXCEPT ![p] = Off] /\ Idle.pc = "idle"
          /\ \A u \in Threads :
                \/ thread'[u] = Idle
                \/ thread'[u] = thread[u] /\ Process[u] # p
        BY <1>2 DEF Crash, Idle
    <2>2. ASSUME NEW u \in Threads
          PROVE  RunOk(u)'
        <3>1. CASE thread'[u] = Idle
            BY <2>1, <3>1 DEF RunOk, Started
        <3>2. CASE thread'[u] = thread[u] /\ Process[u] # p
            <4>1. My(u)' = My(u) /\ RunOk(u)
                BY <2>1, <2>2, <3>2, SeedAssumption DEF SInv, ProcShape, My, RInv
            <4>2. SystemPlace(u)' = SystemPlace(u)
                BY <3>2 DEF SystemPlace, Request
            <4>3. QED
                BY <2>1, <3>2, <4>1, <4>2 DEF RunOk, Request, Launches, HasProfile
        <3>3. QED
            BY <2>1, <2>2, <3>1, <3>2
    <2>3. \A q \in Processes : proc'[q] = proc[q] \/ proc'[q].status # "serving"
        BY <2>1 DEF SInv, ProcShape, Off
    <2>4. \A q \in Processes : RunsOk(q)'
        BY <2>1, <2>3 DEF RInv, RunsOk
    <2>5. QED
        BY <2>2, <2>4 DEF RInv
<1>3. QED
    BY <1>1, <1>2

LEMMA PagesRun ==
    ASSUME SInv, RInv, NEW t \in Threads, PageRequests(t)
    PROVE  RInv'
<1>1. PICK r \in Requests :
        \/ CliWrite(t, r) \/ DesktopWrite(t, r) \/ CutRequest(t, r)
        \/ CliRead(t, r) \/ DesktopRead(t, r) \/ CliFetch(t, r) \/ DesktopFetch(t, r)
    BY DEF PageRequests
<1>2. r.kind # "boot" /\ proc' = proc
    BY <1>1, SeedAssumption
       DEF CliWrite, DesktopWrite, CutRequest, CliRead, DesktopRead, CliFetch, DesktopFetch, Arrives
<1>3. CASE CliWrite(t, r) \/ DesktopWrite(t, r)
    <2> DEFINE pc == FirstStep(r)
    <2>1. r.kind \in DesktopWrites /\ Enter(t, r)
        BY <1>3 DEF CliWrite, DesktopWrite, DesktopWrites
    <2>2. pc \notin {"replace", "select", "policy"}
        BY <2>1 DEF DesktopWrites, CliWrites, FirstStep
    <2>3. /\ thread' = [thread EXCEPT ![t] = [Idle EXCEPT !.pc = pc, !.request = r]]
          /\ asked \subseteq asked'
        BY <2>1 DEF Enter
    <2> HIDE DEF pc
    <2>4. Now(t, pc, r, Idle.content, Idle.inode)
        BY <2>3, Begins DEF SInv
    <2>5. QED
        BY <1>2, <2>2, <2>3, <2>4, RunGoesOn
<1>4. CASE ~(CliWrite(t, r) \/ DesktopWrite(t, r))
    <2>1. asked' = asked /\ (\/ thread' = [thread EXCEPT ![t] = Idle]
                             \/ thread' = [thread EXCEPT ![t] = Failed])
        BY <1>1, <1>4 DEF CutRequest, CliRead, DesktopRead, CliFetch, DesktopFetch, Replied
    <2>2. QED
        BY <1>2, <2>1, RunAnswers
<1>5. QED
    BY <1>3, <1>4

LEMMA InitRuns == Init => RInv
<1> SUFFICES ASSUME Init PROVE RInv
    OBVIOUS
<1>1. proc = [p \in Processes |-> Off] /\ thread = [t \in Threads |-> Idle]
    BY DEF Init
<1>2. QED
    BY <1>1 DEF RInv, RunOk, RunsOk, Started, Idle, Off

LEMMA NextRuns == SInv /\ RInv /\ [Next]_vars => RInv'
<1> SUFFICES ASSUME SInv, RInv, [Next]_vars PROVE RInv'
    OBVIOUS
<1>1. CASE \E p \in Processes : Boot(p) \/ Crash(p)
    BY <1>1, ProcessesRun
<1>2. ASSUME NEW t \in Threads, Step(t)
      PROVE  RInv'
    BY <1>2, StoresRun, PoliciesRun, PackagesRun, EditorsRun, BootsRun, SelectRuns DEF Step
<1>3. CASE \E t \in Threads : PageRequests(t)
    BY <1>3, PagesRun
<1>4. CASE UNCHANGED vars
    BY <1>4 DEF vars, RInv, RunOk, RunsOk, Request, Launches, HasProfile, My, SystemPlace
<1>5. QED
    BY <1>1, <1>2, <1>3, <1>4 DEF Next

LEMMA RInvHolds == Spec => []RInv
BY SInvHolds, InitRuns, NextRuns, PTL DEF Spec

(* A process runs a package of its system directory, one in a closure      *)
(* somebody asked to trust, or what the user named for it: the editor or   *)
(* the loader of its command line, or the file of the dialog               *)
(* (activate_editor and the boot of both shells); and another system       *)
(* directory than the shipped one is that of such a loader.  For any       *)
(* packages, directories, profiles, processes, overlapping saves, failures *)
(* and crashes.                                                            *)
THEOREM OnlyTrustedRuns == Spec => []RunsOnlyTrusted
<1>1. RInv => RunsOnlyTrusted
    BY DEF RInv, RunsOk, Allowed, RunsOnlyTrusted
<1>2. QED
    BY <1>1, RInvHolds, PTL

-----------------------------------------------------------------------------
(* Profiles.  One that is saved, or is about to be, names packages that    *)
(* are there; and what can be loaded is never written again, for a package *)
(* that is being written was created by its writer, with no bytes.         *)
Everything == [f \in Fields |-> Unlimited]
Valid(profile, user) ==
    \E place \in DOMAIN Folders : ValidProfile(profile, Sources(place, user), Everything)
Filelike(file) == file = [sha |-> file.sha, length |-> file.length]

PackOk(t) ==
    /\ thread[t].pc = "createPackage" => Filelike(Request(t).file)
    /\ thread[t].pc = "writePackage" =>
          Request(t).name \in DOMAIN registry /\ registry[Request(t).name].length = 0

OneCreator ==
    \A t, u \in Threads :
        thread[t].pc = "writePackage" /\ thread[u].pc = "writePackage"
            /\ Request(t).name = Request(u).name => t = u

SaveOk(t) ==
    thread[t].pc \in {"open", "write"} /\ thread[t].content.kind = "profile" =>
        Valid(thread[t].content.profile, registry)

VInv ==
    /\ \A i \in Inodes : data[i].kind = "profile" => Valid(data[i].profile, registry)
    /\ \A t \in Threads : PackOk(t) /\ SaveOk(t)
    /\ OneCreator

(* A reference can only mean the file that carries its package's name.     *)
LEMMA MatchByName ==
    ASSUME NEW sources, NEW ref, NEW policy, NEW n \in Matches(sources, ref, policy)
    PROVE  n = FileName(Facts[ref.sha])
BY DEF Matches, Loads, Loaded, NameMatches, Manifest

LEMMA ResolvesByName ==
    ASSUME NEW sources, NEW ref, NEW layer, NEW policy
    PROVE  Resolves(sources, ref, layer, policy) <=>
              /\ ref.origin \in DOMAIN sources /\ Facts[ref.sha].layer = layer
              /\ FileName(Facts[ref.sha]) \in Matches(sources, ref, policy)
<1> DEFINE found == Matches(sources, ref, policy)   n == FileName(Facts[ref.sha])
<1>1. \A m \in found : m = n
    BY MatchByName
<1> HIDE DEF found, n
<1>2. Cardinality(found) = 1 => n \in found
    <2>1. Cardinality(found) = 1 => found # {}
        BY FS_EmptySet
    <2>2. QED
        BY <1>1, <2>1
<1>3. n \in found => Cardinality(found) = 1
    <2>1. n \in found => found = {n}
        BY <1>1
    <2>2. Cardinality({n}) = 1
        BY FS_Singleton
    <2>3. QED
        BY <2>1, <2>2
<1>4. QED
    BY <1>2, <1>3 DEF Resolves, found, n

LEMMA ValidElsewhere ==
    ASSUME NEW sources, NEW others, NEW policy, NEW other, NEW profile,
           DOMAIN sources = DOMAIN others,
           \A ref : ref.origin \in DOMAIN sources =>
                Matches(sources, ref, policy) \subseteq Matches(others, ref, other),
           ValidProfile(profile, sources, policy)
    PROVE  ValidProfile(profile, others, other)
<1>1. ASSUME NEW ref, NEW layer, Resolves(sources, ref, layer, policy)
      PROVE  Resolves(others, ref, layer, other)
    BY <1>1, ResolvesByName
<1>2. QED
    BY <1>1 DEF ValidProfile

(* What loads within limits loads without.                                 *)
LEMMA ValidUnlimited ==
    ASSUME NEW user, NEW policy, NEW profile, NEW place \in DOMAIN Folders,
           ValidProfile(profile, Sources(place, user), policy)
    PROVE  Valid(profile, user)
<1>1. ValidPolicy(Everything)
    BY DEF ValidPolicy, Everything
<1>2. \A field \in Fields : \A actual : Authorized(Everything, field, actual)
    BY DEF Authorized, Everything
<1>3. \A file : Parses(file, policy) => Parses(file, Everything)
    BY <1>1, <1>2 DEF Parses, AssetsSound, Fields
<1> DEFINE sources == Sources(place, user)
<1>4. \A ref : Matches(sources, ref, policy) \subseteq Matches(sources, ref, Everything)
    BY <1>3 DEF Matches, Loads
<1> HIDE DEF sources
<1>5. ValidProfile(profile, sources, Everything)
    BY <1>4, ValidElsewhere DEF sources
<1>6. QED
    BY <1>5 DEF Valid, sources

Grows(user, grown) ==
    /\ DOMAIN user \subseteq DOMAIN grown
    /\ \A n \in DOMAIN user : user[n].length # 0 => grown[n] = user[n]

LEMMA ValidGrows ==
    ASSUME NEW user, NEW grown, Grows(user, grown), NEW profile, Valid(profile, user)
    PROVE  Valid(profile, grown)
<1> PICK place \in DOMAIN Folders : ValidProfile(profile, Sources(place, user), Everything)
    BY DEF Valid
<1> DEFINE before == Sources(place, user)   after == Sources(place, grown)
<1>1. /\ DOMAIN before = {"system", "user"} /\ DOMAIN after = {"system", "user"}
      /\ before["system"] = after["system"]
      /\ before["user"] = user /\ after["user"] = grown
      /\ ValidProfile(profile, before, Everything)
    BY DEF Sources
<1> HIDE DEF before, after
<1>2. \A file : Parses(file, Everything) => file.length # 0
    BY DEF Parses, SectionsSound, Header
<1>3. ASSUME NEW ref, ref.origin \in {"system", "user"},
             NEW n \in Matches(before, ref, Everything)
      PROVE  n \in Matches(after, ref, Everything)
    <2>1. CASE ref.origin = "system"
        BY <1>1, <1>3, <2>1 DEF Matches, Loads, Loaded
    <2>2. CASE ref.origin = "user"
        <3>1. n \in DOMAIN user /\ Parses(user[n], Everything)
            BY <1>1, <1>3, <2>2 DEF Matches, Loads
        <3>2. n \in DOMAIN grown /\ grown[n] = user[n]
            BY <1>2, <3>1 DEF Grows
        <3>3. QED
            BY <1>1, <1>3, <2>2, <3>2 DEF Matches, Loads, Loaded
    <2>3. QED
        BY <1>3, <2>1, <2>2
<1>4. ValidProfile(profile, after, Everything)
    BY <1>1, <1>3, ValidElsewhere
<1>5. QED
    BY <1>4 DEF Valid, after

LEMMA ValidKept ==
    ASSUME SInv, VInv, NEW t \in Threads, NEW pc, NEW request, NEW content, NEW inode,
           Now(t, pc, request, content, inode), registry' = registry, pc # "writePackage",
           \A i \in Inodes : \/ data'[i] = data[i] \/ data'[i].kind # "profile"
                             \/ Valid(data'[i].profile, registry),
           pc = "createPackage" => Filelike(request.file),
           pc \in {"open", "write"} /\ content.kind = "profile" => Valid(content.profile, registry)
    PROVE  VInv'
<1>1. /\ thread'[t].pc = pc /\ thread'[t].request = request /\ thread'[t].content = content
      /\ \A u \in Threads \ {t} : thread'[u] = thread[u]
    BY DEF Now
<1>2. \A i \in Inodes : data'[i].kind = "profile" => Valid(data'[i].profile, registry')
    BY DEF VInv
<1>3. ASSUME NEW u \in Threads
      PROVE  PackOk(u)' /\ SaveOk(u)'
    <2>1. CASE u = t
        BY <1>1, <2>1 DEF PackOk, SaveOk, Request
    <2>2. CASE u # t
        BY <1>1, <1>3, <2>2 DEF VInv, PackOk, SaveOk, Request
    <2>3. QED
        BY <2>1, <2>2
<1>4. OneCreator'
    <2>1. \A u \in Threads : thread'[u].pc = "writePackage" => thread'[u] = thread[u]
        BY <1>1
    <2>2. QED
        BY <2>1 DEF VInv, OneCreator, Request
<1>5. QED
    BY <1>2, <1>3, <1>4 DEF VInv

LEMMA ValidFails ==
    ASSUME SInv, VInv, NEW t \in Threads, Busy(t), Fail(t), registry' = registry,
           \A i \in Inodes : data'[i] = data[i] \/ data'[i].kind # "profile"
    PROVE  VInv'
<1>1. PICK pc \in {"idle", "failed"} : Now(t, pc, Idle.request, Idle.content, Idle.inode)
    BY FailsOk
<1>2. QED
    BY <1>1, ValidKept

LEMMA ValidAnswers ==
    ASSUME SInv, VInv, NEW t \in Threads, UNCHANGED <<registry, data>>,
           \/ Answer(t)
           \/ thread' = [thread EXCEPT ![t] = Idle]
           \/ thread' = [thread EXCEPT ![t] = Failed]
    PROVE  VInv'
<1>1. /\ Threadlike(Idle) /\ Threadlike(Failed) /\ Idle.pc = "idle" /\ Failed.pc = "failed"
    BY DEF Idle, Failed, Threadlike
<1>2. PICK r \in {Idle, Failed} : thread' = [thread EXCEPT ![t] = r]
    BY DEF Answer
<1>3. Now(t, r.pc, r.request, r.content, r.inode) /\ r.pc \in {"idle", "failed"}
    BY <1>1, <1>2, Becomes DEF SInv
<1>4. QED
    BY <1>3, ValidKept

LEMMA StoresKeepValid ==
    ASSUME SInv, RInv, VInv, NEW t \in Threads,
           \/ ReadTrust(t) \/ ValidateProfile(t)
           \/ OpenTemporary(t) \/ WriteTemporary(t) \/ CommitTemporary(t)
    PROVE  VInv'
<1>1. Busy(t) /\ registry' = registry
    BY DEF ReadTrust, ValidateProfile, OpenTemporary, WriteTemporary, CommitTemporary, Refuse,
           At, Busy, Waiting, disk
<1>2. CASE Refuse(t)
    BY <1>1, <1>2, ValidFails DEF Refuse, disk
<1>3. CASE ~Refuse(t) /\ ReadTrust(t)
    <2> DEFINE content == TrustContent(TrustedHashes \cup Wanted(t))
    <2>1. thread' = [thread EXCEPT ![t].pc = "open", ![t].content = content] /\ data' = data
        BY <1>3 DEF ReadTrust, disk
    <2>2. content.kind # "profile"
        BY DEF TrustContent
    <2> HIDE DEF content
    <2>3. Now(t, "open", thread[t].request, content, thread[t].inode)
        BY <2>1, Prepares DEF SInv
    <2>4. QED
        BY <1>1, <2>1, <2>2, <2>3, ValidKept
<1>4. CASE ~Refuse(t) /\ ValidateProfile(t)
    <2> DEFINE content == ProfileContent(Request(t).profile)
    <2>1. thread' = [thread EXCEPT ![t].pc = "open", ![t].content = content] /\ data' = data
        BY <1>4 DEF ValidateProfile, disk
    <2>2. ValidProfile(Request(t).profile, Sources(My(t).system, registry), My(t).policy)
        BY <1>4 DEF ValidateProfile
    <2>3. Valid(content.profile, registry)
        <3>1. My(t).status = "serving" /\ Process[t] \in Processes
            BY <1>4, SeedAssumption DEF ValidateProfile, At, SInv, RequestOk, BootOk, Busy, Waiting
        <3>2. My(t).system \in DOMAIN Folders
            BY <3>1 DEF RInv, RunsOk, My
        <3>3. QED
            BY <2>2, <3>2, ValidUnlimited DEF ProfileContent
    <2> HIDE DEF content
    <2>4. Now(t, "open", thread[t].request, content, thread[t].inode)
        BY <2>1, Prepares DEF SInv
    <2>5. QED
        BY <1>1, <2>1, <2>3, <2>4, ValidKept
<1>5. CASE OpenTemporary(t)
    <2>1. PICK i \in Inodes :
            /\ data' = [data EXCEPT ![i] = Empty]
            /\ thread' = [thread EXCEPT ![t].inode = i, ![t].pc = "write"]
        BY <1>5 DEF OpenTemporary, Truncate
    <2>2. Now(t, "write", thread[t].request, thread[t].content, i)
        BY <2>1, Holds DEF SInv
    <2>3. thread[t].content.kind = "profile" => Valid(thread[t].content.profile, registry)
        BY <1>5 DEF OpenTemporary, At, VInv, SaveOk
    <2>4. Empty.kind # "profile"
        BY DEF Empty
    <2>5. \A j \in Inodes : data'[j] = data[j] \/ data'[j].kind # "profile"
        BY <2>1, <2>4 DEF SInv, Shape
    <2>6. QED
        BY <1>1, <2>2, <2>3, <2>5, ValidKept
<1>6. CASE WriteTemporary(t) /\ ~(PutPart(t) /\ Fail(t))
    <2> DEFINE new == Overlay(data[thread[t].inode], thread[t].content)
    <2>1. /\ data' = [data EXCEPT ![thread[t].inode] = new]
          /\ thread' = [thread EXCEPT ![t].pc = "rename", ![t].inode = NoInode]
        BY <1>6 DEF WriteTemporary, PutContent
    <2>2. new.kind = "profile" => Valid(new.profile, registry)
        BY <1>6 DEF WriteTemporary, At, Overlay, Torn, VInv, SaveOk
    <2> HIDE DEF new
    <2>3. \A i \in Inodes : data'[i] = data[i] \/ data'[i] = new
        BY <2>1 DEF SInv, Shape
    <2>4. Now(t, "rename", thread[t].request, thread[t].content, NoInode)
        BY <2>1, Holds DEF SInv
    <2>5. QED
        BY <1>1, <2>2, <2>3, <2>4, ValidKept
<1>7. CASE PutPart(t) /\ Fail(t)
    <2>1. \A i \in Inodes : data'[i] = data[i] \/ data'[i].kind # "profile"
        BY <1>7, WritesPart
    <2>2. QED
        BY <1>1, <1>7, <2>1, ValidFails
<1>8. CASE ~Refuse(t) /\ CommitTemporary(t)
    <2>1. data' = data /\ (Answer(t) \/ Goto(t, "profile"))
        BY <1>8 DEF CommitTemporary
    <2>2. CASE Answer(t)
        BY <1>1, <2>1, <2>2, ValidAnswers
    <2>3. CASE Goto(t, "profile")
        <3>1. Now(t, "profile", thread[t].request, thread[t].content, thread[t].inode)
            BY <2>3, GoesTo DEF SInv
        <3>2. QED
            BY <1>1, <2>1, <3>1, ValidKept
    <2>4. QED
        BY <2>1, <2>2, <2>3
<1>9. QED
    BY <1>2, <1>3, <1>4, <1>5, <1>6, <1>7, <1>8

LEMMA PoliciesKeepValid ==
    ASSUME SInv, VInv, NEW t \in Threads, CreatePolicy(t) \/ SyncPolicy(t) \/ CommitPolicy(t)
    PROVE  VInv'
<1>1. Busy(t) /\ registry' = registry
    BY DEF CreatePolicy, SyncPolicy, CommitPolicy, Refuse, At, Busy, Waiting, disk
<1>2. CASE Refuse(t)
    BY <1>1, <1>2, ValidFails DEF Refuse, disk
<1>3. CASE ~Refuse(t) /\ CreatePolicy(t)
    <2>1. PICK i \in Inodes :
            /\ data' = [data EXCEPT ![i] = Empty]
            /\ thread' = [thread EXCEPT ![t].inode = i, ![t].pc = "sync"]
        BY <1>3 DEF CreatePolicy, Truncate
    <2>2. Now(t, "sync", thread[t].request, thread[t].content, i)
        BY <2>1, Holds DEF SInv
    <2>3. Empty.kind # "profile"
        BY DEF Empty
    <2>4. \A j \in Inodes : data'[j] = data[j] \/ data'[j].kind # "profile"
        BY <2>1, <2>3 DEF SInv, Shape
    <2>5. QED
        BY <1>1, <2>2, <2>4, ValidKept
<1>4. CASE SyncPolicy(t)
    <2>1. CASE PutPart(t) /\ Fail(t)
        <3>1. \A i \in Inodes : data'[i] = data[i] \/ data'[i].kind # "profile"
            BY <2>1, WritesPart
        <3>2. QED
            BY <1>1, <2>1, <3>1, ValidFails
    <2>2. CASE ~(PutPart(t) /\ Fail(t))
        <3> DEFINE new == PolicyContent(Request(t).policy)
        <3>1. /\ data' = [data EXCEPT ![thread[t].inode] = new]
              /\ thread' = [thread EXCEPT ![t].pc = "commit", ![t].inode = NoInode]
            BY <1>4, <2>2 DEF SyncPolicy
        <3>2. new.kind # "profile"
            BY DEF PolicyContent
        <3> HIDE DEF new
        <3>3. \A i \in Inodes : data'[i] = data[i] \/ data'[i].kind # "profile"
            BY <3>1, <3>2 DEF SInv, Shape
        <3>4. Now(t, "commit", thread[t].request, thread[t].content, NoInode)
            BY <3>1, Holds DEF SInv
        <3>5. QED
            BY <1>1, <3>3, <3>4, ValidKept
    <2>3. QED
        BY <2>1, <2>2
<1>5. CASE CommitPolicy(t)
    <2>1. data' = data /\ (Answer(t) \/ Fail(t))
        BY <1>5 DEF CommitPolicy
    <2>2. QED
        BY <1>1, <2>1, ValidAnswers, ValidFails
<1>6. QED
    BY <1>2, <1>3, <1>4, <1>5

(* A package is created where there was none, and empty; then its writer,  *)
(* and nobody else, writes it.                                             *)
LEMMA CreateKeepsValid ==
    ASSUME SInv, VInv, NEW t \in Threads, CreatePackage(t)
    PROVE  VInv'
<1> DEFINE name == Request(t).name   file == Request(t).file
           created == [file EXCEPT !.length = 0]
<1>1. thread[t].pc = "createPackage" /\ Busy(t)
    BY DEF CreatePackage, At, Busy, Waiting
<1>2. CASE Refuse(t)
    BY <1>1, <1>2, ValidFails DEF Refuse, disk
<1>3. CASE ~Refuse(t)
    <2>1. /\ name \notin DOMAIN registry /\ Goto(t, "writePackage") /\ data' = data
          /\ registry' = [n \in DOMAIN registry \cup {name} |->
                              IF n = name THEN created ELSE registry[n]]
        BY <1>3 DEF CreatePackage
    <2>2. created.length = 0
        BY <1>1 DEF VInv, PackOk, Filelike
    <2> HIDE DEF created, name
    <2>3. /\ Grows(registry, registry') /\ name \in DOMAIN registry' /\ registry'[name] = created
          /\ \A n \in DOMAIN registry : n # name /\ registry'[n] = registry[n]
          /\ DOMAIN registry \subseteq DOMAIN registry'
        BY <2>1 DEF Grows
    <2>4. Now(t, "writePackage", thread[t].request, thread[t].content, thread[t].inode)
        BY <2>1, GoesTo DEF SInv
    <2>5. /\ thread'[t].pc = "writePackage" /\ Request(t)' = Request(t)
          /\ \A u \in Threads \ {t} : thread'[u] = thread[u]
        BY <2>4 DEF Now, Request
    <2>6. \A i \in Inodes : data'[i].kind = "profile" => Valid(data'[i].profile, registry')
        BY <2>1, <2>3, ValidGrows DEF VInv
    <2>7. ASSUME NEW u \in Threads
          PROVE  PackOk(u)' /\ SaveOk(u)'
        <3>1. CASE u = t
            BY <2>2, <2>3, <2>5, <3>1 DEF PackOk, SaveOk, name
        <3>2. CASE u # t
            <4>1. thread'[u] = thread[u] /\ PackOk(u) /\ SaveOk(u)
                BY <2>5, <2>7, <3>2 DEF VInv
            <4>2. PackOk(u)'
                BY <2>3, <4>1 DEF PackOk, Request
            <4>3. SaveOk(u)'
                BY <2>3, <4>1, ValidGrows DEF SaveOk
            <4>4. QED
                BY <4>2, <4>3
        <3>3. QED
            BY <3>1, <3>2
    <2>8. OneCreator'
        <3>1. ASSUME NEW u \in Threads \ {t}, thread'[u].pc = "writePackage"
              PROVE  Request(u)'.name # name
            BY <2>3, <2>5, <3>1 DEF VInv, PackOk, Request
        <3>2. ASSUME NEW u \in Threads \ {t}, NEW v \in Threads \ {t},
                     thread'[u].pc = "writePackage", thread'[v].pc = "writePackage",
                     Request(u)'.name = Request(v)'.name
              PROVE  u = v
            BY <2>5, <3>2 DEF VInv, OneCreator, Request
        <3>3. Request(t)'.name = name
            BY <2>5 DEF name
        <3>4. QED
            BY <3>1, <3>2, <3>3 DEF OneCreator
    <2>9. QED
        BY <2>6, <2>7, <2>8 DEF VInv
<1>4. QED
    BY <1>2, <1>3

LEMMA WriteKeepsValid ==
    ASSUME SInv, VInv, NEW t \in Threads, WritePackage(t)
    PROVE  VInv'
<1> DEFINE name == Request(t).name
<1>1. thread[t].pc = "writePackage" /\ Busy(t) /\ data' = data
    BY DEF WritePackage, At, Busy, Waiting
<1>2. name \in DOMAIN registry /\ registry[name].length = 0
    BY <1>1 DEF VInv, PackOk
<1>3. \E new : registry' = [registry EXCEPT ![name] = new]
    <2>1. CASE registry' = [registry EXCEPT ![name] = Request(t).file]
        BY <2>1
    <2>2. CASE \E n \in 1 .. Request(t).file.length - 1 :
                    registry' = [registry EXCEPT ![name].length = n]
        BY <2>2
    <2>3. QED
        BY <2>1, <2>2 DEF WritePackage
<1>4. \/ Goto(t, "verifyPackage")
      \/ Fail(t)
    BY DEF WritePackage
<1>5. PICK pc, request, content, inode :
        Now(t, pc, request, content, inode) /\ pc \in {"verifyPackage", "idle", "failed"}
    <2>1. CASE Goto(t, "verifyPackage")
        BY <2>1, GoesTo DEF SInv
    <2>2. CASE Fail(t)
        BY <1>1, <2>2, FailsOk
    <2>3. QED
        BY <1>4, <2>1, <2>2
<1> HIDE DEF name
<1>6. /\ Grows(registry, registry') /\ DOMAIN registry' = DOMAIN registry
      /\ \A n \in DOMAIN registry \ {name} : registry'[n] = registry[n]
    BY <1>2, <1>3 DEF Grows
<1>7. /\ thread'[t].pc = pc
      /\ \A u \in Threads \ {t} : thread'[u] = thread[u]
    BY <1>5 DEF Now
<1>8. \A i \in Inodes : data'[i].kind = "profile" => Valid(data'[i].profile, registry')
    BY <1>1, <1>6, ValidGrows DEF VInv
<1>9. ASSUME NEW u \in Threads
      PROVE  PackOk(u)' /\ SaveOk(u)'
    <2>1. CASE u = t
        BY <1>5, <1>7, <2>1 DEF PackOk, SaveOk
    <2>2. CASE u # t
        <3>1. thread'[u] = thread[u] /\ PackOk(u) /\ SaveOk(u)
            BY <1>7, <1>9, <2>2 DEF VInv
        <3>2. thread[u].pc = "writePackage" => Request(u).name # name
            BY <1>1, <1>9, <2>2 DEF VInv, OneCreator, name
        <3>3. PackOk(u)'
            BY <1>6, <3>1, <3>2 DEF PackOk, Request
        <3>4. SaveOk(u)'
            BY <1>6, <3>1, ValidGrows DEF SaveOk
        <3>5. QED
            BY <3>3, <3>4
    <2>3. QED
        BY <2>1, <2>2
<1>10. OneCreator'
    <2>1. \A u \in Threads : thread'[u].pc = "writePackage" => thread'[u] = thread[u]
        BY <1>5, <1>7
    <2>2. QED
        BY <2>1 DEF VInv, OneCreator, Request
<1>11. QED
    BY <1>8, <1>9, <1>10 DEF VInv

(* What is left changes neither stores nor packages.                       *)
LEMMA QuietlyValid ==
    ASSUME SInv, VInv, NEW t \in Threads, UNCHANGED <<registry, data>>, Busy(t),
           \/ Fail(t)
           \/ Answer(t)
           \/ thread' = [thread EXCEPT ![t] = Idle]
           \/ \E pc : /\ pc \notin {"createPackage", "writePackage", "open", "write"}
                      /\ \/ Goto(t, pc)
                         \/ \E content :
                              thread' = [thread EXCEPT ![t].pc = pc, ![t].content = content]
    PROVE  VInv'
<1>1. CASE Fail(t)
    BY <1>1, ValidFails
<1>2. CASE Answer(t) \/ thread' = [thread EXCEPT ![t] = Idle]
    BY <1>2, ValidAnswers
<1>3. ASSUME NEW pc, pc \notin {"createPackage", "writePackage", "open", "write"}, Goto(t, pc)
      PROVE  VInv'
    <2>1. Now(t, pc, thread[t].request, thread[t].content, thread[t].inode)
        BY <1>3, GoesTo DEF SInv
    <2>2. QED
        BY <1>3, <2>1, ValidKept
<1>4. ASSUME NEW pc, pc \notin {"createPackage", "writePackage", "open", "write"}, NEW content,
             thread' = [thread EXCEPT ![t].pc = pc, ![t].content = content]
      PROVE  VInv'
    <2>1. Now(t, pc, thread[t].request, content, thread[t].inode)
        BY <1>4, Prepares DEF SInv
    <2>2. QED
        BY <1>4, <2>1, ValidKept
<1>5. QED
    BY <1>1, <1>2, <1>3, <1>4

LEMMA OthersKeepValid ==
    ASSUME SInv, VInv, NEW t \in Threads,
           \/ VerifyPackage(t) \/ LoadEditor(t) \/ LookUpTrust(t) \/ ReplaceEditor(t)
           \/ ResolveLimits(t) \/ LoadProfile(t)
           \/ CliServe(t) \/ DesktopServe(t) \/ CancelSelection(t)
    PROVE  VInv'
<1>1. Busy(t) /\ UNCHANGED <<registry, data>>
    BY DEF VerifyPackage, LoadEditor, LookUpTrust, ReplaceEditor, ResolveLimits, LoadProfile,
           CliServe, DesktopServe, CancelSelection, Serve, Refuse, At, Busy, Waiting, disk
<1>2. CASE Fail(t)
    BY <1>1, <1>2, ValidFails
<1>3. CASE VerifyPackage(t) \/ ReplaceEditor(t)
    BY <1>1, <1>2, <1>3, QuietlyValid DEF VerifyPackage, ReplaceEditor
<1>4. CASE LoadEditor(t) /\ ~Fail(t)
    <2> DEFINE r == Request(t)
               pc == IF r.origin = "user" THEN "lookup" ELSE "replace"
               content == Whole(Loaded(Sources(My(t).system, registry), r.origin, r.name))
    <2>1. thread' = [thread EXCEPT ![t].pc = pc, ![t].content = content]
        BY <1>4 DEF LoadEditor, Refuse
    <2>2. pc \notin {"createPackage", "writePackage", "open", "write"}
        OBVIOUS
    <2> HIDE DEF pc, content
    <2>3. QED
        BY <1>1, <2>1, <2>2, QuietlyValid
<1>5. CASE LookUpTrust(t) /\ ~Fail(t)
    <2>1. Goto(t, "replace")
        BY <1>5 DEF LookUpTrust, Refuse
    <2>2. QED
        BY <1>1, <2>1, QuietlyValid
<1>6. CASE ResolveLimits(t) /\ ~Fail(t)
    <2>1. Goto(t, "readTrust") \/ Goto(t, "profile")
        BY <1>6 DEF ResolveLimits, Refuse
    <2>2. QED
        BY <1>1, <2>1, QuietlyValid
<1>7. CASE LoadProfile(t) /\ ~Fail(t)
    <2>1. \/ Goto(t, "select")
          \/ \E content : thread' = [thread EXCEPT ![t].pc = "select", ![t].content = content]
        BY <1>7 DEF LoadProfile, Refuse
    <2>2. QED
        BY <1>1, <2>1, QuietlyValid
<1>8. CASE CliServe(t) \/ DesktopServe(t) \/ CancelSelection(t)
    <2>1. Fail(t) \/ thread' = [thread EXCEPT ![t] = Idle]
        BY <1>8 DEF CliServe, DesktopServe, CancelSelection, Serve, Refuse
    <2>2. QED
        BY <1>1, <2>1, QuietlyValid
<1>9. QED
    BY <1>2, <1>3, <1>4, <1>5, <1>6, <1>7, <1>8

LEMMA ProcessesKeepValid ==
    ASSUME SInv, VInv, NEW p \in Processes, Boot(p) \/ Crash(p)
    PROVE  VInv'
<1>1. CASE Boot(p)
    <2> DEFINE t == Main[p]
    <2>1. t \in Threads
        BY SeedAssumption
    <2>2. PICK args : thread' = [thread EXCEPT ![t] = [Idle EXCEPT !.pc = "policy", !.request = args]]
        BY <1>1 DEF Boot
    <2>3. UNCHANGED <<registry, data>>
        BY <1>1 DEF Boot, disk
    <2> HIDE DEF t
    <2>4. Now(t, "policy", args, Idle.content, Idle.inode)
        BY <2>1, <2>2, Begins DEF SInv
    <2>5. QED
        BY <2>1, <2>3, <2>4, ValidKept
<1>2. CASE Crash(p)
    <2>1. /\ UNCHANGED <<registry, data>> /\ Idle.pc = "idle"
          /\ \A u \in Threads : thread'[u] = Idle \/ thread'[u] = thread[u]
        BY <1>2 DEF Crash, disk, Idle
    <2>2. \A u \in Threads : PackOk(u)' /\ SaveOk(u)'
        BY <2>1 DEF VInv, PackOk, SaveOk, Request
    <2>3. OneCreator'
        BY <2>1 DEF VInv, OneCreator, Request
    <2>4. QED
        BY <2>1, <2>2, <2>3 DEF VInv
<1>3. QED
    BY <1>1, <1>2

LEMMA PagesKeepValid ==
    ASSUME SInv, VInv, NEW t \in Threads, PageRequests(t)
    PROVE  VInv'
<1>1. PICK r \in Requests :
        \/ CliWrite(t, r) \/ DesktopWrite(t, r) \/ CutRequest(t, r)
        \/ CliRead(t, r) \/ DesktopRead(t, r) \/ CliFetch(t, r) \/ DesktopFetch(t, r)
    BY DEF PageRequests
<1>2. UNCHANGED <<registry, data>> /\ (r.kind = "install" => Filelike(r.file))
    BY <1>1, SeedAssumption
       DEF CliWrite, DesktopWrite, CutRequest, CliRead, DesktopRead, CliFetch, DesktopFetch,
           Arrives, disk, Filelike
<1>3. CASE CliWrite(t, r) \/ DesktopWrite(t, r)
    <2> DEFINE pc == FirstStep(r)
    <2>1. r.kind \in DesktopWrites /\ Enter(t, r)
        BY <1>3 DEF CliWrite, DesktopWrite, DesktopWrites
    <2>2. pc \notin {"writePackage", "open", "write"} /\ (pc = "createPackage" => r.kind = "install")
        BY <2>1 DEF DesktopWrites, CliWrites, FirstStep
    <2>3. thread' = [thread EXCEPT ![t] = [Idle EXCEPT !.pc = pc, !.request = r]]
        BY <2>1 DEF Enter
    <2> HIDE DEF pc
    <2>4. Now(t, pc, r, Idle.content, Idle.inode)
        BY <2>3, Begins DEF SInv
    <2>5. QED
        BY <1>2, <2>2, <2>4, ValidKept
<1>4. CASE ~(CliWrite(t, r) \/ DesktopWrite(t, r))
    <2>1. \/ thread' = [thread EXCEPT ![t] = Idle]
          \/ thread' = [thread EXCEPT ![t] = Failed]
        BY <1>1, <1>4 DEF CutRequest, CliRead, DesktopRead, CliFetch, DesktopFetch, Replied
    <2>2. QED
        BY <1>2, <2>1, ValidAnswers
<1>5. QED
    BY <1>3, <1>4

LEMMA InitIsValid == Init => VInv
<1> SUFFICES ASSUME Init PROVE VInv
    OBVIOUS
<1>1. /\ thread = [t \in Threads |-> Idle] /\ Idle.pc = "idle"
      /\ \A i \in Inodes : data[i] = TrustContent(TrustedBefore) \/ data[i] = Empty
    BY DEF Init, Idle
<1>2. \A i \in Inodes : data[i].kind # "profile"
    BY <1>1 DEF TrustContent, Empty
<1>3. QED
    BY <1>1, <1>2 DEF VInv, PackOk, SaveOk, OneCreator

LEMMA NextKeepsValid == SInv /\ RInv /\ VInv /\ [Next]_vars => VInv'
<1> SUFFICES ASSUME SInv, RInv, VInv, [Next]_vars PROVE VInv'
    OBVIOUS
<1>1. CASE \E p \in Processes : Boot(p) \/ Crash(p)
    BY <1>1, ProcessesKeepValid
<1>2. ASSUME NEW t \in Threads, Step(t)
      PROVE  VInv'
    BY <1>2, StoresKeepValid, PoliciesKeepValid, CreateKeepsValid, WriteKeepsValid,
       OthersKeepValid DEF Step
<1>3. CASE \E t \in Threads : PageRequests(t)
    BY <1>3, PagesKeepValid
<1>4. CASE UNCHANGED vars
    BY <1>4 DEF vars, disk, VInv, PackOk, SaveOk, OneCreator, Request
<1>5. QED
    BY <1>1, <1>2, <1>3, <1>4 DEF Next

LEMMA VInvHolds == Spec => []VInv
BY SInvHolds, RInvHolds, InitIsValid, NextKeepsValid, PTL DEF Spec

(* A profile on the disk that is whole names packages that are there,      *)
(* whole and of the right layer (save_runtime_profile and                  *)
(* install_user_package), whatever was installed, saved, cut short or      *)
(* killed since it was written.                                            *)
THEOREM ProfilesStayValid == Spec => []ProfilesResolve
<1>1. ASSUME SInv, VInv, NEW id \in ProfileIds, Linked(File("profile", id)),
             Content(File("profile", id)).kind = "profile"
      PROVE  Valid(Content(File("profile", id)).profile, registry)
    <2>1. files[File("profile", id)] \in Inodes
        BY <1>1, PathsDiffer DEF SInv, Shape, Linked
    <2>2. QED
        BY <1>1, <2>1 DEF VInv, Content
<1>2. SInv /\ VInv => ProfilesResolve
    BY <1>1 DEF ProfilesResolve, Valid, Everything
<1>3. QED
    BY <1>2, SInvHolds, VInvHolds, PTL
=============================================================================
