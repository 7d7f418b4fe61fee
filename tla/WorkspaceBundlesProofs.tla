----------------------- MODULE WorkspaceBundlesProofs -----------------------
(***************************************************************************)
(* A split workspace and its bundles, for any paths, contents, callers and *)
(* jobs: the index of the session names what the directory holds           *)
(* (IndexHolds), a bundle that was made holds what its index says          *)
(* (BundlesHold), jobs that failed leave nothing (NothingIsLeft), and a    *)
(* destination is whole or empty (DestinationsHoldWhole).                  *)
(*                                                                         *)
(* IndexNamesResources speaks of paths without a call in flight.  Inductive*)
(* is what it says of calls under way: a call that shares its path with no *)
(* other leaves the entry and the resource alone until the store has       *)
(* changed the resource, and then the path is unsaved and no save covers   *)
(* it.  The two indexes that outlive the session, that of intent.pip and   *)
(* that of a save, obey the same law outside what is unsaved.              *)
(***************************************************************************)
EXTENDS WorkspaceBundles, NaturalsInduction, WellFoundedInduction, TLAPS

States == Contents \cup {Missing, Hollow}
Flying(c, p) == call[c].pc # "resting" /\ call[c].path = p

CallRecords ==
    [pc : {"store", "created", "resume"}, op : {"write", "remove"},
     path : Paths, content : Contents \cup {Missing}, alone : BOOLEAN]

TypeInv ==
    /\ resources \in [Paths -> States]
    /\ intent \in Indexes
    /\ session \in [open : BOOLEAN, index : Indexes, dirty : BOOLEAN]
    /\ save \in [pc : {"idle", "write", "mark"}, index : Indexes, covers : SUBSET Paths]
    /\ call \in [Callers -> CallRecords \cup {Resting}]
    /\ loose \subseteq Paths /\ unsaved \subseteq Paths

(* Calls that share a path know it, and loose does.                        *)
Sharing ==
    /\ \A c, d \in Callers : \A p \in Paths :
          c # d /\ Flying(c, p) /\ Flying(d, p) => ~call[c].alone
    /\ \A c \in Callers : call[c].pc # "resting" /\ ~call[c].alone => call[c].path \in loose

(* What a call wrote or removed is unsaved, and no save covers its path.   *)
Pending ==
    /\ \A c \in Callers : call[c].pc # "resting" =>
          /\ call[c].op = "write" => call[c].content \in Contents
          /\ call[c].op = "remove" => call[c].content = Missing
          /\ call[c].pc = "created" => call[c].op = "write"
          /\ save.pc # "idle" => call[c].path \notin save.covers
    /\ \A c \in Callers : call[c].pc = "resume" =>
          /\ call[c].path \in unsaved
          /\ call[c].alone => resources[call[c].path] = call[c].content

(* The entries of the three indexes that name what is in the directory.    *)
SessionFits ==
    session.open => \A p \in DOMAIN session.index \ loose :
        (\A c \in Callers : Flying(c, p) => call[c].pc # "resume")
            => resources[p] = session.index[p]

IntentFits ==
    \A p \in DOMAIN intent \ (loose \cup unsaved) : resources[p] = intent[p]

SaveFits ==
    save.pc = "write" => \A p \in DOMAIN save.index \ loose :
        p \in save.covers \/ p \notin unsaved => resources[p] = save.index[p]

AtRest ==
    ~session.open => save.pc = "idle" /\ \A c \in Callers : call[c].pc = "resting"

WInv == TypeInv /\ Sharing /\ Pending /\ SessionFits /\ IntentFits /\ SaveFits /\ AtRest

LEMMA ContentsExist == Missing \notin Contents /\ Hollow \notin Contents /\ Missing # Hollow
BY WorkspaceAssumption DEF Missing, Hollow

LEMMA IndexIs ==
    ASSUME NEW index \in Indexes
    PROVE  /\ DOMAIN index \subseteq Paths /\ index = [p \in DOMAIN index |-> index[p]]
           /\ \A p \in DOMAIN index : index[p] \in Contents
BY DEF Indexes

LEMMA IsIndex ==
    ASSUME NEW index, DOMAIN index \subseteq Paths, index = [p \in DOMAIN index |-> index[p]],
           \A p \in DOMAIN index : index[p] \in Contents
    PROVE  index \in Indexes
<1>1. index \in [DOMAIN index -> Contents]
    OBVIOUS
<1>2. QED
    BY <1>1 DEF Indexes

LEMMA EmptyIndex == << >> \in Indexes
<1>1. << >> \in [{} -> Contents]
    OBVIOUS
<1>2. QED
    BY <1>1 DEF Indexes

(* Indexes with an entry more or less.                                     *)
LEMMA EntryAdded ==
    ASSUME NEW index \in Indexes, NEW p \in Paths, NEW content \in Contents
    PROVE  /\ With(index, p, content) \in Indexes
           /\ DOMAIN With(index, p, content) = DOMAIN index \cup {p}
           /\ With(index, p, content)[p] = content
           /\ \A q \in DOMAIN index \ {p} : With(index, p, content)[q] = index[q]
<1>1. /\ DOMAIN With(index, p, content) = DOMAIN index \cup {p}
      /\ With(index, p, content)[p] = content
      /\ \A q \in DOMAIN index \ {p} : With(index, p, content)[q] = index[q]
    BY DEF With
<1>2. With(index, p, content) \in [DOMAIN index \cup {p} -> Contents]
    BY IndexIs DEF With
<1>3. DOMAIN index \cup {p} \in SUBSET Paths
    BY IndexIs
<1>4. QED
    BY <1>1, <1>2, <1>3 DEF Indexes

LEMMA EntryRemoved ==
    ASSUME NEW index \in Indexes, NEW p \in Paths
    PROVE  /\ Without(index, p) \in Indexes
           /\ DOMAIN Without(index, p) = DOMAIN index \ {p}
           /\ \A q \in DOMAIN index \ {p} : Without(index, p)[q] = index[q]
<1>1. /\ DOMAIN Without(index, p) = DOMAIN index \ {p}
      /\ \A q \in DOMAIN index \ {p} : Without(index, p)[q] = index[q]
    BY DEF Without, Restrict
<1>2. Without(index, p) \in [DOMAIN index \ {p} -> Contents]
    BY IndexIs DEF Without, Restrict
<1>3. DOMAIN index \ {p} \in SUBSET Paths
    BY IndexIs
<1>4. QED
    BY <1>1, <1>2, <1>3 DEF Indexes

-----------------------------------------------------------------------------
LEMMA CallTyped ==
    ASSUME TypeInv, NEW c \in Callers, call[c].pc # "resting"
    PROVE  call[c] \in CallRecords /\ call[c].path \in Paths
BY DEF TypeInv, Resting, CallRecords

(* A call begins: those that share its path learn of it, and no save covers*)
(* the path any more.                                                      *)
LEMMA CallBegins ==
    ASSUME WInv, NEW c \in Callers, NEW op \in {"write", "remove"}, NEW p \in Paths,
           NEW content \in Contents \cup {Missing},
           op = "write" => content \in Contents, op = "remove" => content = Missing,
           Calls(c, op, p, content)
    PROVE  WInv'
<1> DEFINE new == [pc |-> "store", op |-> op, path |-> p, content |-> content, alone |-> ~InFlight(p)]
<1>1. /\ call'[c] = new /\ call[c].pc = "resting" /\ session.open
      /\ \A d \in Callers \ {c} :
            call'[d] = IF Flying(d, p) THEN [call[d] EXCEPT !.alone = FALSE] ELSE call[d]
      /\ call' = [d \in Callers |-> call'[d]]
    BY DEF Calls, Flying
<1>2. new \in CallRecords /\ new.pc = "store" /\ new.path = p /\ new.op = op
      /\ new.content = content /\ (new.alone <=> ~InFlight(p))
    BY DEF CallRecords
<1> HIDE DEF new
<1>3. ASSUME NEW d \in Callers \ {c}
      PROVE  /\ call'[d] \in CallRecords \cup {Resting}
             /\ call'[d].pc = call[d].pc
             /\ call[d].pc # "resting" =>
                   /\ call'[d].path = call[d].path /\ call'[d].op = call[d].op
                   /\ call'[d].content = call[d].content
             /\ call[d].pc # "resting" /\ call[d].path = p => ~call'[d].alone
             /\ call[d].pc # "resting" /\ call[d].path # p => call'[d].alone = call[d].alone
    <2>1. CASE Flying(d, p)
        <3>1. call[d] \in CallRecords /\ call'[d] = [call[d] EXCEPT !.alone = FALSE]
            BY <1>1, <2>1, CallTyped DEF Flying, WInv
        <3>2. QED
            BY <2>1, <3>1 DEF CallRecords, Flying
    <2>2. CASE ~Flying(d, p)
        BY <1>1, <2>2 DEF Flying, WInv, TypeInv
    <2>3. QED
        BY <2>1, <2>2
<1>4. /\ UNCHANGED <<resources, intent, session, unsaved>>
      /\ loose' = (IF InFlight(p) THEN loose \cup {p} ELSE loose)
      /\ save' = [save EXCEPT !.covers = @ \ {p}]
    BY DEF Calls, directory
<1>5. /\ save' \in [pc : {"idle", "write", "mark"}, index : Indexes, covers : SUBSET Paths]
      /\ save'.pc = save.pc /\ save'.index = save.index /\ save'.covers = save.covers \ {p}
    BY <1>4 DEF WInv, TypeInv
<1>6. TypeInv'
    BY <1>1, <1>2, <1>3, <1>4, <1>5 DEF WInv, TypeInv
<1>7. InFlight(p) <=> \E d \in Callers \ {c} : Flying(d, p)
    BY <1>1 DEF InFlight, Flying
<1>8. Sharing'
    <2>1. ASSUME NEW d \in Callers, NEW e \in Callers, NEW q \in Paths,
                 d # e, Flying(d, q)', Flying(e, q)'
          PROVE  ~call'[d].alone
        <3>1. CASE d = c
            BY <1>1, <1>2, <1>3, <1>7, <2>1, <3>1 DEF Flying
        <3>2. CASE d # c /\ q = p
            BY <1>3, <2>1, <3>2 DEF Flying
        <3>3. CASE d # c /\ q # p
            BY <1>1, <1>2, <1>3, <2>1, <3>3 DEF Flying, WInv, Sharing
        <3>4. QED
            BY <3>1, <3>2, <3>3
    <2>2. ASSUME NEW d \in Callers, call'[d].pc # "resting", ~call'[d].alone
          PROVE  call'[d].path \in loose'
        <3>1. CASE d = c
            BY <1>1, <1>2, <1>4, <2>2, <3>1
        <3>2. CASE d # c /\ call[d].path = p
            BY <1>3, <1>4, <1>7, <2>2, <3>2 DEF Flying
        <3>3. CASE d # c /\ call[d].path # p
            BY <1>3, <1>4, <2>2, <3>3 DEF WInv, Sharing
        <3>4. QED
            BY <3>1, <3>2, <3>3
    <2>3. QED
        BY <2>1, <2>2 DEF Sharing
<1>9. Pending'
    <2>1. ASSUME NEW d \in Callers, call'[d].pc # "resting"
          PROVE  /\ call'[d].op = "write" => call'[d].content \in Contents
                 /\ call'[d].op = "remove" => call'[d].content = Missing
                 /\ call'[d].pc = "created" => call'[d].op = "write"
                 /\ save'.pc # "idle" => call'[d].path \notin save'.covers
        <3>1. CASE d = c
            BY <1>1, <1>2, <1>5, <3>1
        <3>2. CASE d # c
            BY <1>3, <1>5, <2>1, <3>2 DEF WInv, Pending
        <3>3. QED
            BY <3>1, <3>2
    <2>2. ASSUME NEW d \in Callers, call'[d].pc = "resume"
          PROVE  /\ call'[d].path \in unsaved'
                 /\ call'[d].alone => resources'[call'[d].path] = call'[d].content
        <3>1. d # c
            BY <1>1, <1>2, <2>2
        <3>2. QED
            BY <1>3, <1>4, <2>2, <3>1 DEF WInv, Pending
    <2>3. QED
        BY <2>1, <2>2 DEF Pending
<1>10. SessionFits'
    <2>1. ASSUME NEW q \in Paths, \A d \in Callers : Flying(d, q)' => call'[d].pc # "resume"
          PROVE  \A d \in Callers : Flying(d, q) => call[d].pc # "resume"
        BY <1>1, <1>3, <2>1 DEF Flying
    <2>2. DOMAIN session.index \subseteq Paths /\ loose \subseteq loose'
        BY <1>4, IndexIs DEF WInv, TypeInv
    <2>3. QED
        BY <1>4, <2>1, <2>2 DEF WInv, SessionFits
<1>11. IntentFits' /\ SaveFits'
    BY <1>4, <1>5 DEF WInv, IntentFits, SaveFits
<1>12. AtRest'
    BY <1>1, <1>4 DEF AtRest
<1>13. QED
    BY <1>6, <1>8, <1>9, <1>10, <1>11, <1>12 DEF WInv

(* The store changes the resource.                                         *)
LEMMA StoreChanges ==
    ASSUME WInv, NEW c \in Callers, call[c].pc \in {"store", "created"},
           Stores(c, call[c].content)
    PROVE  WInv'
<1> DEFINE p == call[c].path
<1>1. call[c] \in CallRecords /\ p \in Paths /\ call[c].pc # "resting"
    BY CallTyped DEF WInv
<1>2. /\ resources' = [resources EXCEPT ![p] = call[c].content]
      /\ unsaved' = unsaved \cup {p}
      /\ call' = [call EXCEPT ![c].pc = "resume"]
      /\ UNCHANGED <<intent, session, save, loose>>
    BY DEF Stores
<1>3. /\ call'[c] = [call[c] EXCEPT !.pc = "resume"] /\ \A d \in Callers \ {c} : call'[d] = call[d]
      /\ call' = [d \in Callers |-> call'[d]]
    BY <1>2 DEF WInv, TypeInv
<1>4. /\ call'[c] \in CallRecords /\ call'[c].pc = "resume" /\ call'[c].path = p
      /\ call'[c].content = call[c].content /\ call'[c].op = call[c].op
      /\ call'[c].alone = call[c].alone
    BY <1>1, <1>3 DEF CallRecords
<1>5. call[c].content \in States
    BY <1>1 DEF CallRecords, States
<1>6. /\ resources' \in [Paths -> States] /\ resources'[p] = call[c].content
      /\ \A q \in Paths \ {p} : resources'[q] = resources[q]
    BY <1>1, <1>2, <1>5 DEF WInv, TypeInv
<1>7. save.pc # "idle" => p \notin save.covers
    BY <1>1 DEF WInv, Pending
<1> HIDE DEF p
<1>8. TypeInv'
    BY <1>1, <1>2, <1>3, <1>4, <1>6 DEF WInv, TypeInv
<1>9. Sharing'
    <2>1. \A d \in Callers, q \in Paths : Flying(d, q)' => Flying(d, q) /\ call'[d].alone = call[d].alone
        BY <1>1, <1>3, <1>4 DEF Flying, p
    <2>2. \A d \in Callers : call'[d].pc # "resting" /\ ~call'[d].alone =>
              call[d].pc # "resting" /\ ~call[d].alone /\ call'[d].path = call[d].path
        BY <1>1, <1>3, <1>4 DEF p
    <2>3. QED
        BY <1>2, <2>1, <2>2 DEF WInv, Sharing
<1>10. Pending'
    <2>1. ASSUME NEW d \in Callers, call'[d].pc # "resting"
          PROVE  /\ call'[d].op = "write" => call'[d].content \in Contents
                 /\ call'[d].op = "remove" => call'[d].content = Missing
                 /\ call'[d].pc = "created" => call'[d].op = "write"
                 /\ save'.pc # "idle" => call'[d].path \notin save'.covers
        <3>1. CASE d = c
            BY <1>1, <1>2, <1>4, <1>7, <3>1 DEF WInv, Pending
        <3>2. CASE d # c
            BY <1>2, <1>3, <2>1, <3>2 DEF WInv, Pending
        <3>3. QED
            BY <3>1, <3>2
    <2>2. ASSUME NEW d \in Callers, call'[d].pc = "resume"
          PROVE  /\ call'[d].path \in unsaved'
                 /\ call'[d].alone => resources'[call'[d].path] = call'[d].content
        <3>1. CASE d = c
            BY <1>2, <1>4, <1>6, <3>1
        <3>2. CASE d # c
            <4>1. call[d].pc = "resume" /\ call'[d] = call[d] /\ call[d].path \in Paths
                BY <1>3, <2>2, <3>2, CallTyped DEF WInv
            <4>2. call[d].alone => call[d].path # p
                BY <1>1, <3>2, <4>1 DEF WInv, Sharing, Flying, p
            <4>3. QED
                BY <1>2, <1>6, <4>1, <4>2 DEF WInv, Pending
        <3>3. QED
            BY <3>1, <3>2
    <2>3. QED
        BY <2>1, <2>2 DEF Pending
<1>11. SessionFits'
    <2>1. SUFFICES ASSUME session.open, NEW q \in DOMAIN session.index \ loose,
                          \A d \in Callers : Flying(d, q)' => call'[d].pc # "resume"
                   PROVE  resources'[q] = session.index[q]
        BY <1>2 DEF SessionFits
    <2>2. q # p
        BY <1>4, <2>1 DEF Flying
    <2>3. \A d \in Callers : Flying(d, q) => call[d].pc # "resume"
        BY <1>1, <1>3, <2>1, <2>2 DEF Flying, p
    <2>4. q \in Paths
        BY IndexIs DEF WInv, TypeInv
    <2>5. QED
        BY <1>6, <2>1, <2>2, <2>3, <2>4 DEF WInv, SessionFits
<1>12. IntentFits'
    <2>1. DOMAIN intent \subseteq Paths
        BY IndexIs DEF WInv, TypeInv
    <2>2. QED
        BY <1>2, <1>6, <2>1 DEF WInv, IntentFits
<1>13. SaveFits'
    <2>1. DOMAIN save.index \subseteq Paths
        BY IndexIs DEF WInv, TypeInv
    <2>2. QED
        BY <1>2, <1>6, <1>7, <2>1 DEF WInv, SaveFits
<1>14. AtRest'
    BY <1>1, <1>2, <1>3 DEF WInv, AtRest, p
<1>15. QED
    BY <1>8, <1>9, <1>10, <1>11, <1>12, <1>13, <1>14 DEF WInv

(* A store that fails, or has nothing to remove, leaves everything alone.  *)
LEMMA CallReturns ==
    ASSUME WInv, NEW c \in Callers, call[c].pc \notin {"resting", "resume"}, Returns(c),
           UNCHANGED <<resources, intent, session, save, loose, unsaved>>
    PROVE  WInv'
<1>1. /\ call'[c] = Resting /\ call'[c].pc = "resting"
      /\ \A d \in Callers \ {c} : call'[d] = call[d]
      /\ call' = [d \in Callers |-> call'[d]]
    BY DEF Returns, Resting, WInv, TypeInv
<1>2. TypeInv'
    <2>1. \A d \in Callers : call'[d] \in CallRecords \cup {Resting}
        BY <1>1 DEF WInv, TypeInv
    <2>2. call' \in [Callers -> CallRecords \cup {Resting}]
        BY <1>1, <2>1
    <2>3. QED
        BY <2>2 DEF WInv, TypeInv
<1>3. Sharing' /\ Pending'
    BY <1>1 DEF WInv, Sharing, Pending, Flying
<1>4. SessionFits'
    <2>1. ASSUME NEW q, \A d \in Callers : Flying(d, q)' => call'[d].pc # "resume"
          PROVE  \A d \in Callers : Flying(d, q) => call[d].pc # "resume"
        BY <1>1, <2>1 DEF Flying
    <2>2. QED
        BY <2>1 DEF WInv, SessionFits
<1>5. IntentFits' /\ SaveFits' /\ AtRest'
    BY <1>1 DEF WInv, IntentFits, SaveFits, AtRest
<1>6. QED
    BY <1>2, <1>3, <1>4, <1>5 DEF WInv

(* The browser creates a file where there is none: no index names it.      *)
LEMMA FileIsCreated ==
    ASSUME WInv, NEW c \in Callers, BrowserCreate(c)
    PROVE  WInv'
<1> DEFINE p == call[c].path
<1>1. call[c] \in CallRecords /\ p \in Paths /\ call[c].pc = "store" /\ call[c].op = "write"
    BY CallTyped DEF BrowserCreate, InStore, WInv
<1>2. /\ resources' = [resources EXCEPT ![p] = IF @ = Missing THEN Hollow ELSE @]
      /\ call' = [call EXCEPT ![c].pc = "created"]
      /\ UNCHANGED <<intent, session, save, loose, unsaved>>
    BY DEF BrowserCreate, history
<1>3. /\ call'[c] = [call[c] EXCEPT !.pc = "created"] /\ \A d \in Callers \ {c} : call'[d] = call[d]
      /\ call' = [d \in Callers |-> call'[d]]
    BY <1>2 DEF WInv, TypeInv
<1>4. /\ call'[c] \in CallRecords /\ call'[c].pc = "created" /\ call'[c].path = p
      /\ call'[c].content = call[c].content /\ call'[c].op = call[c].op
      /\ call'[c].alone = call[c].alone
    BY <1>1, <1>3 DEF CallRecords
<1>5. /\ resources' \in [Paths -> States]
      /\ \A q \in Paths \ {p} : resources'[q] = resources[q]
      /\ resources[p] \in Contents => resources'[p] = resources[p]
    BY <1>1, <1>2, ContentsExist DEF WInv, TypeInv, States
<1>6. \A d \in Callers, q \in Paths : Flying(d, q)' <=> Flying(d, q)
    BY <1>1, <1>3, <1>4 DEF Flying, p
<1> HIDE DEF p
<1>7. TypeInv'
    BY <1>2, <1>3, <1>4, <1>5 DEF WInv, TypeInv
<1>8. Sharing'
    <2>1. \A d \in Callers : call'[d].alone = call[d].alone /\ call'[d].path = call[d].path
              /\ (call'[d].pc # "resting" => call[d].pc # "resting")
        BY <1>1, <1>3, <1>4 DEF p
    <2>2. QED
        BY <1>2, <1>6, <2>1 DEF WInv, Sharing
<1>9. Pending'
    <2>1. ASSUME NEW d \in Callers, call'[d].pc # "resting"
          PROVE  /\ call'[d].op = "write" => call'[d].content \in Contents
                 /\ call'[d].op = "remove" => call'[d].content = Missing
                 /\ call'[d].pc = "created" => call'[d].op = "write"
                 /\ save'.pc # "idle" => call'[d].path \notin save'.covers
        <3>1. CASE d = c
            BY <1>1, <1>2, <1>4, <3>1 DEF WInv, Pending, p
        <3>2. CASE d # c
            BY <1>2, <1>3, <2>1, <3>2 DEF WInv, Pending
        <3>3. QED
            BY <3>1, <3>2
    <2>2. ASSUME NEW d \in Callers, call'[d].pc = "resume"
          PROVE  /\ call'[d].path \in unsaved'
                 /\ call'[d].alone => resources'[call'[d].path] = call'[d].content
        <3>1. d # c /\ call[d].pc = "resume" /\ call'[d] = call[d] /\ call[d].path \in Paths
            BY <1>3, <1>4, <2>2, CallTyped DEF WInv
        <3>2. call[d].alone => call[d].path # p
            BY <1>1, <3>1 DEF WInv, Sharing, Flying, p
        <3>3. QED
            BY <1>2, <1>5, <3>1, <3>2 DEF WInv, Pending
    <2>3. QED
        BY <2>1, <2>2 DEF Pending
<1>10. ASSUME NEW index \in Indexes, NEW q \in DOMAIN index, resources[q] = index[q]
       PROVE  resources'[q] = index[q]
    BY <1>5, <1>10, IndexIs
<1>11. SessionFits'
    <2>1. ASSUME NEW q \in Paths, \A d \in Callers : Flying(d, q)' => call'[d].pc # "resume"
          PROVE  \A d \in Callers : Flying(d, q) => call[d].pc # "resume"
        BY <1>1, <1>3, <1>6, <2>1
    <2>2. DOMAIN session.index \subseteq Paths /\ session.index \in Indexes
        BY IndexIs DEF WInv, TypeInv
    <2>3. QED
        BY <1>2, <1>10, <2>1, <2>2 DEF WInv, SessionFits
<1>12. IntentFits' /\ SaveFits'
    BY <1>2, <1>10 DEF WInv, TypeInv, IntentFits, SaveFits
<1>13. AtRest'
    BY <1>1, <1>2, <1>3 DEF WInv, AtRest
<1>14. QED
    BY <1>7, <1>8, <1>9, <1>11, <1>12, <1>13 DEF WInv

(* Behind its await a call takes what it wrote into the index, or what it  *)
(* removed out of it.  A path that no other call shares is not loose then. *)
LEMMA CallResumes ==
    ASSUME WInv, NEW c \in Callers, Resume(c)
    PROVE  WInv'
<1> DEFINE p == call[c].path
           index == IF call[c].op = "write" THEN With(session.index, p, call[c].content)
                    ELSE Without(session.index, p)
<1>1. call[c] \in CallRecords /\ p \in Paths /\ call[c].pc = "resume"
    BY CallTyped DEF Resume, WInv
<1>2. /\ session' = [session EXCEPT !.index = index, !.dirty = TRUE]
      /\ loose' = (IF call[c].alone THEN loose \ {p} ELSE loose)
      /\ UNCHANGED <<resources, intent, save, unsaved>>
    BY DEF Resume, directory
<1>3. /\ call'[c] = Resting /\ call'[c].pc = "resting"
      /\ \A d \in Callers \ {c} : call'[d] = call[d]
      /\ call' = [d \in Callers |-> call'[d]]
    BY DEF Resume, Returns, Resting, WInv, TypeInv
<1>4. session.index \in Indexes
    BY DEF WInv, TypeInv
<1>5. /\ index \in Indexes
      /\ \A q \in DOMAIN index \ {p} : q \in DOMAIN session.index /\ index[q] = session.index[q]
      /\ p \in DOMAIN index => index[p] = call[c].content
    <2>1. CASE call[c].op = "write"
        <3>1. call[c].content \in Contents
            BY <1>1, <2>1 DEF WInv, Pending
        <3>2. index = With(session.index, p, call[c].content)
            BY <2>1
        <3> HIDE DEF index, p
        <3>3. /\ With(session.index, p, call[c].content) \in Indexes
              /\ DOMAIN With(session.index, p, call[c].content) = DOMAIN session.index \cup {p}
              /\ With(session.index, p, call[c].content)[p] = call[c].content
              /\ \A q \in DOMAIN session.index \ {p} :
                     With(session.index, p, call[c].content)[q] = session.index[q]
            BY <1>1, <1>4, <3>1, EntryAdded
        <3>4. QED
            BY <3>2, <3>3
    <2>2. CASE call[c].op # "write"
        <3>1. index = Without(session.index, p)
            BY <2>2
        <3> HIDE DEF index, p
        <3>2. QED
            BY <1>1, <1>4, <3>1, EntryRemoved
    <2>3. QED
        BY <2>1, <2>2
<1>6. p \in unsaved /\ (call[c].alone => resources[p] = call[c].content)
      /\ (save.pc # "idle" => p \notin save.covers) /\ (~call[c].alone => p \in loose)
    BY <1>1 DEF WInv, Pending, Sharing
<1> HIDE DEF index
<1>7. TypeInv'
    <2>1. session' \in [open : BOOLEAN, index : Indexes, dirty : BOOLEAN]
        BY <1>2, <1>5 DEF WInv, TypeInv
    <2>2. \A d \in Callers : call'[d] \in CallRecords \cup {Resting}
        BY <1>3 DEF WInv, TypeInv
    <2>3. call' \in [Callers -> CallRecords \cup {Resting}]
        BY <1>3, <2>2
    <2>4. QED
        BY <1>2, <2>1, <2>3 DEF WInv, TypeInv
<1>8. session'.index = index /\ session'.open = session.open
    BY <1>2 DEF WInv, TypeInv
<1>9. \A d \in Callers \ {c} : call[c].alone => ~Flying(d, p)
    BY <1>1 DEF WInv, Sharing, Flying
<1>10. Sharing'
    <2>1. ASSUME NEW d \in Callers, call'[d].pc # "resting", ~call'[d].alone
          PROVE  call'[d].path \in loose'
        <3>1. d # c /\ call'[d] = call[d] /\ call[d].path \in loose
            BY <1>3, <2>1 DEF WInv, Sharing
        <3>2. call[c].alone => call[d].path # p
            BY <1>9, <2>1, <3>1 DEF Flying
        <3>3. QED
            BY <1>2, <3>1, <3>2
    <2>2. QED
        BY <1>3, <2>1 DEF WInv, Sharing, Flying
<1>11. Pending'
    BY <1>2, <1>3 DEF WInv, Pending
<1>12. SessionFits'
    <2>1. SUFFICES ASSUME session.open, NEW q \in DOMAIN index \ loose',
                          \A d \in Callers : Flying(d, q)' => call'[d].pc # "resume"
                   PROVE  resources[q] = index[q]
        BY <1>2, <1>8 DEF SessionFits
    <2>2. CASE q = p
        BY <1>2, <1>5, <1>6, <2>1, <2>2
    <2>3. CASE q # p
        <3>1. \A d \in Callers : Flying(d, q) => call[d].pc # "resume"
            BY <1>3, <2>1, <2>3 DEF Flying
        <3>2. QED
            BY <1>2, <1>5, <2>1, <2>3, <3>1 DEF WInv, SessionFits
    <2>4. QED
        BY <2>2, <2>3
<1>13. IntentFits' /\ SaveFits'
    BY <1>2, <1>6 DEF WInv, IntentFits, SaveFits
<1>14. AtRest'
    BY <1>1, <1>2, <1>8 DEF WInv, AtRest
<1>15. QED
    BY <1>7, <1>10, <1>11, <1>12, <1>13, <1>14 DEF WInv

-----------------------------------------------------------------------------
(* The saves, a crash and the start after it.                              *)
LEMMA IndexIsCaptured ==
    ASSUME WInv, CaptureIndex
    PROVE  WInv'
<1>1. /\ session.open
      /\ save' = [pc |-> "write", index |-> session.index, covers |-> {p \in Paths : ~InFlight(p)}]
      /\ UNCHANGED <<resources, intent, session, call, loose, unsaved>>
    BY DEF CaptureIndex, directory, history
<1>2. /\ save' \in [pc : {"idle", "write", "mark"}, index : Indexes, covers : SUBSET Paths]
      /\ save'.index = session.index /\ save'.covers = {p \in Paths : ~InFlight(p)}
    BY <1>1 DEF WInv, TypeInv
<1>3. TypeInv' /\ Sharing' /\ SessionFits' /\ IntentFits' /\ AtRest'
    BY <1>1, <1>2 DEF WInv, TypeInv, Sharing, SessionFits, IntentFits, AtRest, Flying
<1>4. Pending'
    <2>1. \A c \in Callers : call[c].pc # "resting" => call[c].path \notin save'.covers
        BY <1>2 DEF InFlight
    <2>2. QED
        BY <1>1, <2>1 DEF WInv, Pending
<1>5. SaveFits'
    <2>1. ASSUME NEW p \in DOMAIN session.index \ loose, p \in save'.covers \/ p \notin unsaved
          PROVE  resources[p] = session.index[p]
        <3>1. \A c \in Callers : Flying(c, p) => call[c].pc # "resume"
            BY <1>2, <2>1 DEF WInv, Pending, InFlight, Flying
        <3>2. QED
            BY <1>1, <2>1, <3>1 DEF WInv, SessionFits
    <2>2. QED
        BY <1>1, <1>2, <2>1 DEF SaveFits
<1>6. QED
    BY <1>3, <1>4, <1>5 DEF WInv

LEMMA NotSavingIsTyped ==
    /\ NotSaving \in [pc : {"idle", "write", "mark"}, index : Indexes, covers : SUBSET Paths]
    /\ NotSaving.pc = "idle"
BY EmptyIndex DEF NotSaving

LEMMA IntentIsWritten ==
    ASSUME WInv, WriteIntent
    PROVE  WInv'
<1>1. UNCHANGED <<resources, session, call, loose>> /\ save.pc = "write"
    BY DEF WriteIntent
<1>2. CASE /\ intent' = save.index /\ unsaved' = unsaved \ save.covers
           /\ save' = [save EXCEPT !.pc = "mark"]
    <2>1. /\ save' \in [pc : {"idle", "write", "mark"}, index : Indexes, covers : SUBSET Paths]
          /\ save'.pc = "mark" /\ save'.covers = save.covers /\ save.index \in Indexes
        BY <1>2 DEF WInv, TypeInv
    <2>2. TypeInv' /\ Sharing' /\ SessionFits' /\ SaveFits' /\ AtRest'
        BY <1>1, <1>2, <2>1 DEF WInv, TypeInv, Sharing, SessionFits, SaveFits, AtRest, Flying
    <2>3. Pending'
        BY <1>1, <1>2, <2>1 DEF WInv, Pending
    <2>4. IntentFits'
        BY <1>1, <1>2 DEF WInv, SaveFits, IntentFits
    <2>5. QED
        BY <2>2, <2>3, <2>4 DEF WInv
<1>3. CASE save' = NotSaving /\ UNCHANGED <<intent, unsaved>>
    BY <1>1, <1>3, NotSavingIsTyped
       DEF WInv, TypeInv, Sharing, Pending, SessionFits, IntentFits, SaveFits, AtRest, Flying
<1>4. QED
    BY <1>2, <1>3 DEF WriteIntent

LEMMA SaveIsMarked ==
    ASSUME WInv, MarkSaved
    PROVE  WInv'
<1>1. /\ session' = [session EXCEPT !.dirty = FALSE] /\ save' = NotSaving
      /\ UNCHANGED <<resources, intent, call, loose, unsaved>>
    BY DEF MarkSaved, directory, history
<1>2. /\ session' \in [open : BOOLEAN, index : Indexes, dirty : BOOLEAN]
      /\ session'.index = session.index /\ session'.open = session.open
    BY <1>1 DEF WInv, TypeInv
<1>3. QED
    BY <1>1, <1>2, NotSavingIsTyped
       DEF WInv, TypeInv, Sharing, Pending, SessionFits, IntentFits, SaveFits, AtRest, Flying

LEMMA SessionCrashes ==
    ASSUME WInv, Crash
    PROVE  WInv'
<1>1. /\ session' = Closed /\ call' = [c \in Callers |-> Resting] /\ save' = NotSaving
      /\ UNCHANGED <<resources, intent, loose, unsaved>>
    BY DEF Crash, directory, history
<1>2. Closed \in [open : BOOLEAN, index : Indexes, dirty : BOOLEAN] /\ ~Closed.open
    BY EmptyIndex DEF Closed
<1>3. TypeInv'
    BY <1>1, <1>2, NotSavingIsTyped DEF WInv, TypeInv
<1>4. \A c \in Callers : call'[c].pc = "resting"
    BY <1>1 DEF Resting
<1>5. Sharing' /\ Pending' /\ SessionFits' /\ IntentFits' /\ SaveFits' /\ AtRest'
    BY <1>1, <1>2, <1>4, NotSavingIsTyped
       DEF WInv, Sharing, Pending, SessionFits, IntentFits, SaveFits, AtRest, Flying
<1>6. QED
    BY <1>3, <1>5 DEF WInv

LEMMA SessionReopens ==
    ASSUME WInv, Reopen
    PROVE  WInv'
<1>1. /\ ~session.open /\ session' = Opened(intent) /\ loose' = loose \cup unsaved
      /\ UNCHANGED <<resources, intent, call, save, unsaved>>
    BY DEF Reopen, directory
<1>2. /\ Opened(intent) \in [open : BOOLEAN, index : Indexes, dirty : BOOLEAN]
      /\ Opened(intent).index = intent /\ Opened(intent).open
    BY DEF Opened, WInv, TypeInv
<1>3. (\A c \in Callers : call[c].pc = "resting") /\ save.pc = "idle"
    BY <1>1 DEF WInv, AtRest
<1>4. TypeInv'
    BY <1>1, <1>2 DEF WInv, TypeInv
<1>5. Sharing' /\ Pending' /\ SessionFits' /\ IntentFits' /\ SaveFits' /\ AtRest'
    BY <1>1, <1>2, <1>3
       DEF WInv, Sharing, Pending, SessionFits, IntentFits, SaveFits, AtRest, Flying
<1>6. QED
    BY <1>4, <1>5 DEF WInv

(* Nothing a job does reaches the session.                                 *)
LEMMA SessionStutters ==
    ASSUME WInv, UNCHANGED <<resources, intent, session, call, save, loose, unsaved>>
    PROVE  WInv'
BY DEF WInv, TypeInv, Sharing, Pending, SessionFits, IntentFits, SaveFits, AtRest, Flying

LEMMA SessionSteps ==
    ASSUME WInv, WorkspaceStep \/ Crash
    PROVE  WInv'
<1>1. ASSUME NEW c \in Callers, Write(c)
      PROVE  WInv'
    BY <1>1, CallBegins DEF Write
<1>2. ASSUME NEW c \in Callers, Remove(c)
      PROVE  WInv'
    <2>1. DOMAIN session.index \subseteq Paths
        BY IndexIs DEF WInv, TypeInv
    <2>2. PICK p \in Paths : Calls(c, "remove", p, Missing)
        BY <1>2, <2>1 DEF Remove
    <2>3. QED
        BY <2>2, CallBegins
<1>3. ASSUME NEW c \in Callers, NodeWrite(c) \/ BrowserClose(c)
      PROVE  WInv'
    <2>1. call[c].pc \in {"store", "created"}
        BY <1>3 DEF NodeWrite, BrowserClose, InStore
    <2>2. CASE StoreFails(c)
        BY <2>1, <2>2, CallReturns DEF StoreFails, directory, history
    <2>3. CASE Stores(c, call[c].content)
        BY <2>1, <2>3, StoreChanges
    <2>4. QED
        BY <1>3, <2>2, <2>3 DEF NodeWrite, BrowserClose
<1>4. ASSUME NEW c \in Callers, StoreRemove(c)
      PROVE  WInv'
    <2>1. call[c].pc = "store" /\ call[c].op = "remove" /\ call[c].content = Missing
        BY <1>4 DEF StoreRemove, WInv, Pending
    <2>2. CASE Stores(c, Missing)
        BY <2>1, <2>2, StoreChanges
    <2>3. CASE Returns(c) /\ UNCHANGED <<host, directory, session, save, history, calls, faults, crashes>>
        BY <2>1, <2>3, CallReturns DEF directory, history
    <2>4. QED
        BY <1>4, <2>2, <2>3 DEF StoreRemove
<1>5. QED
    BY <1>1, <1>2, <1>3, <1>4, FileIsCreated, CallResumes, IndexIsCaptured, IntentIsWritten,
       SaveIsMarked, SessionCrashes, SessionReopens DEF WorkspaceStep

LEMMA JobsStayOutside ==
    ASSUME NEW j \in Jobs, JobStep(j)
    PROVE  UNCHANGED <<host, resources, intent, session, call, save, loose, unsaved, crashes>>
<1>1. UNCHANGED <<Outside, crashes>>
    BY DEF JobStep, NodeBundle, BrowserBundle, MemoryBundle, NodeOpenRead, BrowserOpenRead, Opens,
       NodeStream, BrowserStream, Streams, CloseBundle, MoveBundle, BrowserCommit, LookUp, Read,
       ReturnBundle, NodeUnbundle, BrowserUnbundle, MakeResources, NodeExtract, BrowserExtract,
       NodeVerify, BrowserVerify, MoveWorkspace, FillIntent, IoFails, Steady
<1>2. QED
    BY <1>1 DEF Outside, directory, history

LEMMA SessionAtInit ==
    ASSUME WorkspaceInit
    PROVE  WInv
<1>1. PICK index \in InitialIndexes :
          /\ resources = [p \in Paths |-> IF p \in DOMAIN index THEN index[p] ELSE Missing]
          /\ intent = index /\ session = Opened(index)
          /\ call = [c \in Callers |-> Resting] /\ save = NotSaving
          /\ loose = {} /\ unsaved = {}
    BY DEF WorkspaceInit
<1>2. index \in Indexes /\ DOMAIN index \subseteq Paths
    BY WorkspaceAssumption, IndexIs
<1>3. resources \in [Paths -> States]
    BY <1>1, <1>2, IndexIs DEF States
<1>4. /\ session \in [open : BOOLEAN, index : Indexes, dirty : BOOLEAN]
      /\ session.index = index /\ session.open
    BY <1>1, <1>2 DEF Opened
<1>5. \A c \in Callers : call[c].pc = "resting"
    BY <1>1 DEF Resting
<1>6. TypeInv
    BY <1>1, <1>2, <1>3, <1>4, NotSavingIsTyped DEF TypeInv
<1>7. \A p \in DOMAIN index : resources[p] = index[p]
    BY <1>1, <1>2
<1>8. Sharing /\ Pending /\ SessionFits /\ IntentFits /\ SaveFits /\ AtRest
    BY <1>1, <1>4, <1>5, <1>7, NotSavingIsTyped
       DEF Sharing, Pending, SessionFits, IntentFits, SaveFits, AtRest, Flying
<1>9. QED
    BY <1>6, <1>8 DEF WInv

LEMMA SessionHolds == Spec => []WInv
<1>1. BundlesInit => WInv
    BY SessionAtInit DEF BundlesInit
<1>2. WInv /\ [Next]_vars => WInv'
    <2>1. SUFFICES ASSUME WInv, [Next]_vars
                   PROVE  WInv'
        OBVIOUS
    <2>2. CASE SessionStep \/ Stop
        BY <2>1, <2>2, SessionSteps DEF SessionStep, Stop
    <2>3. CASE \E j \in Jobs : JobStep(j)
        BY <2>1, <2>3, JobsStayOutside, SessionStutters
    <2>4. CASE UNCHANGED vars
        BY <2>1, <2>4, SessionStutters DEF vars, workspace, directory, history
    <2>5. QED
        BY <2>1, <2>2, <2>3, <2>4 DEF Next
<1>3. QED
    BY <1>1, <1>2, PTL DEF Spec

(* The index of the session names what the directory holds, for any        *)
(* overlap of calls, saves, failures, crashes and jobs.                    *)
THEOREM IndexHolds == Spec => []IndexNamesResources
<1>1. WInv => IndexNamesResources
    <2>1. SUFFICES ASSUME WInv, session.open, NEW p \in DOMAIN session.index \ loose, ~InFlight(p)
                   PROVE  Fits(resources[p], session.index[p])
        BY DEF IndexNamesResources
    <2>2. resources[p] = session.index[p]
        BY <2>1 DEF WInv, SessionFits, InFlight, Flying
    <2>3. QED
        BY <2>2 DEF Fits, LengthFits
<1>2. QED
    BY <1>1, SessionHolds, PTL

-----------------------------------------------------------------------------
(* Jobs.  What a job has done is its list but for what it has still to do: *)
(* the entries of its index, or, when it unpacks, the resources of its     *)
(* source.  The bundler in memory is held to it only as long as the index  *)
(* of the session is the one it listed.                                    *)
Done(index, todo) == [p \in DOMAIN index \ todo |-> index[p]]

BundlerJobs ==
    [pc : {"next", "stream", "read", "move"}, kind : {"node", "browser", "memory"},
     index : Indexes, todo : SUBSET Paths, done : Indexes, opened : States, changed : BOOLEAN]

BundlerOk(job) ==
    /\ job \in BundlerJobs
    /\ job.todo \subseteq DOMAIN job.index
    /\ job.pc \in {"stream", "read"} => job.todo # {}
    /\ job.pc = "move" => job.todo = {}
    /\ job.pc = "read" => job.opened \in Contents
    /\ job.kind # "memory" \/ ~job.changed => job.done = Done(job.index, job.todo)
    /\ job.kind = "memory" /\ ~job.changed =>
          /\ session.index = job.index
          /\ job.pc = "read" => job.opened = job.index[Min(job.todo)]

Unbundler(job) ==
    job = [pc |-> job.pc, kind |-> job.kind, source |-> job.source, todo |-> job.todo,
           opened |-> job.opened, done |-> job.done, createdResources |-> job.createdResources,
           createdIntent |-> job.createdIntent, changed |-> job.changed]

UnbundlerOk(job) ==
    /\ Unbundler(job)
    /\ job.kind \in {"nodeUnbundle", "browserUnbundle"}
    /\ job.kind = "nodeUnbundle" => job.pc \in {"next", "move"}
    /\ job.kind = "browserUnbundle" => job.pc \in {"directory", "next", "fill"}
    /\ host = IF job.kind = "nodeUnbundle" THEN "node" ELSE "browser"
    /\ job.source.resources \in Indexes
    /\ job.todo \subseteq DOMAIN job.source.resources
    /\ job.done = Done(job.source.resources, job.todo)
    /\ job.pc \in {"move", "fill"} => job.todo = {} /\ job.source.index = job.source.resources

JobOk(job) == job = Idle \/ BundlerOk(job) \/ UnbundlerOk(job)

BundleOk == bundle.there =>
    bundle.resources \in Indexes /\ (bundle.settled => bundle.index = bundle.resources)

(* Temporaries belong to jobs of Node.                                     *)
TempsOk ==
    /\ crashes \in Nat /\ temps \subseteq Jobs
    /\ crashes = 0 => \A j \in temps : Working(j) /\ jobs[j].kind \in {"node", "nodeUnbundle"}

JInv ==
    /\ jobs = [j \in Jobs |-> jobs[j]] /\ \A j \in Jobs : JobOk(jobs[j])
    /\ BundleOk /\ TempsOk

(* Every non-empty set of paths has a first one.                           *)
LEMMA FirstPath ==
    ASSUME NEW T, T \subseteq Paths, T # {}
    PROVE  Min(T) \in T
<1> DEFINE Less == OpToRel(<, Nat)
<1>0. T \subseteq Nat
    BY WorkspaceAssumption
<1>1. PICK p \in T : \A q \in T : ~(<<q, p>> \in Less)
    BY <1>0, NatLessThanWellFounded, WFMin
<1>2. \A q \in T : ~(q < p)
    BY <1>0, <1>1 DEF OpToRel
<1>3. \A q \in T : p <= q
    BY <1>0, <1>2
<1>4. QED
    BY <1>3 DEF Min

LEMMA DoneMore ==
    ASSUME NEW index \in Indexes, NEW todo, todo \subseteq DOMAIN index, todo # {}
    PROVE  /\ Min(todo) \in todo /\ Min(todo) \in Paths /\ index[Min(todo)] \in Contents
           /\ With(Done(index, todo), Min(todo), index[Min(todo)]) = Done(index, todo \ {Min(todo)})
           /\ todo \ {Min(todo)} \subseteq DOMAIN index
<1>1. Min(todo) \in todo /\ Min(todo) \in Paths /\ index[Min(todo)] \in Contents
    BY FirstPath, IndexIs
<1>2. (DOMAIN index \ todo) \cup {Min(todo)} = DOMAIN index \ (todo \ {Min(todo)})
    BY <1>1
<1>3. QED
    BY <1>1, <1>2 DEF With, Done

LEMMA AllDone ==
    ASSUME NEW index \in Indexes
    PROVE  Done(index, {}) = index /\ Done(index, DOMAIN index) = << >>
<1>1. Done(index, {}) = index
    BY IndexIs DEF Done
<1>2. Done(index, DOMAIN index) = << >>
    BY DEF Done
<1>3. QED
    BY <1>1, <1>2

(* A job goes on, and nobody else is concerned.                            *)
LEMMA JobGoes ==
    ASSUME JInv, NEW j \in Jobs, NEW job, Goes(j, job), JobOk(job),
           UNCHANGED <<host, session, crashes>>, BundleOk',
           temps' \subseteq temps \cup {j},
           crashes = 0 /\ j \in temps' =>
               job.pc # "idle" /\ job.kind \in {"node", "nodeUnbundle"}
    PROVE  JInv'
<1>1. /\ jobs'[j] = job /\ \A k \in Jobs \ {j} : jobs'[k] = jobs[k]
      /\ jobs' = [k \in Jobs |-> jobs'[k]]
    BY DEF Goes, JInv
<1>2. \A k \in Jobs : JobOk(jobs'[k])
    BY <1>1 DEF JInv
<1>3. \A k \in Jobs : JobOk(jobs[k])'
    BY <1>2 DEF JobOk, BundlerOk, UnbundlerOk, Unbundler
<1>4. TempsOk'
    BY <1>1 DEF JInv, TempsOk, Working
<1>5. QED
    BY <1>1, <1>3, <1>4 DEF JInv

(* A job that is caught leaves no temporary.                               *)
LEMMA JobIsCaught ==
    ASSUME JInv, NEW j \in Jobs, Catch(j), UNCHANGED <<host, session, crashes>>
    PROVE  JInv'
<1>1. Goes(j, Idle) /\ temps' = temps \ {j} /\ bundle' = bundle
    BY DEF Catch
<1>2. BundleOk'
    BY <1>1 DEF JInv, BundleOk
<1>3. QED
    BY <1>1, <1>2, JobGoes DEF JobOk

LEMMA BundleStays ==
    ASSUME JInv, bundle' = bundle
    PROVE  BundleOk'
BY DEF JInv, BundleOk

LEMMA JobKinds ==
    ASSUME JInv, NEW j \in Jobs, Working(j)
    PROVE  /\ jobs[j].kind \in {"node", "browser", "memory"} => BundlerOk(jobs[j])
           /\ jobs[j].kind \in {"nodeUnbundle", "browserUnbundle"} => UnbundlerOk(jobs[j])
           /\ crashes = 0 /\ j \in temps => jobs[j].kind \in {"node", "nodeUnbundle"}
<1>1. JobOk(jobs[j]) /\ jobs[j] # Idle
    BY DEF JInv, Working, Idle
<1>2. BundlerOk(jobs[j]) => jobs[j].kind \in {"node", "browser", "memory"}
    BY DEF BundlerOk, BundlerJobs
<1>3. UnbundlerOk(jobs[j]) => jobs[j].kind \in {"nodeUnbundle", "browserUnbundle"}
    BY DEF UnbundlerOk
<1>4. crashes = 0 /\ j \in temps => jobs[j].kind \in {"node", "nodeUnbundle"}
    BY DEF JInv, TempsOk
<1>5. QED
    BY <1>1, <1>2, <1>3, <1>4 DEF JobOk

(* A bundler starts with a list it has all to do.                          *)
LEMMA BundlerStarts ==
    ASSUME JInv, NEW j \in Jobs, NEW kind \in {"node", "browser", "memory"}, NEW index \in Indexes,
           kind = "memory" => index = session.index,
           Goes(j, Bundling(kind, index)), ~Working(j), bundle' = bundle,
           temps' = IF kind = "node" THEN temps \cup {j} ELSE temps,
           UNCHANGED <<host, session, crashes>>
    PROVE  JInv'
<1> DEFINE job == Bundling(kind, index)
<1>1. job \in BundlerJobs
    BY EmptyIndex, IndexIs DEF Bundling, BundlerJobs, States
<1>2. /\ job.pc = "next" /\ job.kind = kind /\ job.index = index /\ job.todo = DOMAIN index
      /\ job.done = << >>
    BY DEF Bundling
<1> HIDE DEF job
<1>3. BundlerOk(job)
    BY <1>1, <1>2, AllDone DEF BundlerOk
<1>4. crashes = 0 => j \notin temps
    BY DEF JInv, TempsOk
<1>5. QED
    BY <1>2, <1>3, <1>4, BundleStays, JobGoes DEF JobOk, job

(* The next resource is in the bundle.                                     *)
LEMMA BundlerTakes ==
    ASSUME JInv, NEW j \in Jobs, Working(j), BundlerOk(jobs[j]), jobs[j].todo # {},
           NEW content \in Contents,
           jobs[j].kind # "memory" \/ ~jobs[j].changed => content = jobs[j].index[Following(j)],
           Took(j, content), UNCHANGED <<host, session, crashes, bundle, temps>>
    PROVE  JInv'
<1> DEFINE old == jobs[j]
           job == [old EXCEPT !.pc = "next", !.todo = @ \ {Following(j)}, !.opened = Missing,
                              !.done = With(@, Following(j), content)]
<1>1. Goes(j, job)
    BY DEF Took
<1>2. old \in BundlerJobs /\ old.index \in Indexes /\ old.todo \subseteq DOMAIN old.index
      /\ old.done \in Indexes
    BY DEF BundlerOk, BundlerJobs
<1>3. /\ Following(j) \in old.todo /\ Following(j) \in Paths
      /\ With(Done(old.index, old.todo), Following(j), old.index[Following(j)])
            = Done(old.index, old.todo \ {Following(j)})
    BY <1>2, DoneMore DEF Following
<1>4. With(old.done, Following(j), content) \in Indexes
    BY <1>2, <1>3, EntryAdded
<1>5. /\ job \in BundlerJobs /\ job.pc = "next" /\ job.kind = old.kind /\ job.index = old.index
      /\ job.todo = old.todo \ {Following(j)} /\ job.changed = old.changed
      /\ job.done = With(old.done, Following(j), content)
    BY <1>2, <1>4 DEF BundlerJobs, States
<1> HIDE DEF job
<1>6. old.kind # "memory" \/ ~old.changed => job.done = Done(job.index, job.todo)
    BY <1>3, <1>5 DEF BundlerOk
<1>7. BundlerOk(job)
    BY <1>2, <1>5, <1>6 DEF BundlerOk
<1>8. crashes = 0 /\ j \in temps => old.kind \in {"node", "nodeUnbundle"}
    BY JobKinds
<1>9. QED
    BY <1>1, <1>5, <1>7, <1>8, BundleStays, JobGoes DEF JobOk

(* It is opened, looked up, or there is none left.                         *)
LEMMA BundlerMoves ==
    ASSUME JInv, NEW j \in Jobs, Working(j), BundlerOk(jobs[j]),
           NEW pc \in {"stream", "read", "move"}, NEW opened \in States,
           pc \in {"stream", "read"} => jobs[j].todo # {},
           pc = "move" => jobs[j].todo = {},
           pc = "read" => opened \in Contents /\ opened = session.index[Min(jobs[j].todo)],
           pc = "stream" => jobs[j].kind # "memory",
           Goes(j, [jobs[j] EXCEPT !.pc = pc, !.opened = opened]),
           UNCHANGED <<host, session, crashes, bundle, temps>>
    PROVE  JInv'
<1> DEFINE old == jobs[j]
           job == [old EXCEPT !.pc = pc, !.opened = opened]
<1>1. old \in BundlerJobs
    BY DEF BundlerOk
<1>2. /\ job \in BundlerJobs /\ job.pc = pc /\ job.kind = old.kind /\ job.index = old.index
      /\ job.todo = old.todo /\ job.changed = old.changed /\ job.done = old.done
      /\ job.opened = opened
    BY <1>1 DEF BundlerJobs
<1> HIDE DEF job
<1>3. BundlerOk(job)
    BY <1>2 DEF BundlerOk
<1>4. crashes = 0 /\ j \in temps => old.kind \in {"node", "nodeUnbundle"}
    BY JobKinds
<1>5. QED
    BY <1>2, <1>3, <1>4, BundleStays, JobGoes DEF JobOk, job

(* The bundle is made: it holds what its index says.                       *)
LEMMA BundleIsMade ==
    ASSUME JInv, NEW j \in Jobs, Working(j), BundlerOk(jobs[j]), jobs[j].todo = {},
           NEW index, index = IF jobs[j].kind = "memory" THEN session.index ELSE jobs[j].index,
           bundle' = Made(j, index), Goes(j, Idle),
           temps' \subseteq temps, j \in temps' => jobs[j].kind # "node",
           UNCHANGED <<host, session, crashes>>
    PROVE  JInv'
<1>1. jobs[j].index \in Indexes /\ jobs[j].done \in Indexes
    BY DEF BundlerOk, BundlerJobs
<1>2. /\ bundle'.resources = jobs[j].done /\ bundle'.index = index
      /\ bundle'.settled <=> jobs[j].kind # "memory" \/ ~jobs[j].changed
    BY DEF Made
<1>3. jobs[j].kind # "memory" \/ ~jobs[j].changed => jobs[j].done = jobs[j].index
    BY <1>1, AllDone DEF BundlerOk
<1>4. jobs[j].kind = "memory" /\ ~jobs[j].changed => index = jobs[j].index
    BY DEF BundlerOk
<1>5. BundleOk'
    BY <1>1, <1>2, <1>3, <1>4 DEF BundleOk
<1>6. crashes = 0 /\ j \in temps' => FALSE
    <2>1. crashes = 0 /\ j \in temps => jobs[j].kind = "node"
        BY JobKinds DEF BundlerOk, BundlerJobs
    <2>2. QED
        BY <2>1
<1>7. QED
    BY <1>5, <1>6, JobGoes DEF JobOk

(* Every step of a bundler.                                                *)
LEMMA BundlerSteps ==
    ASSUME JInv, TypeInv, NEW j \in Jobs, UNCHANGED <<host, session, crashes>>,
           \/ NodeBundle(j) \/ BrowserBundle(j) \/ MemoryBundle(j)
           \/ NodeOpenRead(j) \/ BrowserOpenRead(j) \/ NodeStream(j) \/ BrowserStream(j)
           \/ CloseBundle(j) \/ MoveBundle(j) \/ BrowserCommit(j)
           \/ LookUp(j) \/ Read(j) \/ ReturnBundle(j)
    PROVE  JInv'
<1>1. session.index \in Indexes /\ intent \in Indexes
    BY DEF TypeInv
<1>2. CASE NodeBundle(j)
    <2>1. PICK index \in {intent} \cup (IF session.open THEN {session.index} ELSE {}) :
              Goes(j, Bundling("node", index))
        BY <1>2 DEF NodeBundle
    <2>2. index \in Indexes
        BY <1>1, <2>1
    <2>3. temps' = temps \cup {j} /\ bundle' = bundle /\ ~Working(j)
        BY <1>2 DEF NodeBundle
    <2>4. QED
        BY <2>1, <2>2, <2>3, BundlerStarts
<1>3. CASE BrowserBundle(j)
    BY <1>1, <1>3, BundlerStarts DEF BrowserBundle, files
<1>4. CASE MemoryBundle(j)
    BY <1>1, <1>4, BundlerStarts DEF MemoryBundle, files
<1>5. CASE (NodeOpenRead(j) \/ BrowserOpenRead(j) \/ LookUp(j) \/ NodeStream(j)
            \/ BrowserStream(j) \/ Read(j) \/ CloseBundle(j) \/ ReturnBundle(j)) /\ Catch(j)
    BY <1>5, JobIsCaught
<1>6. CASE (NodeOpenRead(j) \/ BrowserOpenRead(j)) /\ ~Catch(j)
    <2>1. /\ Working(j) /\ jobs[j].kind \in {"node", "browser"} /\ jobs[j].todo # {}
          /\ Goes(j, [jobs[j] EXCEPT !.pc = "stream", !.opened = resources[Following(j)]])
          /\ UNCHANGED <<bundle, temps>>
        BY <1>6 DEF NodeOpenRead, BrowserOpenRead, At, Opens, Working, files
    <2>2. BundlerOk(jobs[j])
        BY <2>1, JobKinds
    <2>3. resources[Following(j)] \in States
        BY <2>1, <2>2, FirstPath DEF Following, TypeInv, BundlerOk, BundlerJobs
    <2>4. QED
        BY <2>1, <2>2, <2>3, BundlerMoves
<1>7. CASE LookUp(j) /\ ~Catch(j)
    <2>1. /\ Working(j) /\ jobs[j].kind = "memory" /\ jobs[j].todo # {}
          /\ Following(j) \in DOMAIN session.index
          /\ Goes(j, [jobs[j] EXCEPT !.pc = "read", !.opened = session.index[Following(j)]])
          /\ UNCHANGED <<bundle, temps>>
        BY <1>7 DEF LookUp, At, Working, files
    <2>2. BundlerOk(jobs[j])
        BY <2>1, JobKinds
    <2>3. session.index[Following(j)] \in Contents /\ session.index[Following(j)] \in States
        BY <1>1, <2>1, IndexIs DEF States
    <2>4. QED
        BY <2>1, <2>2, <2>3, BundlerMoves DEF Following
<1>8. CASE (NodeStream(j) \/ BrowserStream(j)) /\ ~Catch(j)
    <2>1. /\ Working(j) /\ jobs[j].kind \in {"node", "browser"} /\ jobs[j].pc = "stream"
          /\ Took(j, resources[Following(j)])
          /\ resources[Following(j)] = jobs[j].index[Following(j)]
          /\ UNCHANGED <<bundle, temps>>
        BY <1>8 DEF NodeStream, BrowserStream, Streams, At, Fits, Working, files
    <2>2. BundlerOk(jobs[j]) /\ jobs[j].todo # {}
        BY <2>1, JobKinds DEF BundlerOk
    <2>3. resources[Following(j)] \in Contents
        BY <2>1, <2>2, DoneMore DEF Following, BundlerOk, BundlerJobs
    <2>4. QED
        BY <2>1, <2>2, <2>3, BundlerTakes
<1>9. CASE Read(j) /\ ~Catch(j)
    <2>1. /\ Working(j) /\ jobs[j].kind = "memory" /\ jobs[j].pc = "read"
          /\ Took(j, resources[Following(j)]) /\ Exists(Following(j))
          /\ resources[Following(j)] = jobs[j].opened
          /\ UNCHANGED <<bundle, temps>>
        BY <1>9 DEF Read, At, Fits, Working, files
    <2>2. BundlerOk(jobs[j]) /\ jobs[j].todo # {}
        BY <2>1, JobKinds DEF BundlerOk
    <2>3. ~jobs[j].changed => jobs[j].opened = jobs[j].index[Following(j)]
        BY <2>1, <2>2 DEF BundlerOk, Following
    <2>4. QED
        BY <2>1, <2>2, <2>3, BundlerTakes DEF BundlerOk
<1>10. CASE CloseBundle(j) /\ ~Catch(j)
    <2>1. /\ Working(j) /\ jobs[j].kind = "node" /\ jobs[j].todo = {}
          /\ Goes(j, [jobs[j] EXCEPT !.pc = "move"]) /\ UNCHANGED <<bundle, temps>>
        BY <1>10 DEF CloseBundle, At, Working, files
    <2>2. BundlerOk(jobs[j])
        BY <2>1, JobKinds
    <2>3. [jobs[j] EXCEPT !.pc = "move"] = [jobs[j] EXCEPT !.pc = "move", !.opened = jobs[j].opened]
          /\ jobs[j].opened \in States
        BY <2>2 DEF BundlerOk, BundlerJobs
    <2>4. QED
        BY <2>1, <2>2, <2>3, BundlerMoves
<1>11. CASE MoveBundle(j)
    <2>1. /\ Working(j) /\ jobs[j].kind = "node" /\ jobs[j].pc = "move"
          /\ bundle' = Made(j, jobs[j].index) /\ Goes(j, Idle) /\ temps' = temps \ {j}
        BY <1>11 DEF MoveBundle, At, Working
    <2>2. BundlerOk(jobs[j])
        BY <2>1, JobKinds
    <2>3. jobs[j].todo = {}
        BY <2>1, <2>2 DEF BundlerOk
    <2>4. jobs[j].index = IF jobs[j].kind = "memory" THEN session.index ELSE jobs[j].index
        BY <2>1
    <2>5. QED
        BY <2>1, <2>2, <2>3, <2>4, BundleIsMade
<1>12. CASE BrowserCommit(j)
    <2>1. /\ Working(j) /\ jobs[j].kind = "browser" /\ jobs[j].todo = {}
          /\ bundle' = Made(j, jobs[j].index) /\ Goes(j, Idle) /\ temps' = temps
        BY <1>12 DEF BrowserCommit, At, Working
    <2>2. QED
        BY <2>1, JobKinds, BundleIsMade
<1>13. CASE ReturnBundle(j) /\ ~Catch(j)
    <2>1. /\ Working(j) /\ jobs[j].kind = "memory" /\ jobs[j].todo = {}
          /\ bundle' = Made(j, session.index) /\ Goes(j, Idle) /\ temps' = temps
        BY <1>13 DEF ReturnBundle, At, Working
    <2>2. QED
        BY <2>1, JobKinds, BundleIsMade
<1>14. QED
    BY <1>2, <1>3, <1>4, <1>5, <1>6, <1>7, <1>8, <1>9, <1>10, <1>11, <1>12, <1>13

-----------------------------------------------------------------------------
(* Unbundlers.                                                             *)
LEMMA UnbundlerStarts ==
    ASSUME JInv, NEW j \in Jobs, NEW kind \in {"nodeUnbundle", "browserUnbundle"}, ~Working(j),
           NEW job, Unbundler(job), job.kind = kind, job.source = bundle,
           job.todo = DOMAIN bundle.resources, job.done = << >>,
           job.pc = IF kind = "nodeUnbundle" THEN "next" ELSE "directory",
           host = IF kind = "nodeUnbundle" THEN "node" ELSE "browser",
           bundle.there, Goes(j, job), bundle' = bundle,
           temps' = IF kind = "nodeUnbundle" THEN temps \cup {j} ELSE temps,
           UNCHANGED <<host, session, crashes>>
    PROVE  JInv'
<1>1. bundle.resources \in Indexes
    BY DEF JInv, BundleOk
<1>2. UnbundlerOk(job)
    BY <1>1, AllDone DEF UnbundlerOk
<1>3. crashes = 0 => j \notin temps
    BY DEF JInv, TempsOk
<1>4. crashes = 0 /\ j \in temps' => job.pc # "idle" /\ job.kind \in {"node", "nodeUnbundle"}
    BY <1>3
<1>5. temps' \subseteq temps \cup {j}
    OBVIOUS
<1>6. QED
    BY <1>2, <1>4, <1>5, BundleStays, JobGoes DEF JobOk

LEMMA UnbundlerMoves ==
    ASSUME JInv, NEW j \in Jobs, Working(j), UnbundlerOk(jobs[j]),
           NEW job, Unbundler(job), job.kind = jobs[j].kind, job.source = jobs[j].source,
           IF job.kind = "nodeUnbundle" THEN job.pc \in {"next", "move"}
           ELSE job.pc \in {"next", "fill"},
           job.pc \in {"move", "fill"} => job.todo = {} /\ Sound(job.source),
           job.todo \subseteq jobs[j].todo,
           job.done = Done(job.source.resources, job.todo),
           Goes(j, job), UNCHANGED <<host, session, crashes, bundle, temps>>
    PROVE  JInv'
<1>1. UnbundlerOk(job)
    BY DEF UnbundlerOk, Sound
<1>2. crashes = 0 /\ j \in temps => jobs[j].kind \in {"node", "nodeUnbundle"}
    BY JobKinds
<1>3. QED
    BY <1>1, <1>2, BundleStays, JobGoes DEF JobOk

(* What it created itself is all that an unbundler notes down later.       *)
LEMMA UnbundlerStays ==
    ASSUME NEW job, Unbundler(job), NEW value
    PROVE  /\ Unbundler([job EXCEPT !.createdResources = value])
           /\ Unbundler([job EXCEPT !.createdIntent = value])
<1>1. Unbundler([job EXCEPT !.createdResources = value])
    BY DEF Unbundler
<1>2. Unbundler([job EXCEPT !.createdIntent = value])
    BY DEF Unbundler
<1>3. QED
    BY <1>1, <1>2

(* Every step of an unbundler, and the failures of any job.                *)
LEMMA UnbundlerSteps ==
    ASSUME JInv, NEW j \in Jobs, UNCHANGED <<host, session, crashes>>,
           \/ NodeUnbundle(j) \/ BrowserUnbundle(j) \/ MakeResources(j)
           \/ NodeExtract(j) \/ BrowserExtract(j) \/ NodeVerify(j) \/ BrowserVerify(j)
           \/ MoveWorkspace(j) \/ FillIntent(j) \/ IoFails(j)
    PROVE  JInv'
<1> DEFINE old == jobs[j]
<1>1. CASE Catch(j)
    BY <1>1, JobIsCaught
<1>2. CASE NodeUnbundle(j)
    <2> DEFINE job == Unbundling("nodeUnbundle")
    <2>1. /\ ~Working(j) /\ bundle.there /\ host = "node"
          /\ Goes(j, job) /\ temps' = temps \cup {j} /\ bundle' = bundle
        BY <1>2 DEF NodeUnbundle, MayUnbundle, Parses
    <2>2. /\ Unbundler(job) /\ job.kind = "nodeUnbundle" /\ job.source = bundle
          /\ job.todo = DOMAIN bundle.resources /\ job.done = << >> /\ job.pc = "next"
        BY DEF Unbundling, Unbundler
    <2> HIDE DEF job
    <2>3. QED
        BY <2>1, <2>2, UnbundlerStarts
<1>3. CASE BrowserUnbundle(j)
    <2> DEFINE fresh == Unbundling("browserUnbundle")
               job == [fresh EXCEPT !.pc = "directory"]
    <2>1. /\ ~Working(j) /\ bundle.there /\ host = "browser"
          /\ Goes(j, job) /\ temps' = temps /\ bundle' = bundle
        BY <1>3 DEF BrowserUnbundle, MayUnbundle, Parses
    <2>a. /\ Unbundler(fresh) /\ fresh.kind = "browserUnbundle" /\ fresh.source = bundle
          /\ fresh.todo = DOMAIN bundle.resources /\ fresh.done = << >>
        BY DEF Unbundling, Unbundler
    <2> HIDE DEF fresh
    <2>2. /\ Unbundler(job) /\ job.kind = "browserUnbundle" /\ job.source = bundle
          /\ job.todo = DOMAIN bundle.resources /\ job.done = << >> /\ job.pc = "directory"
        BY <2>a DEF Unbundler
    <2> HIDE DEF job
    <2>3. QED
        BY <2>1, <2>2, UnbundlerStarts
<1>4. ASSUME Working(j), old.kind \in {"nodeUnbundle", "browserUnbundle"}
      PROVE  /\ UnbundlerOk(old) /\ Unbundler(old)
             /\ old.source.resources \in Indexes /\ old.todo \subseteq DOMAIN old.source.resources
             /\ old.done = Done(old.source.resources, old.todo)
    BY <1>4, JobKinds DEF UnbundlerOk
<1>5. CASE MakeResources(j)
    <2> DEFINE made == [old EXCEPT !.pc = "next"]
               job == [made EXCEPT !.createdResources = TRUE]
    <2>1. /\ Working(j) /\ old.kind = "browserUnbundle"
          /\ Goes(j, job) /\ UNCHANGED <<bundle, temps>>
        BY <1>5 DEF MakeResources, At, Working
    <2>a. /\ Unbundler(made) /\ made.kind = old.kind /\ made.source = old.source
          /\ made.todo = old.todo /\ made.done = old.done /\ made.pc = "next"
        BY <1>4, <2>1 DEF Unbundler
    <2> HIDE DEF made
    <2>2. Unbundler(job)
        BY <2>a, UnbundlerStays
    <2>3. /\ job.kind = old.kind /\ job.source = old.source
          /\ job.todo = old.todo /\ job.done = old.done /\ job.pc = "next"
        BY <2>a DEF Unbundler
    <2> HIDE DEF job
    <2>4. QED
        BY <1>4, <2>1, <2>2, <2>3, UnbundlerMoves
<1>6. CASE (NodeExtract(j) \/ BrowserExtract(j)) /\ ~Catch(j)
    <2> DEFINE first == [old EXCEPT !.pc = "next"]
               second == [first EXCEPT !.todo = @ \ {Following(j)}]
               third == [second EXCEPT !.opened = Missing]
               job == [third EXCEPT !.done = With(@, Following(j), Unpacked(j))]
    <2>1. /\ Working(j) /\ old.kind \in {"nodeUnbundle", "browserUnbundle"}
          /\ old.todo # {} /\ Goes(j, job) /\ UNCHANGED <<bundle, temps>>
        BY <1>6 DEF NodeExtract, BrowserExtract, At, Working, files, Took
    <2>a. /\ Unbundler(first) /\ first.kind = old.kind /\ first.source = old.source
          /\ first.todo = old.todo /\ first.done = old.done /\ first.pc = "next"
        BY <1>4, <2>1 DEF Unbundler
    <2> HIDE DEF first
    <2>b. /\ Unbundler(second) /\ second.kind = old.kind /\ second.source = old.source
          /\ second.todo = old.todo \ {Following(j)} /\ second.done = old.done /\ second.pc = "next"
        BY <2>a DEF Unbundler
    <2> HIDE DEF second
    <2>c. /\ Unbundler(third) /\ third.kind = old.kind /\ third.source = old.source
          /\ third.todo = old.todo \ {Following(j)} /\ third.done = old.done /\ third.pc = "next"
        BY <2>b DEF Unbundler
    <2> HIDE DEF third
    <2>2. /\ Unbundler(job) /\ job.kind = old.kind /\ job.source = old.source /\ job.pc = "next"
          /\ job.todo = old.todo \ {Following(j)} /\ job.done = With(old.done, Following(j), Unpacked(j))
        BY <2>c DEF Unbundler
    <2>4. With(Done(old.source.resources, old.todo), Following(j), Unpacked(j))
              = Done(old.source.resources, old.todo \ {Following(j)})
        BY <1>4, <2>1, DoneMore DEF Following, Unpacked
    <2> HIDE DEF job
    <2>5. job.done = Done(job.source.resources, job.todo)
        BY <1>4, <2>1, <2>2, <2>4
    <2>6. QED
        BY <1>4, <2>1, <2>2, <2>5, UnbundlerMoves
<1>7. CASE NodeVerify(j) /\ ~Catch(j)
    <2> DEFINE job == [old EXCEPT !.pc = "move"]
    <2>1. /\ Working(j) /\ old.kind = "nodeUnbundle" /\ old.todo = {}
          /\ Sound(old.source) /\ Goes(j, job) /\ UNCHANGED <<bundle, temps>>
        BY <1>7 DEF NodeVerify, At, Working, Verifies, files
    <2>2. /\ Unbundler(job) /\ job.kind = old.kind /\ job.source = old.source
          /\ job.todo = old.todo /\ job.done = old.done /\ job.pc = "move"
        BY <1>4, <2>1 DEF Unbundler
    <2> HIDE DEF job
    <2>3. QED
        BY <1>4, <2>1, <2>2, UnbundlerMoves
<1>8. CASE BrowserVerify(j) /\ ~Catch(j)
    <2> DEFINE read == [old EXCEPT !.pc = "fill"]
               job == [read EXCEPT !.createdIntent = TRUE]
    <2>1. /\ Working(j) /\ old.kind = "browserUnbundle" /\ old.todo = {}
          /\ Sound(old.source) /\ Goes(j, job) /\ UNCHANGED <<bundle, temps>>
        BY <1>8 DEF BrowserVerify, At, Working, Verifies
    <2>a. /\ Unbundler(read) /\ read.kind = old.kind /\ read.source = old.source
          /\ read.todo = old.todo /\ read.done = old.done /\ read.pc = "fill"
        BY <1>4, <2>1 DEF Unbundler
    <2> HIDE DEF read
    <2>2. Unbundler(job)
        BY <2>a, UnbundlerStays
    <2>3. /\ job.kind = old.kind /\ job.source = old.source
          /\ job.todo = old.todo /\ job.done = old.done /\ job.pc = "fill"
        BY <2>a DEF Unbundler
    <2> HIDE DEF job
    <2>4. QED
        BY <1>4, <2>1, <2>2, <2>3, UnbundlerMoves
<1>9. CASE (MoveWorkspace(j) \/ FillIntent(j)) /\ ~Catch(j)
    <2>1. /\ Working(j) /\ Goes(j, Idle) /\ bundle' = bundle
          /\ \/ temps' = temps \ {j}
             \/ temps' = temps /\ old.kind = "browserUnbundle"
        BY <1>9 DEF MoveWorkspace, FillIntent, At, Working
    <2>2. temps' \subseteq temps \cup {j} /\ ~(crashes = 0 /\ j \in temps')
        BY <2>1, JobKinds
    <2>3. QED
        BY <2>1, <2>2, BundleStays, JobGoes DEF JobOk
<1>10. QED
    BY <1>1, <1>2, <1>3, <1>5, <1>6, <1>7, <1>8, <1>9 DEF IoFails

(* Where a workspace lies does not change, and only a stop is a crash.     *)
LEMMA SessionIsOfOneHost ==
    ASSUME SessionStep
    PROVE  UNCHANGED <<host, crashes>>
BY DEF SessionStep, WorkspaceStep, Write, Remove, Calls, NodeWrite, BrowserCreate, BrowserClose,
   StoreRemove, Stores, StoreFails, Resume, CaptureIndex, WriteIntent, MarkSaved, Reopen

(* The session works on: a job in memory may be overtaken.                 *)
LEMMA SessionKeepsJobs ==
    ASSUME JInv, SessionStep
    PROVE  JInv'
<1>1. UNCHANGED <<host, crashes>>
    BY SessionIsOfOneHost
<1>2. UNCHANGED <<bundle, temps>>
    BY DEF SessionStep, files
<1>3. ASSUME NEW j \in Jobs
      PROVE  JobOk(jobs[j])' /\ jobs'[j].pc = jobs[j].pc /\ (Working(j) => jobs'[j].kind = jobs[j].kind)
    <2>1. JobOk(jobs[j])
        BY DEF JInv
    <2>2. CASE Working(j) /\ session'.index # session.index
        <3>1. jobs'[j] = [jobs[j] EXCEPT !.changed = TRUE]
            BY <2>2 DEF SessionStep
        <3>2. CASE BundlerOk(jobs[j])
            <4>1. /\ jobs'[j] \in BundlerJobs /\ jobs'[j].changed
                  /\ jobs'[j].pc = jobs[j].pc /\ jobs'[j].kind = jobs[j].kind
                  /\ jobs'[j].index = jobs[j].index /\ jobs'[j].todo = jobs[j].todo
                  /\ jobs'[j].done = jobs[j].done /\ jobs'[j].opened = jobs[j].opened
                BY <3>1, <3>2 DEF BundlerOk, BundlerJobs
            <4>2. BundlerOk(jobs[j])'
                BY <3>2, <4>1 DEF BundlerOk
            <4>3. QED
                BY <4>1, <4>2 DEF JobOk
        <3>3. CASE UnbundlerOk(jobs[j])
            <4>1. Unbundler(jobs[j])
                BY <3>3 DEF UnbundlerOk
            <4>2. /\ Unbundler(jobs'[j])
                  /\ jobs'[j].pc = jobs[j].pc /\ jobs'[j].kind = jobs[j].kind
                  /\ jobs'[j].source = jobs[j].source /\ jobs'[j].todo = jobs[j].todo
                  /\ jobs'[j].done = jobs[j].done
                BY <3>1, <4>1 DEF Unbundler
            <4>3. UnbundlerOk(jobs[j])'
                BY <1>1, <3>3, <4>2 DEF UnbundlerOk, Unbundler
            <4>4. QED
                BY <4>2, <4>3 DEF JobOk
        <3>4. QED
            BY <2>1, <2>2, <3>2, <3>3 DEF JobOk, Working, Idle
    <2>3. CASE ~(Working(j) /\ session'.index # session.index)
        <3>1. jobs'[j] = jobs[j]
            BY <2>3 DEF SessionStep
        <3>2. jobs[j] # Idle => session'.index = session.index \/ ~Working(j)
            BY <2>3
        <3>3. BundlerOk(jobs[j]) => Working(j)
            BY DEF BundlerOk, BundlerJobs, Working
        <3>4. BundlerOk(jobs[j]) => BundlerOk(jobs[j])'
            BY <2>3, <3>1, <3>3 DEF BundlerOk
        <3>5. UnbundlerOk(jobs[j]) => UnbundlerOk(jobs[j])'
            BY <1>1, <3>1 DEF UnbundlerOk, Unbundler
        <3>6. QED
            BY <2>1, <3>1, <3>4, <3>5 DEF JobOk
    <2>4. QED
        BY <2>2, <2>3
<1>4. jobs' = [j \in Jobs |-> jobs'[j]]
    BY DEF SessionStep
<1>5. BundleOk' /\ TempsOk'
    BY <1>1, <1>2, <1>3 DEF JInv, BundleOk, TempsOk, Working
<1>6. QED
    BY <1>3, <1>4, <1>5 DEF JInv

LEMMA JobsHold == Spec => []JInv
<1>1. BundlesInit => JInv
    <2>1. SUFFICES ASSUME BundlesInit
                   PROVE  JInv
        OBVIOUS
    <2>2. bundle \in GivenBundles /\ jobs = [j \in Jobs |-> Idle] /\ temps = {} /\ crashes = 0
        BY <2>1 DEF BundlesInit, WorkspaceInit
    <2>3. BundleOk
        BY <2>2, BundlesAssumption DEF BundleOk
    <2>4. QED
        BY <2>2, <2>3 DEF JInv, JobOk, TempsOk
<1>2. JInv /\ WInv /\ [Next]_vars => JInv'
    <2>1. SUFFICES ASSUME JInv, WInv, [Next]_vars
                   PROVE  JInv'
        OBVIOUS
    <2>2. CASE SessionStep
        BY <2>1, <2>2, SessionKeepsJobs
    <2>3. CASE Stop
        <3>1. /\ jobs' = [j \in Jobs |-> Idle] /\ UNCHANGED <<bundle, temps>>
              /\ crashes' = crashes + 1
            BY <2>3 DEF Stop, Crash, files
        <3>2. crashes' \in Nat /\ crashes' # 0
            BY <2>1, <3>1 DEF JInv, TempsOk
        <3>3. QED
            BY <2>1, <3>1, <3>2 DEF JInv, JobOk, BundleOk, TempsOk
    <2>4. ASSUME NEW j \in Jobs, JobStep(j)
          PROVE  JInv'
        <3>1. UNCHANGED <<host, session, crashes>>
            BY <2>4, JobsStayOutside
        <3>2. QED
            BY <2>1, <2>4, <3>1, BundlerSteps, UnbundlerSteps DEF JobStep, WInv
    <2>5. CASE UNCHANGED vars
        <3>1. UNCHANGED <<host, session, crashes, bundle, temps, jobs>>
            BY <2>5 DEF vars, workspace, files
        <3>2. QED
            BY <2>1, <3>1 DEF JInv, JobOk, BundlerOk, UnbundlerOk, Unbundler, BundleOk, TempsOk, Working
    <2>6. QED
        BY <2>1, <2>2, <2>3, <2>4, <2>5 DEF Next
<1>3. QED
    BY <1>1, <1>2, SessionHolds, PTL DEF Spec

(* A bundle that was made holds what its index says, whatever the session  *)
(* wrote, removed or saved and whatever other jobs did in the meantime.    *)
THEOREM BundlesHold == Spec => []BundlesAreSound
<1>1. JInv => BundlesAreSound
    BY DEF JInv, BundleOk, BundlesAreSound, Sound
<1>2. QED
    BY <1>1, JobsHold, PTL

(* Without a crash, a temporary belongs to a job under way.                *)
THEOREM NothingIsLeft == Spec => []FailedJobsLeaveNothing
<1>1. JInv => FailedJobsLeaveNothing
    BY DEF JInv, TempsOk, FailedJobsLeaveNothing
<1>2. QED
    BY <1>1, JobsHold, PTL

-----------------------------------------------------------------------------
(* Destinations.  In Node only the rename touches the directory.  In the   *)
(* browser, as long as unbundlers have not overlapped, it is what the one  *)
(* at work has noted down of it.                                           *)
Filling(j) == Working(j) /\ jobs[j].kind = "browserUnbundle"

PlaceOf(job) ==
    [made |-> job.createdResources, resources |-> job.done,
     intent |-> IF job.createdIntent THEN "hollow" ELSE "none", index |-> << >>]

Noted(job) ==
    /\ job.createdResources = (job.pc # "directory")
    /\ job.createdIntent = (job.pc = "fill")
    /\ job.pc = "directory" => job.done = << >>

Mirrored ==
    /\ \A j, k \in Jobs : Filling(j) /\ Filling(k) => j = k
    /\ \A j \in Jobs : Filling(j) => place = PlaceOf(jobs[j]) /\ Noted(jobs[j])
    /\ (\A j \in Jobs : ~Filling(j)) => place = Emptied \/ Whole

DInv ==
    /\ host \in {"node", "browser"} /\ crashes \in Nat
    /\ host = "node" => place = Emptied \/ Whole
    /\ host = "browser" => crowded \/ crashes > 0 \/ Mirrored

(* Nobody but an unbundler of the browser is concerned by its catch.       *)
LEMMA FillingIsOfBrowser ==
    ASSUME JInv, NEW j \in Jobs, Filling(j)
    PROVE  /\ host = "browser" /\ UnbundlerOk(jobs[j]) /\ Unbundler(jobs[j])
           /\ jobs[j].pc \in {"directory", "next", "fill"}
BY JobKinds DEF Filling, UnbundlerOk

(* A job that neither was nor becomes an unbundler of the browser leaves   *)
(* the directory as it is.                                                 *)
Spares(j) ==
    /\ ~Filling(j) /\ ~Filling(j)'
    /\ \A k \in Jobs \ {j} : jobs'[k] = jobs[k]
    /\ place' = place /\ crowded' = crowded

LEMMA SparedIsKept ==
    ASSUME DInv, NEW j \in Jobs, Spares(j), UNCHANGED <<host, crashes>>
    PROVE  DInv'
<1>1. \A k \in Jobs : Filling(k)' <=> Filling(k)
    BY DEF Spares, Filling, Working
<1>2. \A k \in Jobs : Filling(k) => jobs'[k] = jobs[k]
    BY DEF Spares
<1>3. Whole' <=> Whole
    BY DEF Spares, Whole
<1>4. Mirrored => Mirrored'
    BY <1>1, <1>2, <1>3 DEF Spares, Mirrored, PlaceOf, Noted
<1>5. QED
    BY <1>3, <1>4 DEF DInv, Spares

LEMMA CatchSpares ==
    ASSUME JInv, NEW j \in Jobs, Working(j), ~Filling(j), Catch(j)
    PROVE  Spares(j)
<1>1. jobs[j].kind # "browserUnbundle"
    BY DEF Filling
<1>2. /\ jobs' = [jobs EXCEPT ![j] = Idle] /\ place' = place /\ crowded' = crowded
    BY <1>1 DEF Catch, Goes, Removed
<1>3. jobs'[j] = Idle /\ \A k \in Jobs \ {j} : jobs'[k] = jobs[k]
    BY <1>2 DEF JInv
<1>4. QED
    BY <1>2, <1>3 DEF Spares, Filling, Working, Idle

(* It suffices that the kind of a job is another one.                      *)
LEMMA OthersSpare ==
    ASSUME JInv, NEW j \in Jobs, NEW job, ~Filling(j), Goes(j, job),
           job.pc = "idle" \/ job.kind # "browserUnbundle",
           place' = place, crowded' = crowded
    PROVE  Spares(j)
<1>1. jobs'[j] = job /\ \A k \in Jobs \ {j} : jobs'[k] = jobs[k]
    BY DEF Goes, JInv
<1>2. QED
    BY <1>1 DEF Spares, Filling, Working

LEMMA BundlersSpare ==
    ASSUME JInv, NEW j \in Jobs,
           \/ NodeBundle(j) \/ BrowserBundle(j) \/ MemoryBundle(j)
           \/ NodeOpenRead(j) \/ BrowserOpenRead(j) \/ NodeStream(j) \/ BrowserStream(j)
           \/ CloseBundle(j) \/ MoveBundle(j) \/ BrowserCommit(j)
           \/ LookUp(j) \/ Read(j) \/ ReturnBundle(j)
    PROVE  Spares(j)
<1> DEFINE old == jobs[j]
<1>1. CASE NodeBundle(j) \/ BrowserBundle(j) \/ MemoryBundle(j)
    <2>1. /\ ~Working(j) /\ place' = place /\ crowded' = crowded
          /\ \E kind \in {"node", "browser", "memory"} : \E index : Goes(j, Bundling(kind, index))
        BY <1>1 DEF NodeBundle, BrowserBundle, MemoryBundle, files
    <2>2. PICK kind \in {"node", "browser", "memory"} : \E index : Goes(j, Bundling(kind, index))
        BY <2>1
    <2>a. PICK index : Goes(j, Bundling(kind, index))
        BY <2>2
    <2>3. Bundling(kind, index).kind = kind
        BY DEF Bundling
    <2>4. QED
        BY <2>1, <2>2, <2>a, <2>3, OthersSpare DEF Filling
<1>2. CASE ~(NodeBundle(j) \/ BrowserBundle(j) \/ MemoryBundle(j))
    <2>1. Working(j) /\ old.kind \in {"node", "browser", "memory"}
        BY <1>2 DEF NodeOpenRead, BrowserOpenRead, NodeStream, BrowserStream, CloseBundle,
           MoveBundle, BrowserCommit, LookUp, Read, ReturnBundle, At, Working
    <2>2. BundlerOk(old) /\ ~Filling(j)
        BY <2>1, JobKinds DEF Filling
    <2>3. old \in BundlerJobs
        BY <2>2 DEF BundlerOk
    <2>4. CASE Catch(j)
        BY <2>1, <2>2, <2>4, CatchSpares
    <2>5. CASE ~Catch(j) /\ (MoveBundle(j) \/ BrowserCommit(j) \/ ReturnBundle(j))
        <3>1. Goes(j, Idle) /\ place' = place /\ crowded' = crowded
            BY <2>5 DEF MoveBundle, BrowserCommit, ReturnBundle
        <3>2. QED
            BY <2>2, <3>1, OthersSpare DEF Idle
    <2>6. CASE ~Catch(j) /\ (NodeOpenRead(j) \/ BrowserOpenRead(j) \/ LookUp(j) \/ CloseBundle(j))
        <3>1. place' = place /\ crowded' = crowded
            BY <2>6 DEF NodeOpenRead, BrowserOpenRead, Opens, LookUp, CloseBundle, files
        <3>2. \/ Goes(j, [old EXCEPT !.pc = "stream", !.opened = resources[Following(j)]])
              \/ Goes(j, [old EXCEPT !.pc = "read", !.opened = session.index[Following(j)]])
              \/ Goes(j, [old EXCEPT !.pc = "move"])
            BY <2>6 DEF NodeOpenRead, BrowserOpenRead, Opens, LookUp, CloseBundle
        <3>3. /\ [old EXCEPT !.pc = "stream", !.opened = resources[Following(j)]].kind = old.kind
              /\ [old EXCEPT !.pc = "read", !.opened = session.index[Following(j)]].kind = old.kind
              /\ [old EXCEPT !.pc = "move"].kind = old.kind
            BY <2>3 DEF BundlerJobs
        <3>4. QED
            BY <2>1, <2>2, <3>1, <3>2, <3>3, OthersSpare
    <2>7. CASE ~Catch(j) /\ (NodeStream(j) \/ BrowserStream(j) \/ Read(j))
        <3>1. /\ place' = place /\ crowded' = crowded
              /\ Took(j, resources[Following(j)])
            BY <2>7 DEF NodeStream, BrowserStream, Read, Streams, files
        <3> DEFINE job == [old EXCEPT !.pc = "next", !.todo = @ \ {Following(j)}, !.opened = Missing,
                                      !.done = With(@, Following(j), resources[Following(j)])]
        <3>2. Goes(j, job)
            BY <3>1 DEF Took
        <3>3. job.kind = old.kind
            BY <2>3 DEF BundlerJobs
        <3> HIDE DEF job
        <3>4. QED
            BY <2>1, <2>2, <3>1, <3>2, <3>3, OthersSpare
    <2>8. QED
        BY <1>2, <2>4, <2>5, <2>6, <2>7
<1>3. QED
    BY <1>1, <1>2

(* The one unbundler at work goes on, or ends.                             *)
LEMMA FillerMoves ==
    ASSUME JInv, DInv, NEW j \in Jobs, Filling(j), NEW job, Goes(j, job),
           job.kind = "browserUnbundle", job.pc # "idle",
           Mirrored => place' = PlaceOf(job) /\ Noted(job),
           UNCHANGED <<host, crashes, crowded>>
    PROVE  DInv'
<1>1. jobs'[j] = job /\ \A k \in Jobs \ {j} : jobs'[k] = jobs[k]
    BY DEF Goes, JInv
<1>2. host = "browser"
    BY FillingIsOfBrowser
<1>3. Filling(j)' /\ \A k \in Jobs : Filling(k)' <=> Filling(k)
    BY <1>1 DEF Filling, Working
<1>4. ASSUME Mirrored
      PROVE  Mirrored'
    <2>1. \A k \in Jobs : Filling(k) => k = j
        BY <1>4 DEF Mirrored
    <2>2. place' = PlaceOf(jobs'[j]) /\ Noted(jobs'[j])
        BY <1>1, <1>4
    <2>3. QED
        BY <1>3, <2>1, <2>2 DEF Mirrored, PlaceOf, Noted
<1>5. QED
    BY <1>2, <1>4 DEF DInv

LEMMA FillerEnds ==
    ASSUME JInv, DInv, NEW j \in Jobs, Filling(j), Goes(j, Idle),
           Mirrored => place' = Emptied \/ Whole',
           UNCHANGED <<host, crashes, crowded>>
    PROVE  DInv'
<1>1. jobs'[j] = Idle /\ \A k \in Jobs \ {j} : jobs'[k] = jobs[k]
    BY DEF Goes, JInv
<1>2. host = "browser"
    BY FillingIsOfBrowser
<1>3. ~Filling(j)' /\ \A k \in Jobs \ {j} : Filling(k)' <=> Filling(k)
    BY <1>1 DEF Filling, Working, Idle
<1>4. ASSUME Mirrored
      PROVE  Mirrored'
    <2>1. \A k \in Jobs : ~Filling(k)'
        BY <1>3, <1>4 DEF Mirrored
    <2>2. QED
        BY <1>4, <2>1 DEF Mirrored
<1>5. QED
    BY <1>2, <1>4 DEF DInv

(* What an unbundler created it removes: nothing is left.                  *)
LEMMA CatchEmpties ==
    ASSUME JInv, DInv, NEW j \in Jobs, Working(j), Catch(j), UNCHANGED <<host, crashes>>
    PROVE  DInv'
<1>1. CASE ~Filling(j)
    BY <1>1, CatchSpares, SparedIsKept
<1>2. CASE Filling(j)
    <2> DEFINE old == jobs[j]
    <2>1. Goes(j, Idle) /\ place' = Removed(old) /\ crowded' = crowded
        BY DEF Catch
    <2>2. ASSUME Mirrored
          PROVE  place' = Emptied
        <3>1. /\ place = PlaceOf(old) /\ Noted(old)
              /\ old.kind = "browserUnbundle" /\ old.pc \in {"directory", "next", "fill"}
            BY <1>2, <2>2, FillingIsOfBrowser DEF Mirrored, Filling
        <3>2. /\ place = [made |-> place.made, resources |-> place.resources,
                          intent |-> place.intent, index |-> << >>]
              /\ place.made = old.createdResources /\ place.resources = old.done
              /\ place.intent = IF old.createdIntent THEN "hollow" ELSE "none"
              /\ place.index = << >>
            BY <3>1 DEF PlaceOf
        <3> DEFINE gone == [place EXCEPT
                !.intent = IF old.createdIntent THEN "none" ELSE @,
                !.index = IF old.createdIntent THEN << >> ELSE @,
                !.made = IF old.createdResources THEN FALSE ELSE @,
                !.resources = IF old.createdResources THEN << >> ELSE @]
        <3>3. place' = gone
            BY <2>1, <3>1 DEF Removed
        <3>4. CASE old.createdResources /\ old.createdIntent
            BY <3>2, <3>3, <3>4 DEF Emptied
        <3>5. CASE old.createdResources /\ ~old.createdIntent
            BY <3>2, <3>3, <3>5 DEF Emptied
        <3>6. CASE ~old.createdResources
            <4>1. /\ ~old.createdIntent /\ old.done = << >>
                  /\ old.createdResources = FALSE
                BY <3>1, <3>6 DEF Noted
            <4>2. QED
                BY <3>2, <3>3, <3>6, <4>1 DEF Emptied
        <3>7. QED
            BY <3>4, <3>5, <3>6
    <2>3. QED
        BY <1>2, <2>1, <2>2, FillerEnds
<1>3. QED
    BY <1>1, <1>2

(* Every step of an unbundler, and the failures of any job.                *)
LEMMA UnbundlersMirror ==
    ASSUME JInv, DInv, NEW j \in Jobs, UNCHANGED <<host, crashes>>,
           \/ NodeUnbundle(j) \/ BrowserUnbundle(j) \/ MakeResources(j)
           \/ NodeExtract(j) \/ BrowserExtract(j) \/ NodeVerify(j) \/ BrowserVerify(j)
           \/ MoveWorkspace(j) \/ FillIntent(j) \/ IoFails(j)
    PROVE  DInv'
<1> DEFINE old == jobs[j]
<1>1. CASE Catch(j) /\ Working(j)
    BY <1>1, CatchEmpties
<1>2. CASE NodeUnbundle(j)
    <2>1. /\ ~Filling(j) /\ Goes(j, Unbundling("nodeUnbundle"))
          /\ place' = place /\ crowded' = crowded
        BY <1>2 DEF NodeUnbundle, MayUnbundle, Filling
    <2>2. Unbundling("nodeUnbundle").kind # "browserUnbundle"
        BY DEF Unbundling
    <2>3. QED
        BY <2>1, <2>2, OthersSpare, SparedIsKept
<1>3. ASSUME NodeExtract(j) \/ NodeVerify(j), ~Catch(j)
      PROVE  DInv'
    <2>1. /\ Working(j) /\ old.kind = "nodeUnbundle" /\ ~Filling(j)
          /\ place' = place /\ crowded' = crowded
        BY <1>3 DEF NodeExtract, NodeVerify, At, Working, Filling, files
    <2>2. Unbundler(old)
        BY <2>1, JobKinds DEF UnbundlerOk
    <2>3. \E job : Goes(j, job) /\ job.kind = old.kind
        <3> DEFINE verified == [old EXCEPT !.pc = "move"]
                   took == [old EXCEPT !.pc = "next", !.todo = @ \ {Following(j)},
                                       !.opened = Missing, !.done = With(@, Following(j), Unpacked(j))]
        <3>1. verified.kind = old.kind /\ took.kind = old.kind
            BY <2>2 DEF Unbundler
        <3>2. Goes(j, verified) \/ Goes(j, took)
            BY <1>3 DEF NodeExtract, NodeVerify, Took
        <3> HIDE DEF verified, took
        <3>3. QED
            BY <3>1, <3>2
    <2>4. QED
        BY <2>1, <2>3, OthersSpare, SparedIsKept
<1>4. ASSUME MoveWorkspace(j), ~Catch(j)
      PROVE  DInv'
    <2>1. /\ Working(j) /\ old.kind = "nodeUnbundle" /\ old.pc = "move"
          /\ place' = [made |-> TRUE, resources |-> old.done, intent |-> "full",
                       index |-> old.source.index]
        BY <1>4 DEF MoveWorkspace, At, Working
    <2>2. UnbundlerOk(old)
        BY <2>1, JobKinds
    <2>3. host = "node" /\ old.source.index = old.done
        BY <2>1, <2>2, AllDone DEF UnbundlerOk
    <2>4. Whole'
        BY <2>1, <2>3 DEF Whole
    <2>5. QED
        BY <2>3, <2>4 DEF DInv
<1>5. CASE BrowserUnbundle(j)
    <2> DEFINE fresh == Unbundling("browserUnbundle")
               job == [fresh EXCEPT !.pc = "directory"]
    <2>1. /\ ~Working(j) /\ Goes(j, job) /\ host = "browser" /\ place = Emptied /\ place' = place
          /\ crowded' = (crowded \/ \E k \in Jobs : Filling(k))
        BY <1>5 DEF BrowserUnbundle, MayUnbundle, Filling
    <2>2. /\ fresh.kind = "browserUnbundle" /\ fresh.createdIntent = FALSE
          /\ fresh.done = << >> /\ Unbundler(fresh)
          /\ fresh.createdResources = FALSE
        BY DEF Unbundling, Unbundler
    <2> HIDE DEF fresh
    <2>3. /\ job.kind = "browserUnbundle" /\ job.pc = "directory"
          /\ job.createdResources = FALSE /\ job.createdIntent = FALSE /\ job.done = << >>
        BY <2>2 DEF Unbundler
    <2> HIDE DEF job
    <2>4. jobs'[j] = job /\ \A k \in Jobs \ {j} : jobs'[k] = jobs[k]
        BY <2>1 DEF Goes, JInv
    <2>5. ASSUME ~(\E k \in Jobs : Filling(k))
          PROVE  Mirrored'
        <3>1. Filling(j)' /\ \A k \in Jobs \ {j} : ~Filling(k)'
            BY <2>3, <2>4, <2>5 DEF Filling, Working
        <3>2. place' = PlaceOf(jobs'[j]) /\ Noted(jobs'[j])
            BY <2>1, <2>3, <2>4 DEF PlaceOf, Noted, Emptied
        <3>3. QED
            BY <3>1, <3>2 DEF Mirrored, PlaceOf, Noted
    <2>6. CASE \E k \in Jobs : Filling(k)
        BY <2>1, <2>6 DEF DInv
    <2>7. QED
        BY <2>1, <2>5, <2>6 DEF DInv
<1>6. ASSUME MakeResources(j)
      PROVE  DInv'
    <2> DEFINE made == [old EXCEPT !.pc = "next"]
               job == [made EXCEPT !.createdResources = TRUE]
    <2>1. /\ Filling(j) /\ old.pc = "directory" /\ Goes(j, job)
          /\ place' = [place EXCEPT !.made = TRUE] /\ crowded' = crowded
        BY <1>6 DEF MakeResources, At, Working, Filling
    <2>2. Unbundler(old) /\ old.kind = "browserUnbundle"
        BY <2>1, FillingIsOfBrowser DEF Filling
    <2>3. /\ Unbundler(made) /\ made.kind = old.kind /\ made.pc = "next"
          /\ made.done = old.done /\ made.createdIntent = old.createdIntent
        BY <2>2 DEF Unbundler
    <2> HIDE DEF made
    <2>4. /\ job.kind = old.kind /\ job.pc = "next" /\ job.createdResources = TRUE
          /\ job.done = old.done /\ job.createdIntent = old.createdIntent
        BY <2>3 DEF Unbundler
    <2> HIDE DEF job
    <2>5. ASSUME Mirrored
          PROVE  place' = PlaceOf(job) /\ Noted(job)
        <3>1. place = PlaceOf(old) /\ Noted(old)
            BY <2>1, <2>5 DEF Mirrored
        <3>2. place' = PlaceOf(job)
            BY <2>1, <2>4, <3>1 DEF PlaceOf
        <3>3. job.createdIntent = FALSE
            BY <2>1, <2>4, <3>1 DEF Noted
        <3>4. QED
            BY <2>4, <3>2, <3>3 DEF Noted
    <2>6. QED
        BY <2>1, <2>2, <2>4, <2>5, FillerMoves
<1>7. ASSUME BrowserExtract(j), ~Catch(j)
      PROVE  DInv'
    <2> DEFINE first == [old EXCEPT !.pc = "next"]
               second == [first EXCEPT !.todo = @ \ {Following(j)}]
               third == [second EXCEPT !.opened = Missing]
               job == [third EXCEPT !.done = With(@, Following(j), Unpacked(j))]
    <2>1. /\ Filling(j) /\ old.pc = "next" /\ Goes(j, job)
          /\ place' = [place EXCEPT !.resources = With(@, Following(j), Unpacked(j))]
          /\ crowded' = crowded
        BY <1>7 DEF BrowserExtract, At, Working, Filling, Took
    <2>2. Unbundler(old) /\ old.kind = "browserUnbundle"
        BY <2>1, FillingIsOfBrowser DEF Filling
    <2>3. /\ Unbundler(first) /\ first.kind = old.kind /\ first.pc = "next" /\ first.done = old.done
          /\ first.createdIntent = old.createdIntent /\ first.createdResources = old.createdResources
        BY <2>2 DEF Unbundler
    <2> HIDE DEF first
    <2>4. /\ Unbundler(second) /\ second.kind = old.kind /\ second.pc = "next" /\ second.done = old.done
          /\ second.createdIntent = old.createdIntent /\ second.createdResources = old.createdResources
        BY <2>3 DEF Unbundler
    <2> HIDE DEF second
    <2>5. /\ Unbundler(third) /\ third.kind = old.kind /\ third.pc = "next" /\ third.done = old.done
          /\ third.createdIntent = old.createdIntent /\ third.createdResources = old.createdResources
        BY <2>4 DEF Unbundler
    <2> HIDE DEF third
    <2>6. /\ job.kind = old.kind /\ job.pc = "next"
          /\ job.done = With(old.done, Following(j), Unpacked(j))
          /\ job.createdIntent = old.createdIntent /\ job.createdResources = old.createdResources
        BY <2>5 DEF Unbundler
    <2> HIDE DEF job
    <2>7. ASSUME Mirrored
          PROVE  place' = PlaceOf(job) /\ Noted(job)
        <3>1. place = PlaceOf(old) /\ Noted(old)
            BY <2>1, <2>7 DEF Mirrored
        <3>2. place' = PlaceOf(job)
            BY <2>1, <2>6, <3>1 DEF PlaceOf
        <3>3. job.createdIntent = FALSE /\ job.createdResources = TRUE
            BY <2>1, <2>6, <3>1 DEF Noted
        <3>4. QED
            BY <2>6, <3>2, <3>3 DEF Noted
    <2>8. QED
        BY <2>1, <2>2, <2>6, <2>7, FillerMoves
<1>8. ASSUME BrowserVerify(j), ~Catch(j)
      PROVE  DInv'
    <2> DEFINE read == [old EXCEPT !.pc = "fill"]
               job == [read EXCEPT !.createdIntent = TRUE]
    <2>1. /\ Filling(j) /\ old.pc = "next" /\ Goes(j, job)
          /\ place' = [place EXCEPT !.intent = IF @ = "none" THEN "hollow" ELSE @]
          /\ crowded' = crowded
        BY <1>8 DEF BrowserVerify, At, Working, Filling
    <2>2. Unbundler(old) /\ old.kind = "browserUnbundle"
        BY <2>1, FillingIsOfBrowser DEF Filling
    <2>3. /\ Unbundler(read) /\ read.kind = old.kind /\ read.pc = "fill" /\ read.done = old.done
          /\ read.createdResources = old.createdResources
        BY <2>2 DEF Unbundler
    <2> HIDE DEF read
    <2>4. /\ job.kind = old.kind /\ job.pc = "fill" /\ job.done = old.done
          /\ job.createdIntent = TRUE /\ job.createdResources = old.createdResources
        BY <2>3 DEF Unbundler
    <2> HIDE DEF job
    <2>5. ASSUME Mirrored
          PROVE  place' = PlaceOf(job) /\ Noted(job)
        <3>1. place = PlaceOf(old) /\ Noted(old)
            BY <2>1, <2>5 DEF Mirrored
        <3>2. old.createdIntent = FALSE
            BY <2>1, <3>1 DEF Noted
        <3>3. /\ place = [made |-> old.createdResources, resources |-> old.done,
                          intent |-> "none", index |-> << >>]
            BY <3>1, <3>2 DEF PlaceOf
        <3>4. place' = [made |-> old.createdResources, resources |-> old.done,
                        intent |-> "hollow", index |-> << >>]
            BY <2>1, <3>3
        <3>5. place' = PlaceOf(job)
            BY <2>4, <3>4 DEF PlaceOf
        <3>6. job.createdResources = TRUE
            BY <2>1, <2>4, <3>1 DEF Noted
        <3>7. QED
            BY <2>4, <3>5, <3>6 DEF Noted
    <2>6. QED
        BY <2>1, <2>2, <2>4, <2>5, FillerMoves
<1>9. ASSUME FillIntent(j), ~Catch(j)
      PROVE  DInv'
    <2>1. /\ Filling(j) /\ old.pc = "fill" /\ Goes(j, Idle) /\ crowded' = crowded
          /\ place' = [place EXCEPT !.intent = "full", !.index = old.source.index]
        BY <1>9 DEF FillIntent, At, Working, Filling
    <2>2. old.source.index = old.done
        BY <2>1, FillingIsOfBrowser, AllDone DEF UnbundlerOk
    <2>3. ASSUME Mirrored
          PROVE  Whole'
        <3>1. place = PlaceOf(old) /\ Noted(old)
            BY <2>1, <2>3 DEF Mirrored
        <3>2. place'.made = old.createdResources /\ place'.resources = old.done
              /\ place'.intent = "full" /\ place'.index = old.source.index
            BY <2>1, <3>1 DEF PlaceOf
        <3>3. old.createdResources
            BY <2>1, <3>1 DEF Noted
        <3>4. QED
            BY <2>2, <3>2, <3>3 DEF Whole
    <2>4. QED
        BY <2>1, <2>3, FillerEnds
<1>10. Catch(j) => Working(j) \/ DInv'
    <2>1. ASSUME Catch(j), ~Working(j)
          PROVE  NodeUnbundle(j) \/ BrowserUnbundle(j)
        BY <2>1 DEF MakeResources, NodeExtract, BrowserExtract, NodeVerify, BrowserVerify,
           MoveWorkspace, FillIntent, IoFails, At, Working
    <2>2. QED
        BY <1>2, <1>5, <2>1
<1>11. QED
    BY <1>1, <1>2, <1>3, <1>4, <1>5, <1>6, <1>7, <1>8, <1>9, <1>10 DEF IoFails

(* The session works on beside them.                                       *)
LEMMA SessionSparesPlace ==
    ASSUME JInv, DInv, SessionStep
    PROVE  DInv'
<1>1. UNCHANGED <<host, crashes>>
    BY SessionIsOfOneHost
<1>2. place' = place /\ crowded' = crowded
    BY DEF SessionStep, files
<1>3. ASSUME NEW j \in Jobs
      PROVE  /\ Filling(j)' <=> Filling(j)
             /\ Filling(j) => PlaceOf(jobs'[j]) = PlaceOf(jobs[j]) /\ (Noted(jobs'[j]) <=> Noted(jobs[j]))
    <2>1. CASE jobs'[j] = jobs[j]
        BY <2>1 DEF Filling, Working
    <2>2. CASE jobs'[j] # jobs[j]
        <3>1. Working(j) /\ jobs'[j] = [jobs[j] EXCEPT !.changed = TRUE]
            BY <2>2 DEF SessionStep
        <3>2. CASE BundlerOk(jobs[j])
            <4>1. jobs[j] \in BundlerJobs /\ jobs'[j].kind = jobs[j].kind
                BY <3>1, <3>2 DEF BundlerOk, BundlerJobs
            <4>2. QED
                BY <4>1 DEF Filling, BundlerJobs
        <3>3. CASE UnbundlerOk(jobs[j])
            <4>1. Unbundler(jobs[j])
                BY <3>3 DEF UnbundlerOk
            <4>2. /\ jobs'[j].pc = jobs[j].pc /\ jobs'[j].kind = jobs[j].kind
                  /\ jobs'[j].done = jobs[j].done
                  /\ jobs'[j].createdResources = jobs[j].createdResources
                  /\ jobs'[j].createdIntent = jobs[j].createdIntent
                BY <3>1, <4>1 DEF Unbundler
            <4>3. QED
                BY <4>2 DEF Filling, Working, PlaceOf, Noted
        <3>4. QED
            BY <3>1, <3>2, <3>3 DEF JInv, JobOk, Working, Idle
    <2>3. QED
        BY <2>1, <2>2
<1>4. Whole' <=> Whole
    BY <1>2 DEF Whole
<1>5. ASSUME Mirrored
      PROVE  Mirrored'
    <2>1. \A j, k \in Jobs : Filling(j)' /\ Filling(k)' => j = k
        BY <1>3, <1>5 DEF Mirrored
    <2>2. ASSUME NEW j \in Jobs, Filling(j)'
          PROVE  place' = PlaceOf(jobs'[j]) /\ Noted(jobs'[j])
        BY <1>2, <1>3, <1>5, <2>2 DEF Mirrored
    <2>3. (\A j \in Jobs : ~Filling(j)') => place' = Emptied \/ Whole'
        BY <1>2, <1>3, <1>4, <1>5 DEF Mirrored
    <2>4. QED
        BY <2>1, <2>2, <2>3 DEF Mirrored, PlaceOf, Noted
<1>6. QED
    BY <1>1, <1>2, <1>4, <1>5 DEF DInv

LEMMA DestinationsHold == Spec => []DInv
<1>1. BundlesInit => DInv
    BY DEF BundlesInit, WorkspaceInit, DInv, Mirrored, Filling, Working, Idle
<1>2. JInv /\ DInv /\ [Next]_vars => DInv'
    <2>1. SUFFICES ASSUME JInv, DInv, [Next]_vars
                   PROVE  DInv'
        OBVIOUS
    <2>2. CASE SessionStep
        BY <2>1, <2>2, SessionSparesPlace
    <2>3. CASE Stop
        <3>1. crashes' = crashes + 1 /\ crashes \in Nat /\ place' = place /\ host' = host
            BY <2>1, <2>3 DEF Stop, Crash, files, DInv
        <3>2. QED
            BY <2>1, <3>1 DEF DInv, Whole
    <2>4. ASSUME NEW j \in Jobs, JobStep(j)
          PROVE  DInv'
        <3>1. UNCHANGED <<host, crashes>>
            BY <2>4, JobsStayOutside
        <3>2. QED
            BY <2>1, <2>4, <3>1, BundlersSpare, SparedIsKept, UnbundlersMirror DEF JobStep
    <2>5. CASE UNCHANGED vars
        <3>1. UNCHANGED <<host, crashes, place, crowded, jobs>>
            BY <2>5 DEF vars, workspace, files
        <3>2. QED
            BY <2>1, <3>1 DEF DInv, Mirrored, Filling, Working, PlaceOf, Noted, Whole
    <2>6. QED
        BY <2>1, <2>2, <2>3, <2>4, <2>5 DEF Next
<1>3. QED
    BY <1>1, <1>2, JobsHold, PTL DEF Spec

(* In Node the destination of an unbundler is whole or not there at every  *)
(* moment; in the browser it is once its only unbundler has ended, however *)
(* that went.                                                              *)
THEOREM DestinationsHoldWhole == Spec => []DestinationsAreWhole
<1>1. DInv => DestinationsAreWhole
    BY DEF DInv, Mirrored, Filling, DestinationsAreWhole
<1>2. QED
    BY <1>1, DestinationsHold, PTL
=============================================================================
