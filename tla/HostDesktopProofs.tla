-------------------------- MODULE HostDesktopProofs --------------------------
(***************************************************************************)
(* Proofs about HostDesktop, for any number of workspaces, plugins and     *)
(* instances, and for any sizes of the screen and of the windows.          *)
(*                                                                         *)
(* The handlers build lists step by step (restore an instance for every    *)
(* window, dispose of one after the other), and a list is built by a       *)
(* recursive function.  Along and Iterate say once what holds at the end   *)
(* of such a function if every step keeps it; the operators of the list of *)
(* windows and of the plugin overlay are then described one by one         *)
(* (EnsuredFacts, DisposedFacts, RestoreFacts, DisposalsFacts).            *)
(*                                                                         *)
(* TypeOK is inductive: it says what the registries are (Consistent: the   *)
(* overlay is built from the instances), and with it that the overlay      *)
(* mirrors them.                                                           *)
(*                                                                         *)
(* HostSingletonsStay is not.  A window of a host's singleton is shown     *)
(* again by the next render, so its instance has to be in the registry     *)
(* whenever the restoring effect has seen it (Seen); nothing but a window  *)
(* of a workspace ever disposes of an instance (HostKept).                 *)
(*                                                                         *)
(* DanglingNeedsRace and WallsHold are about handlers that were given a    *)
(* render and run later.  Between two events the desktop and the last      *)
(* render have the windows and the frames in common, except for those the  *)
(* event at hand has touched, and a gesture holds a window of the render   *)
(* (Screen).  A handler then finds what it asks for (Fits), or it is one   *)
(* that runs after another event of the same commit (late).                *)
(***************************************************************************)
EXTENDS HostDesktop, TLAPS, FiniteSetTheorems, WellFoundedInduction
-----------------------------------------------------------------------------
(***************************************************************************)
(* Lists.                                                                  *)
(***************************************************************************)

\* Every non-empty set of natural numbers has a least element.
LEMMA LeastElement ==
  ASSUME NEW T, T \subseteq Nat, T # {}
  PROVE  \E x \in T : \A y \in T : x <= y
<1> DEFINE Less == OpToRel(<, Nat)
<1>1. \E x \in T : \A y \in T : ~(<<y, x>> \in Less)
  BY NatLessThanWellFounded, WFMin
<1>2. \A x, y \in Nat : <<y, x>> \in Less <=> y < x
  BY DEF OpToRel
<1>3. PICK x \in T : \A y \in T : ~(<<y, x>> \in Less)
  BY <1>1
<1>4. ASSUME NEW y \in T PROVE x <= y
  <2>1. x \in Nat /\ y \in Nat
    OBVIOUS
  <2>2. ~(y < x)
    BY <1>2, <1>3, <2>1
  <2>3. QED
    BY <2>1, <2>2
<1>5. QED
  BY <1>4

\* What holds at 0 and goes from each index to the next holds along a list.
LEMMA Along ==
  ASSUME NEW n \in Nat, NEW T, 0 \in T, \A k \in 1..n : k - 1 \in T => k \in T
  PROVE  \A k \in 0..n : k \in T
<1> DEFINE bad == {k \in 0..n : k \notin T}
<1> SUFFICES ASSUME bad # {} PROVE FALSE
  OBVIOUS
<1>1. PICK k \in bad : \A j \in bad : k <= j
  <2>1. bad \subseteq Nat
    OBVIOUS
  <2> QED
    BY <2>1, LeastElement
<1>2. k \in 1..n /\ k - 1 \in 0..n /\ ~(k <= k - 1)
  BY <1>1
<1>3. k - 1 \in T
  BY <1>1, <1>2
<1> QED
  BY <1>1, <1>2, <1>3

\* f goes from the start by a step for each index.
Steps(f, X, start, n, step) ==
  /\ f \in [0..n -> X]
  /\ f[0] = start
  /\ \A k \in 1..n : f[k] = step[<<k, f[k-1]>>]

\* A step can be repeated for every index of a list.
LEMMA Iterate ==
  ASSUME NEW X, NEW start \in X, NEW n \in Nat, NEW step \in [(1..n) \X X -> X]
  PROVE  \E f : Steps(f, X, start, n, step)
<1> DEFINE Upto(f, m) == f[0] = start /\ \A k \in 1..m : f[k] = step[<<k, f[k-1]>>]
           T == {m \in 0..n : \E f \in [0..m -> X] : Upto(f, m)}
<1>1. 0 \in T
  <2> DEFINE f == [k \in 0..0 |-> start]
  <2>1. f \in [0..0 -> X] /\ Upto(f, 0)
    OBVIOUS
  <2>2. 0 \in 0..n
    OBVIOUS
  <2> HIDE DEF f, Upto
  <2> QED
    BY <2>1, <2>2
<1>2. ASSUME NEW m \in 1..n, m - 1 \in T PROVE m \in T
  <2>1. PICK f \in [0..(m-1) -> X] : Upto(f, m - 1)
    BY <1>2
  <2>2. m - 1 \in 0..(m-1) /\ f[m - 1] \in X
    BY <2>1
  <2> DEFINE g == [k \in 0..m |-> IF k = m THEN step[<<m, f[m - 1]>>] ELSE f[k]]
  <2>3. g \in [0..m -> X]
    <3>1. step[<<m, f[m - 1]>>] \in X
      BY <2>2
    <3> QED
      BY <3>1
  <2>4. g[0] = start
    BY <2>1
  <2>5. ASSUME NEW k \in 1..m PROVE g[k] = step[<<k, g[k-1]>>]
    <3>1. k - 1 \in 0..(m-1) /\ k - 1 # m /\ k - 1 \in 0..m /\ k \in 0..m
      OBVIOUS
    <3>2. g[k-1] = f[k-1]
      BY <3>1
    <3>3. CASE k = m
      BY <3>1, <3>2, <3>3
    <3>4. CASE k # m
      <4>1. k \in 1..(m-1)
        BY <3>4
      <4> QED
        BY <2>1, <3>1, <3>2, <3>4, <4>1
    <3> QED
      BY <3>3, <3>4
  <2>6. Upto(g, m)
    BY <2>4, <2>5
  <2> HIDE DEF g, Upto
  <2> QED
    BY <2>3, <2>6
<1>3. n \in T
  <2> HIDE DEF T
  <2>1. \A m \in 0..n : m \in T
    BY <1>1, <1>2, Along
  <2> QED
    BY <2>1
<1> QED
  BY <1>3 DEF Steps

\* The lists that Only() goes through.
Filtering(kept, A, list, S) ==
  /\ kept \in [0..Len(list) -> Seq(A)]
  /\ kept[0] = << >>
  /\ \A k \in 1..Len(list) :
       kept[k] = IF list[k] \in S THEN Append(kept[k-1], list[k]) ELSE kept[k-1]
  /\ Only(list, S) = kept[Len(list)]

LEMMA OnlySteps ==
  ASSUME NEW A, NEW list \in Seq(A), NEW S
  PROVE  \E kept : Filtering(kept, A, list, S)
<1> DEFINE n == Len(list)
           step == [p \in (1..n) \X Seq(A) |->
                      IF list[p[1]] \in S THEN Append(p[2], list[p[1]]) ELSE p[2]]
           Def(f) == f = [k \in 0..n |->
                            IF k = 0 THEN << >>
                            ELSE IF list[k] \in S THEN Append(f[k-1], list[k])
                            ELSE f[k-1]]
           kept == CHOOSE f : Def(f)
<1>0. n \in Nat
  OBVIOUS
<1>1. step \in [(1..n) \X Seq(A) -> Seq(A)]
  <2>1. ASSUME NEW p \in (1..n) \X Seq(A)
        PROVE  (IF list[p[1]] \in S THEN Append(p[2], list[p[1]]) ELSE p[2]) \in Seq(A)
    <3>1. p[1] \in 1..n /\ p[2] \in Seq(A) /\ list[p[1]] \in A
      OBVIOUS
    <3> QED
      BY <3>1
  <2> QED
    BY <2>1
<1>10. PICK f : Steps(f, Seq(A), << >>, n, step)
  <2>1. << >> \in Seq(A)
    OBVIOUS
  <2> HIDE DEF step, n
  <2> QED
    BY <1>0, <1>1, <2>1, Iterate
<1>2. f \in [0..n -> Seq(A)] /\ f[0] = << >> /\ \A k \in 1..n : f[k] = step[<<k, f[k-1]>>]
  BY <1>10 DEF Steps
<1>3. \A k \in 1..n : f[k] = IF list[k] \in S THEN Append(f[k-1], list[k]) ELSE f[k-1]
  <2> TAKE k \in 1..n
  <2>1. k - 1 \in 0..n
    BY <1>0
  <2>2. <<k, f[k-1]>> \in (1..n) \X Seq(A)
    BY <1>2, <2>1
  <2> QED
    BY <1>2, <2>2
<1>4. Def(f)
  <2>1. \A k \in 0..n : f[k] = IF k = 0 THEN << >>
                               ELSE IF list[k] \in S THEN Append(f[k-1], list[k])
                               ELSE f[k-1]
    <3> TAKE k \in 0..n
    <3>1. k = 0 \/ k \in 1..n
      BY <1>0
    <3> QED
      BY <1>2, <1>3, <3>1
  <2> QED
    BY <1>2, <2>1
<1>5. Def(kept)
  <2> HIDE DEF Def
  <2> QED
    BY <1>4
<1>6. Only(list, S) = kept[n]
  BY DEF Only
<1> HIDE DEF kept
<1>7. /\ kept[0] = << >>
      /\ \A k \in 1..n : kept[k] = IF list[k] \in S THEN Append(kept[k-1], list[k]) ELSE kept[k-1]
  <2>1. \A k \in 0..n : kept[k] = IF k = 0 THEN << >>
                                  ELSE IF list[k] \in S THEN Append(kept[k-1], list[k])
                                  ELSE kept[k-1]
    BY <1>5
  <2>2. 0 \in 0..n /\ \A k \in 1..n : k \in 0..n /\ k # 0
    BY <1>0
  <2> QED
    BY <2>1, <2>2
<1>8. \A k \in 0..n : kept[k] \in Seq(A)
  <2> DEFINE T == {k \in 0..n : kept[k] \in Seq(A)}
  <2>1. 0 \in T
    <3>1. << >> \in Seq(A) /\ 0 \in 0..n
      BY <1>0
    <3> QED
      BY <1>7, <3>1
  <2>2. ASSUME NEW k \in 1..n, k - 1 \in T PROVE k \in T
    <3>1. list[k] \in A /\ kept[k-1] \in Seq(A) /\ k \in 0..n
      BY <1>0, <2>2
    <3>2. Append(kept[k-1], list[k]) \in Seq(A)
      BY <3>1
    <3> QED
      BY <1>7, <3>1, <3>2
  <2> HIDE DEF T
  <2>3. \A k \in 0..n : k \in T
    BY <1>0, <2>1, <2>2, Along
  <2> QED
    BY <2>3 DEF T
<1>9. kept \in [0..n -> Seq(A)]
  <2>1. kept = [k \in 0..n |-> kept[k]]
    BY <1>5
  <2> QED
    BY <1>8, <2>1
<1> QED
  BY <1>6, <1>7, <1>9 DEF Filtering

\* Only() keeps the elements that are asked for, and no list gets an element
\* twice by it.
LEMMA OnlyFacts ==
  ASSUME NEW A, NEW list \in Seq(A), NEW S
  PROVE  /\ Only(list, S) \in Seq(A)
         /\ Range(Only(list, S)) = Range(list) \cap S
         /\ (\A j, k \in DOMAIN list : list[j] = list[k] => j = k) =>
              \A j, k \in DOMAIN Only(list, S) :
                Only(list, S)[j] = Only(list, S)[k] => j = k
<1>0. PICK kept : Filtering(kept, A, list, S)
  BY OnlySteps
<1>1. /\ kept \in [0..Len(list) -> Seq(A)]
      /\ kept[0] = << >>
      /\ \A k \in 1..Len(list) :
           kept[k] = IF list[k] \in S THEN Append(kept[k-1], list[k]) ELSE kept[k-1]
      /\ Only(list, S) = kept[Len(list)]
  BY <1>0 DEF Filtering
<1> DEFINE n == Len(list)
           Upto(k) == {list[i] : i \in 1..k}
<1>2. n \in Nat /\ DOMAIN list = 1..n
  OBVIOUS
<1>3. \A k \in 1..n : Upto(k) = Upto(k-1) \cup {list[k]}
  OBVIOUS
<1>4. ASSUME NEW s \in Seq(A), NEW e \in A
      PROVE  /\ Range(Append(s, e)) = Range(s) \cup {e}
             /\ (\A j, k \in DOMAIN s : s[j] = s[k] => j = k) /\ e \notin Range(s) =>
                  \A j, k \in DOMAIN Append(s, e) : Append(s, e)[j] = Append(s, e)[k] => j = k
  <2>1. DOMAIN s = 1..Len(s) /\ DOMAIN Append(s, e) = 1..(Len(s) + 1) /\ Len(s) \in Nat
    OBVIOUS
  <2>2. /\ \A i \in DOMAIN s : Append(s, e)[i] = s[i]
        /\ Append(s, e)[Len(s) + 1] = e
    OBVIOUS
  <2> QED
    BY <2>1, <2>2 DEF Range
<1>5. \A k \in 0..n : Range(kept[k]) = Upto(k) \cap S
  <2> DEFINE T == {k \in 0..n : Range(kept[k]) = Upto(k) \cap S}
  <2>1. 0 \in T
    BY <1>1, <1>2 DEF Range
  <2>2. ASSUME NEW k \in 1..n, k - 1 \in T PROVE k \in T
    <3>1. k \in 0..n /\ list[k] \in A /\ kept[k-1] \in Seq(A) /\ Range(kept[k-1]) = Upto(k-1) \cap S
      <4>1. k \in 0..n /\ k - 1 \in 0..n /\ list[k] \in A
        BY <1>2
      <4>2. kept[k-1] \in Seq(A)
        BY <1>1, <4>1
      <4> HIDE DEF Upto
      <4> QED
        BY <2>2, <4>1, <4>2
    <3> HIDE DEF Upto
    <3>2. CASE list[k] \in S
      <4>1. Range(kept[k]) = Range(kept[k-1]) \cup {list[k]}
        BY <1>1, <1>4, <3>1, <3>2
      <4> QED
        BY <1>3, <3>1, <3>2, <4>1
    <3>3. CASE list[k] \notin S
      BY <1>1, <1>3, <3>1, <3>3
    <3> QED
      BY <3>2, <3>3
  <2> HIDE DEF T
  <2>3. \A k \in 0..n : k \in T
    BY <1>2, <2>1, <2>2, Along
  <2> QED
    BY <2>3 DEF T
<1>6. ASSUME \A j, k \in DOMAIN list : list[j] = list[k] => j = k
      PROVE  \A m \in 0..n : \A j, k \in DOMAIN kept[m] : kept[m][j] = kept[m][k] => j = k
  <2> DEFINE T == {m \in 0..n : \A j, k \in DOMAIN kept[m] : kept[m][j] = kept[m][k] => j = k}
  <2>1. 0 \in T
    BY <1>1, <1>2
  <2>2. ASSUME NEW m \in 1..n, m - 1 \in T PROVE m \in T
    <3>1. m \in 0..n /\ m - 1 \in 0..n /\ list[m] \in A /\ kept[m-1] \in Seq(A)
      <4>1. m \in 0..n /\ m - 1 \in 0..n
        BY <1>2
      <4> QED
        BY <1>1, <1>2, <4>1
    <3>2. list[m] \notin Upto(m-1)
      BY <1>2, <1>6
    <3>3. list[m] \notin Range(kept[m-1])
      BY <1>5, <3>1, <3>2
    <3>4. \A j, k \in DOMAIN kept[m-1] : kept[m-1][j] = kept[m-1][k] => j = k
      BY <2>2
    <3>5. \A j, k \in DOMAIN kept[m] : kept[m][j] = kept[m][k] => j = k
      <4>1. CASE list[m] \in S
        <5>1. kept[m] = Append(kept[m-1], list[m])
          BY <1>1, <4>1
        <5> QED
          BY <1>4, <3>1, <3>3, <3>4, <5>1
      <4>2. CASE list[m] \notin S
        BY <1>1, <3>4, <4>2
      <4> QED
        BY <4>1, <4>2
    <3> QED
      BY <3>1, <3>5
  <2> HIDE DEF T
  <2>3. \A m \in 0..n : m \in T
    BY <1>2, <2>1, <2>2, Along
  <2> QED
    BY <2>3 DEF T
<1>7. Upto(n) = Range(list)
  BY <1>2 DEF Range
<1> QED
  BY <1>1, <1>2, <1>5, <1>6, <1>7
-----------------------------------------------------------------------------
(***************************************************************************)
(* The runtime of the system plugins.                                      *)
(***************************************************************************)

Places == Workspaces \cup {None}

\* The id of a singleton says whose it is, and of which workspace.
InstanceIds ==
  {id \in Plugins \X Places \X Nat :
     IsSingleton(id) => id[3] = 0 /\ (Scope[PluginOf(id)] = "host" => id[2] = None)}

HostSingletons == {id \in InstanceIds : Scope[PluginOf(id)] = "host" /\ IsSingleton(id)}

Instances ==
  {i \in [id : InstanceIds, workspace : Places] : IsSingleton(i.id) => i.workspace = i.id[2]}

Runtimes ==
  [instances : Seq(Instances), singletons : SUBSET [key : Plugins \X Places, id : InstanceIds],
   nodes : SUBSET InstanceIds, uuids : Nat]

Keyed(id) == [key |-> <<id[1], id[2]>>, id |-> id]

\* Instances, keys and nodes belong together, and no UUID comes twice.
Consistent ==
  {r \in Runtimes :
     /\ r.nodes = Ids(r)
     /\ r.singletons = {Keyed(id) : id \in {i \in Ids(r) : IsSingleton(i)}}
     /\ \A j, k \in DOMAIN r.instances : r.instances[j].id = r.instances[k].id => j = k
     /\ \A id \in Ids(r) : id[3] <= r.uuids}

\* An id is a triple.
LEMMA IdShape ==
  ASSUME NEW id \in InstanceIds
  PROVE  /\ id = <<id[1], id[2], id[3]>>
         /\ id[1] \in Plugins /\ id[2] \in Places /\ id[3] \in Nat
         /\ PluginOf(id) = id[1]
         /\ IsSingleton(id) => id[3] = 0 /\ (Scope[id[1]] = "host" => id[2] = None)
BY DEF InstanceIds, PluginOf

\* What ensure() takes for an id is one.
LEMMA EnsuredIdFacts ==
  ASSUME NEW r \in Runtimes, NEW p \in Plugins, NEW w \in Places
  PROVE  LET id == EnsuredId(r, p, w) IN
         /\ id \in InstanceIds
         /\ PluginOf(id) = p
         /\ SingletonKey(p, w) \in Plugins \X Places
         /\ InstancePolicy[p] = "singleton" =>
              id = <<p, SingletonKey(p, w)[2], 0>> /\ SingletonKey(p, w) = <<id[1], id[2]>>
         /\ InstancePolicy[p] # "singleton" => id = <<p, None, r.uuids + 1>>
<1> DEFINE id == EnsuredId(r, p, w)
<1>1. NoWorkspace = None /\ None \in Places
  BY DesktopAssumption DEF Places
<1>2. r.uuids \in Nat
  BY DEF Runtimes
<1>3. /\ SingletonKey(p, w) \in Plugins \X Places
      /\ SingletonKey(p, w) = <<p, SingletonKey(p, w)[2]>>
      /\ Scope[p] = "host" => SingletonKey(p, w)[2] = None
  BY <1>1 DEF SingletonKey
<1>4. CASE InstancePolicy[p] = "singleton"
  <2>1. id = <<p, SingletonKey(p, w)[2], 0>>
    BY <1>4 DEF EnsuredId
  <2>2. id \in Plugins \X Places \X Nat /\ id[1] = p /\ id[2] = SingletonKey(p, w)[2] /\ id[3] = 0
    BY <1>3, <2>1
  <2> HIDE DEF id
  <2>3. id \in InstanceIds
    BY <1>3, <2>2 DEF InstanceIds, PluginOf
  <2> QED
    BY <1>3, <1>4, <2>1, <2>2, <2>3 DEF PluginOf, id
<1>5. CASE InstancePolicy[p] # "singleton"
  <2>1. id = <<p, None, r.uuids + 1>>
    BY <1>1, <1>5 DEF EnsuredId
  <2>2. id \in Plugins \X Places \X Nat /\ id[1] = p
    BY <1>1, <1>2, <2>1
  <2> HIDE DEF id
  <2>3. id \in InstanceIds
    BY <1>5, <2>2 DEF InstanceIds, PluginOf, IsSingleton
  <2> QED
    BY <1>3, <1>5, <2>1, <2>2, <2>3 DEF PluginOf, id
<1> QED
  BY <1>4, <1>5

\* The ids of a list with one instance more.
LEMMA AppendedIds ==
  ASSUME NEW list \in Seq(Instances), NEW i \in Instances, i.id \notin {j.id : j \in Range(list)},
         \A j, k \in DOMAIN list : list[j].id = list[k].id => j = k
  PROVE  LET more == Append(list, i) IN
         /\ more \in Seq(Instances)
         /\ {j.id : j \in Range(more)} = {j.id : j \in Range(list)} \cup {i.id}
         /\ \A j, k \in DOMAIN more : more[j].id = more[k].id => j = k
<1> DEFINE more == Append(list, i)
           n == Len(list)
<1>1. /\ more \in Seq(Instances)
      /\ n \in Nat /\ DOMAIN list = 1..n /\ DOMAIN more = 1..(n + 1)
      /\ \A k \in 1..n : more[k] = list[k]
      /\ more[n + 1] = i
  OBVIOUS
<1>2. Range(more) = Range(list) \cup {i}
  <2> HIDE DEF more, n
  <2>1. \A k \in 1..(n + 1) : k \in 1..n \/ k = n + 1
    BY <1>1
  <2> QED
    BY <1>1, <2>1 DEF Range
<1>3. \A k \in 1..n : list[k].id # i.id
  BY <1>1 DEF Range
<1>4. ASSUME NEW j \in 1..(n + 1), NEW k \in 1..(n + 1), more[j].id = more[k].id PROVE j = k
  <2> HIDE DEF more, n
  <2>1. (j \in 1..n \/ j = n + 1) /\ (k \in 1..n \/ k = n + 1)
    BY <1>1
  <2> QED
    BY <1>1, <1>3, <1>4, <2>1
<1> HIDE DEF more, n
<1>5. {j.id : j \in Range(more)} = {j.id : j \in Range(list)} \cup {i.id}
  BY <1>2
<1> QED
  BY <1>1, <1>4, <1>5 DEF more

\* ensure() adds the instance it returns, unless it is there.
LEMMA EnsuredFacts ==
  ASSUME NEW r \in Consistent, NEW p \in Plugins, NEW w \in Places
  PROVE  /\ Ensured(r, p, w) \in Consistent
         /\ Ids(Ensured(r, p, w)) = Ids(r) \cup {EnsuredId(r, p, w)}
<1> DEFINE id == EnsuredId(r, p, w)
           key == SingletonKey(p, w)
           singleton == InstancePolicy[p] = "singleton"
           instance == [id |-> id, workspace |-> key[2]]
<1>1. r \in Runtimes
  BY DEF Consistent
<1>2. /\ r.instances \in Seq(Instances)
      /\ r.singletons \subseteq [key : Plugins \X Places, id : InstanceIds]
      /\ r.nodes \subseteq InstanceIds /\ r.uuids \in Nat
  BY <1>1 DEF Runtimes
<1>3. /\ r.nodes = Ids(r)
      /\ r.singletons = {Keyed(i) : i \in {j \in Ids(r) : IsSingleton(j)}}
      /\ \A j, k \in DOMAIN r.instances : r.instances[j].id = r.instances[k].id => j = k
      /\ \A i \in Ids(r) : i[3] <= r.uuids
  BY DEF Consistent
<1>4. /\ id \in InstanceIds /\ PluginOf(id) = p /\ id[3] \in Nat
      /\ key \in Plugins \X Places
      /\ singleton => id = <<p, key[2], 0>> /\ key = <<id[1], id[2]>>
      /\ ~singleton => id = <<p, None, r.uuids + 1>>
  BY <1>1, EnsuredIdFacts, IdShape
<1>5. IsSingleton(id) <=> singleton
  BY <1>4 DEF IsSingleton
<1>6. [key |-> key, id |-> id] = Keyed(id) \/ ~singleton
  BY <1>4 DEF Keyed
<1>7. Ids(r) \subseteq InstanceIds
  BY <1>2, <1>3
<1> HIDE DEF id, key
<1>8. CASE singleton /\ [key |-> key, id |-> id] \in r.singletons /\ Live(r, id)
  <2>1. Ensured(r, p, w) = r
    BY <1>8 DEF Ensured, id, key
  <2> QED
    BY <1>8, <2>1 DEF Live, id
<1>9. CASE ~(singleton /\ [key |-> key, id |-> id] \in r.singletons /\ Live(r, id))
  <2> DEFINE new == [instances |-> Append(r.instances, instance),
                     singletons |-> r.singletons \cup IF singleton THEN {[key |-> key, id |-> id]} ELSE {},
                     nodes |-> r.nodes \cup {id},
                     uuids |-> r.uuids + IF singleton THEN 0 ELSE 1]
  <2>1. Ensured(r, p, w) = new
    BY <1>9 DEF Ensured, id, key
  <2>2. id \notin Ids(r)
    <3>1. CASE singleton
      BY <1>3, <1>5, <1>6, <1>9, <3>1 DEF Live
    <3>2. CASE ~singleton
      <4>1. id[3] = r.uuids + 1
        BY <1>4, <3>2
      <4> QED
        BY <1>2, <1>3, <4>1
    <3> QED
      BY <3>1, <3>2
  <2>3. instance \in Instances
    <3>1. key[2] \in Places /\ (singleton => key[2] = id[2])
      BY <1>4
    <3> QED
      BY <1>4, <1>5, <3>1 DEF Instances
  <2>4. /\ new.instances \in Seq(Instances)
        /\ Ids(new) = Ids(r) \cup {id}
        /\ \A j, k \in DOMAIN new.instances : new.instances[j].id = new.instances[k].id => j = k
    <3>1. instance.id = id
      OBVIOUS
    <3> HIDE DEF instance
    <3> QED
      BY <1>2, <1>3, <2>2, <2>3, <3>1, AppendedIds DEF Ids
  <2>5. new.singletons = r.singletons \cup IF singleton THEN {Keyed(id)} ELSE {}
    BY <1>6
  <2>6. new.singletons = {Keyed(i) : i \in {j \in Ids(new) : IsSingleton(j)}}
    <3> HIDE DEF new
    <3> QED
      BY <1>3, <1>5, <2>4, <2>5
  <2>7. new.nodes = Ids(new)
    BY <1>3, <2>4
  <2>8. \A i \in Ids(new) : i[3] <= new.uuids
    <3>1. \A i \in Ids(r) : i[3] \in Nat
      BY <1>7, IdShape
    <3>2. id[3] <= new.uuids
      <4>1. CASE singleton
        BY <1>2, <1>4, <4>1
      <4>2. CASE ~singleton
        BY <1>2, <1>4, <4>2
      <4> QED
        BY <4>1, <4>2
    <3>3. r.uuids <= new.uuids /\ new.uuids \in Nat
      BY <1>2
    <3> HIDE DEF new
    <3> QED
      BY <1>2, <1>3, <2>4, <3>1, <3>2, <3>3
  <2>9. new \in Runtimes
    <3>1. new.singletons \subseteq [key : Plugins \X Places, id : InstanceIds]
      BY <1>2, <1>4
    <3>2. new.uuids \in Nat
      BY <1>2
    <3> QED
      BY <1>2, <1>4, <2>4, <3>1, <3>2 DEF Runtimes
  <2> HIDE DEF new
  <2>10. new \in Consistent
    BY <2>4, <2>6, <2>7, <2>8, <2>9 DEF Consistent
  <2> QED
    BY <2>1, <2>4, <2>10 DEF id
<1> QED
  BY <1>8, <1>9

\* A disposal takes its ids out of every part of the runtime.
LEMMA DisposedFacts ==
  ASSUME NEW r \in Consistent, NEW ids
  PROVE  /\ Disposed(r, ids) \in Consistent
         /\ Ids(Disposed(r, ids)) = Ids(r) \ ids
<1> DEFINE kept == {i \in Range(r.instances) : i.id \notin ids}
           left == Only(r.instances, kept)
           new == Disposed(r, ids)
<1>1. r \in Runtimes
  BY DEF Consistent
<1>2. /\ r.instances \in Seq(Instances)
      /\ r.singletons \subseteq [key : Plugins \X Places, id : InstanceIds]
      /\ r.nodes \subseteq InstanceIds /\ r.uuids \in Nat
  BY <1>1 DEF Runtimes
<1>3. /\ r.nodes = Ids(r)
      /\ r.singletons = {Keyed(i) : i \in {j \in Ids(r) : IsSingleton(j)}}
      /\ \A j, k \in DOMAIN r.instances : r.instances[j].id = r.instances[k].id => j = k
      /\ \A i \in Ids(r) : i[3] <= r.uuids
  BY DEF Consistent
<1>4. /\ new.instances = left
      /\ new.singletons = {s \in r.singletons : s.id \notin ids}
      /\ new.nodes = r.nodes \ ids
      /\ new.uuids = r.uuids
  BY <1>1 DEF Disposed, Runtimes
<1>5. /\ left \in Seq(Instances)
      /\ Range(left) = Range(r.instances) \cap kept
      /\ \A j, k \in DOMAIN left : left[j] = left[k] => j = k
  <2> HIDE DEF kept
  <2>1. \A j, k \in DOMAIN r.instances : r.instances[j] = r.instances[k] => j = k
    BY <1>3
  <2> QED
    BY <1>2, <2>1, OnlyFacts
<1> HIDE DEF left
<1>6. Ids(new) = Ids(r) \ ids
  BY <1>4, <1>5 DEF Ids
<1>7. \A i, j \in Range(r.instances) : i.id = j.id => i = j
  BY <1>3 DEF Range
<1>8. \A j, k \in DOMAIN left : left[j].id = left[k].id => j = k
  <2>1. \A j \in DOMAIN left : left[j] \in Range(r.instances)
    BY <1>5 DEF Range
  <2> QED
    BY <1>5, <1>7, <2>1
<1>9. new \in Runtimes
  <2>1. r = [instances |-> r.instances, singletons |-> r.singletons, nodes |-> r.nodes, uuids |-> r.uuids]
    BY <1>1 DEF Runtimes
  <2>2. new = [r EXCEPT !.instances = left, !.singletons = {s \in @ : s.id \notin ids}, !.nodes = @ \ ids]
    BY DEF Disposed, left
  <2> HIDE DEF new
  <2>3. new = [instances |-> left, singletons |-> {s \in r.singletons : s.id \notin ids},
               nodes |-> r.nodes \ ids, uuids |-> r.uuids]
    BY <2>1, <2>2
  <2> QED
    BY <1>2, <1>5, <2>3 DEF Runtimes
<1>10. new.singletons = {Keyed(i) : i \in {j \in Ids(new) : IsSingleton(j)}}
  <2>1. \A i : Keyed(i).id = i
    BY DEF Keyed
  <2> HIDE DEF new
  <2> QED
    BY <1>3, <1>4, <1>6, <2>1
<1> HIDE DEF new
<1>11. new \in Consistent
  BY <1>3, <1>4, <1>6, <1>8, <1>9, <1>10 DEF Consistent
<1> QED
  BY <1>6, <1>11 DEF new

\* A window that is restored has its instance, if it is one of the host's
\* singletons: those have no other id.
LEMMA RestoredFacts ==
  ASSUME NEW r \in Consistent, NEW id \in InstanceIds, NEW w \in Places
  PROVE  /\ Restored(r, id, w) \in Consistent
         /\ Ids(r) \subseteq Ids(Restored(r, id, w))
         /\ id \in HostSingletons => id \in Ids(Restored(r, id, w))
<1>1. CASE Live(r, id)
  BY <1>1 DEF Restored, Live
<1>2. CASE ~Live(r, id)
  <2> DEFINE p == PluginOf(id)
  <2>1. p \in Plugins /\ id = <<p, id[2], id[3]>>
    BY IdShape
  <2>2. Restored(r, id, w) = Ensured(r, p, w)
    BY <1>2 DEF Restored
  <2>3. r \in Runtimes
    BY DEF Consistent
  <2>4. id \in HostSingletons => EnsuredId(r, p, w) = id
    <3> SUFFICES ASSUME id \in HostSingletons PROVE EnsuredId(r, p, w) = id
      OBVIOUS
    <3>1. InstancePolicy[p] = "singleton" /\ Scope[p] = "host"
      BY DEF HostSingletons, IsSingleton
    <3>2. id = <<p, None, 0>>
      BY <2>1, <3>1, IdShape DEF IsSingleton
    <3>3. SingletonKey(p, w)[2] = None
      BY <3>1, DesktopAssumption DEF SingletonKey
    <3> QED
      BY <3>1, <3>2, <3>3 DEF EnsuredId
  <2> HIDE DEF p
  <2> QED
    BY <2>1, <2>2, <2>4, EnsuredFacts
<1> QED
  BY <1>1, <1>2

\* The runtimes that AllRestored() goes through.
Restoring(f, r, ids, w) ==
  /\ f[0] = r
  /\ \A k \in 1..Len(ids) : f[k] = Restored(f[k-1], ids[k], w)
  /\ AllRestored(r, ids, w) = f[Len(ids)]

LEMMA RestoringExists ==
  ASSUME NEW r \in Consistent, NEW ids \in Seq(InstanceIds), NEW w \in Places
  PROVE  \E f : Restoring(f, r, ids, w)
<1> DEFINE n == Len(ids)
           step == [p \in (1..n) \X Consistent |-> Restored(p[2], ids[p[1]], w)]
           Def(f) == f = [k \in 0..n |-> IF k = 0 THEN r ELSE Restored(f[k-1], ids[k], w)]
           restored == CHOOSE f : Def(f)
<1>1. n \in Nat /\ \A k \in 1..n : ids[k] \in InstanceIds
  OBVIOUS
<1>2. step \in [(1..n) \X Consistent -> Consistent]
  <2>1. ASSUME NEW p \in (1..n) \X Consistent PROVE Restored(p[2], ids[p[1]], w) \in Consistent
    <3>1. p[2] \in Consistent /\ ids[p[1]] \in InstanceIds
      BY <1>1
    <3> QED
      BY <3>1, RestoredFacts
  <2> QED
    BY <2>1
<1>3. PICK f : Steps(f, Consistent, r, n, step)
  <2> HIDE DEF step, n
  <2> QED
    BY <1>1, <1>2, Iterate
<1>4. f \in [0..n -> Consistent] /\ f[0] = r /\ \A k \in 1..n : f[k] = step[<<k, f[k-1]>>]
  BY <1>3 DEF Steps
<1>5. \A k \in 1..n : f[k] = Restored(f[k-1], ids[k], w)
  <2> TAKE k \in 1..n
  <2>1. k - 1 \in 0..n
    BY <1>1
  <2>2. <<k, f[k-1]>> \in (1..n) \X Consistent
    BY <1>4, <2>1
  <2> QED
    BY <1>4, <2>2
<1>6. Def(f)
  <2>1. \A k \in 0..n : f[k] = IF k = 0 THEN r ELSE Restored(f[k-1], ids[k], w)
    <3> TAKE k \in 0..n
    <3>1. k = 0 \/ k \in 1..n
      BY <1>1
    <3> QED
      BY <1>4, <1>5, <3>1
  <2> QED
    BY <1>4, <2>1
<1>7. Def(restored)
  <2> HIDE DEF Def
  <2> QED
    BY <1>6
<1>8. AllRestored(r, ids, w) = restored[n]
  BY DEF AllRestored
<1> HIDE DEF restored
<1>9. restored[0] = r /\ \A k \in 1..n : restored[k] = Restored(restored[k-1], ids[k], w)
  <2>1. \A k \in 0..n : restored[k] = IF k = 0 THEN r ELSE Restored(restored[k-1], ids[k], w)
    BY <1>7
  <2>2. 0 \in 0..n /\ \A k \in 1..n : k \in 0..n /\ k # 0
    BY <1>1
  <2> QED
    BY <2>1, <2>2
<1> QED
  BY <1>8, <1>9 DEF Restoring

\* Restoring a list of windows loses no instance, and leaves none of the
\* host's singletons without its own.
LEMMA AllRestoredFacts ==
  ASSUME NEW r \in Consistent, NEW ids \in Seq(InstanceIds), NEW w \in Places
  PROVE  LET s == AllRestored(r, ids, w) IN
         /\ s \in Consistent
         /\ Ids(r) \subseteq Ids(s)
         /\ Range(ids) \cap HostSingletons \subseteq Ids(s)
<1> DEFINE n == Len(ids)
<1>1. PICK f : Restoring(f, r, ids, w)
  BY RestoringExists
<1>2. /\ f[0] = r
      /\ \A k \in 1..n : f[k] = Restored(f[k-1], ids[k], w)
      /\ AllRestored(r, ids, w) = f[n]
  BY <1>1 DEF Restoring
<1>3. n \in Nat /\ DOMAIN ids = 1..n /\ \A k \in 1..n : ids[k] \in InstanceIds
  OBVIOUS
<1> DEFINE Seen(k) == {ids[j] : j \in 1..k}
           T == {k \in 0..n : /\ f[k] \in Consistent
                              /\ Ids(r) \subseteq Ids(f[k])
                              /\ Seen(k) \cap HostSingletons \subseteq Ids(f[k])}
<1>4. 0 \in T
  BY <1>2, <1>3
<1>5. ASSUME NEW k \in 1..n, k - 1 \in T PROVE k \in T
  <2>1. f[k-1] \in Consistent /\ Ids(r) \subseteq Ids(f[k-1])
        /\ Seen(k-1) \cap HostSingletons \subseteq Ids(f[k-1])
    BY <1>5
  <2>2. /\ f[k] \in Consistent
        /\ Ids(f[k-1]) \subseteq Ids(f[k])
        /\ ids[k] \in HostSingletons => ids[k] \in Ids(f[k])
    BY <1>2, <1>3, <2>1, RestoredFacts
  <2>3. Seen(k) = Seen(k-1) \cup {ids[k]} /\ k \in 0..n
    BY <1>3
  <2> HIDE DEF Seen
  <2> QED
    BY <2>1, <2>2, <2>3
<1>6. n \in T
  <2> HIDE DEF T
  <2>1. \A k \in 0..n : k \in T
    BY <1>3, <1>4, <1>5, Along
  <2> QED
    BY <1>3, <2>1
<1>7. Seen(n) = Range(ids)
  BY <1>3 DEF Range
<1> QED
  BY <1>2, <1>6, <1>7

\* The system windows of a desktop can be listed.
LEMMA ListedWindows ==
  ASSUME NEW S, IsFiniteSet(S)
  PROVE  SetToSeq(S) \in Seq(S) /\ Range(SetToSeq(S)) = S
<1> DEFINE n == Cardinality(S)
           s == SetToSeq(S)
<1>1. n \in Nat /\ \E f : f \in Bijection(1..n, S)
  <2>1. n \in Nat /\ ExistsBijection(1..n, S)
    BY FS_CardinalityType
  <2> QED
    BY <2>1 DEF ExistsBijection
<1>2. PICK f : f \in Bijection(1..n, S)
  BY <1>1
<1>3. f \in [1..n -> S] /\ IsInjective(f)
  BY <1>2 DEF Bijection, Injection, IsInjective
<1>4. s \in [1..n -> S] /\ IsInjective(s)
  <2> HIDE DEF n
  <2> QED
    BY <1>3 DEF SetToSeq, n
<1> HIDE DEF s
<1>5. s \in Seq(S)
  BY <1>1, <1>4
<1>6. Range(s) = S
  <2>1. s \in Injection(1..n, S)
    BY <1>4 DEF Injection
  <2>2. Cardinality(1..n) = n
    BY <1>1, FS_Interval
  <2>3. s \in Surjection(1..n, S)
    BY <2>1, <2>2, FS_Injection
  <2> QED
    BY <1>4, <2>3 DEF Surjection, Range
<1> QED
  BY <1>5, <1>6 DEF s

\* The parts of a render that Restore() reads.
Readable(render) ==
  /\ render.open \in Seq(Workspaces)
  /\ render.views \in [Workspaces -> Seq(InstanceIds)]
  /\ DOMAIN render.desktop.systems \subseteq InstanceIds
  /\ IsFiniteSet(DOMAIN render.desktop.systems)

\* The runtimes that Restore() goes through.
Rounds(f, r, render) ==
  /\ f[0] = r
  /\ \A k \in 1..Len(render.open) :
       f[k] = AllRestored(f[k-1], render.views[render.open[k]], render.open[k])
  /\ Restore(r, render) =
       AllRestored(f[Len(render.open)], SetToSeq(DOMAIN render.desktop.systems), NoWorkspace)

LEMMA RoundsExist ==
  ASSUME NEW r \in Consistent, NEW render, Readable(render)
  PROVE  \E f : Rounds(f, r, render)
<1> DEFINE tabs == render.open
           n == Len(tabs)
           Round(s, k) == AllRestored(s, render.views[tabs[k]], tabs[k])
           step == [p \in (1..n) \X Consistent |-> Round(p[2], p[1])]
           Def(f) == f = [k \in 0..n |-> IF k = 0 THEN r ELSE Round(f[k-1], k)]
           restored == CHOOSE f : Def(f)
<1>1. /\ n \in Nat
      /\ \A k \in 1..n : tabs[k] \in Places /\ render.views[tabs[k]] \in Seq(InstanceIds)
  BY DEF Readable, Places
<1>2. step \in [(1..n) \X Consistent -> Consistent]
  <2>1. ASSUME NEW p \in (1..n) \X Consistent PROVE Round(p[2], p[1]) \in Consistent
    <3>1. /\ p[2] \in Consistent
          /\ tabs[p[1]] \in Places /\ render.views[tabs[p[1]]] \in Seq(InstanceIds)
      BY <1>1
    <3> QED
      BY <3>1, AllRestoredFacts
  <2> HIDE DEF Round
  <2> QED
    BY <2>1
<1>3. PICK f : Steps(f, Consistent, r, n, step)
  <2> HIDE DEF step, n
  <2> QED
    BY <1>1, <1>2, Iterate
<1>4. f \in [0..n -> Consistent] /\ f[0] = r /\ \A k \in 1..n : f[k] = step[<<k, f[k-1]>>]
  BY <1>3 DEF Steps
<1> HIDE DEF Round
<1>5. \A k \in 1..n : f[k] = Round(f[k-1], k)
  <2> TAKE k \in 1..n
  <2>1. k - 1 \in 0..n
    BY <1>1
  <2>2. <<k, f[k-1]>> \in (1..n) \X Consistent
    BY <1>4, <2>1
  <2> QED
    BY <1>4, <2>2
<1>6. Def(f)
  <2>1. \A k \in 0..n : f[k] = IF k = 0 THEN r ELSE Round(f[k-1], k)
    <3> TAKE k \in 0..n
    <3>1. k = 0 \/ k \in 1..n
      BY <1>1
    <3> QED
      BY <1>4, <1>5, <3>1
  <2> QED
    BY <1>4, <2>1
<1>7. Def(restored)
  <2> HIDE DEF Def
  <2> QED
    BY <1>6
<1>8. Restore(r, render) =
        AllRestored(restored[n], SetToSeq(DOMAIN render.desktop.systems), NoWorkspace)
  BY DEF Restore, Round
<1> HIDE DEF restored
<1>9. restored[0] = r /\ \A k \in 1..n : restored[k] = Round(restored[k-1], k)
  <2>1. \A k \in 0..n : restored[k] = IF k = 0 THEN r ELSE Round(restored[k-1], k)
    BY <1>7
  <2>2. 0 \in 0..n /\ \A k \in 1..n : k \in 0..n /\ k # 0
    BY <1>1
  <2> QED
    BY <2>1, <2>2
<1> QED
  BY <1>8, <1>9 DEF Rounds, Round

\* So does the effect of a render, for all its windows.
LEMMA RestoreFacts ==
  ASSUME NEW r \in Consistent, NEW render, Readable(render)
  PROVE  /\ Restore(r, render) \in Consistent
         /\ Ids(r) \subseteq Ids(Restore(r, render))
         /\ Windows(render) \cap HostSingletons \subseteq Ids(Restore(r, render))
<1> DEFINE tabs == render.open
           n == Len(tabs)
           systems == DOMAIN render.desktop.systems
<1>1. PICK f : Rounds(f, r, render)
  BY RoundsExist
<1>2. /\ f[0] = r
      /\ \A k \in 1..n : f[k] = AllRestored(f[k-1], render.views[tabs[k]], tabs[k])
      /\ Restore(r, render) = AllRestored(f[n], SetToSeq(systems), NoWorkspace)
  BY <1>1 DEF Rounds
<1>3. /\ n \in Nat /\ DOMAIN tabs = 1..n
      /\ \A k \in 1..n : tabs[k] \in Places /\ render.views[tabs[k]] \in Seq(InstanceIds)
  BY DEF Readable, Places
<1> DEFINE Of(k) == Range(render.views[tabs[k]])
           Seen(k) == UNION {Of(j) : j \in 1..k}
           T == {k \in 0..n : /\ f[k] \in Consistent
                              /\ Ids(r) \subseteq Ids(f[k])
                              /\ Seen(k) \cap HostSingletons \subseteq Ids(f[k])}
<1> HIDE DEF Of
<1>4. 0 \in T
  BY <1>2, <1>3
<1>5. ASSUME NEW k \in 1..n, k - 1 \in T PROVE k \in T
  <2>1. f[k-1] \in Consistent /\ Ids(r) \subseteq Ids(f[k-1])
        /\ Seen(k-1) \cap HostSingletons \subseteq Ids(f[k-1])
    BY <1>5
  <2>2. /\ f[k] \in Consistent
        /\ Ids(f[k-1]) \subseteq Ids(f[k])
        /\ Of(k) \cap HostSingletons \subseteq Ids(f[k])
    BY <1>2, <1>3, <2>1, AllRestoredFacts DEF Of
  <2>3. Seen(k) = Seen(k-1) \cup Of(k) /\ k \in 0..n
    BY <1>3
  <2> HIDE DEF Seen
  <2> QED
    BY <2>1, <2>2, <2>3
<1>6. n \in T
  <2> HIDE DEF T
  <2>1. \A k \in 0..n : k \in T
    BY <1>3, <1>4, <1>5, Along
  <2> QED
    BY <1>3, <2>1
<1>7. Seen(n) = UNION {Range(render.views[w]) : w \in Range(tabs)}
  <2>1. {Of(j) : j \in 1..n} = {Range(render.views[w]) : w \in {tabs[j] : j \in 1..n}}
    BY DEF Of
  <2>2. Range(tabs) = {tabs[j] : j \in 1..n}
    BY <1>3 DEF Range
  <2> HIDE DEF n, tabs
  <2> QED
    BY <2>1, <2>2
<1>8. SetToSeq(systems) \in Seq(InstanceIds) /\ Range(SetToSeq(systems)) = systems
  <2>1. SetToSeq(systems) \in Seq(systems) /\ Range(SetToSeq(systems)) = systems
    BY ListedWindows DEF Readable
  <2>2. systems \subseteq InstanceIds
    BY DEF Readable
  <2> HIDE DEF systems
  <2> QED
    BY <2>1, <2>2
<1>9. NoWorkspace \in Places
  BY DesktopAssumption DEF Places
<1>10. /\ Restore(r, render) \in Consistent
       /\ Ids(f[n]) \subseteq Ids(Restore(r, render))
       /\ systems \cap HostSingletons \subseteq Ids(Restore(r, render))
  <2>1. f[n] \in Consistent
    BY <1>6
  <2> HIDE DEF systems
  <2> QED
    BY <1>2, <1>8, <1>9, <2>1, AllRestoredFacts
<1>11. Windows(render) = Seen(n) \cup systems
  <2>1. Windows(render) = (UNION {Range(render.views[w]) : w \in Range(tabs)}) \cup systems
    BY DEF Windows
  <2> HIDE DEF Seen, tabs, systems, n
  <2> QED
    BY <1>7, <2>1
<1>12. Ids(r) \subseteq Ids(f[n]) /\ Seen(n) \cap HostSingletons \subseteq Ids(f[n])
  BY <1>6
<1> HIDE DEF Seen, systems
<1> QED
  BY <1>10, <1>11, <1>12

\* A window that closes takes no singleton with it.
LEMMA ReleasesFacts ==
  ASSUME NEW r \in Consistent, NEW ids \in Seq(InstanceIds)
  PROVE  /\ Releases(r, ids) \in Seq(InstanceIds)
         /\ Range(Releases(r, ids)) \cap HostSingletons = {}
<1> DEFINE S == {id \in Ids(r) : ~IsSingleton(id)}
<1>1. Releases(r, ids) = Only(ids, S)
  BY DEF Releases
<1>2. S \cap HostSingletons = {}
  BY DEF HostSingletons
<1> HIDE DEF S
<1> QED
  BY <1>1, <1>2, OnlyFacts

\* A workspace that closes takes none of the host's with it.
LEMMA DisposalsFacts ==
  ASSUME NEW r \in Consistent, NEW ids \in Seq(InstanceIds), NEW w \in Workspaces, NEW failing
  PROVE  /\ Range(Disposals(r, ids, w)) \cap HostSingletons = {}
         /\ Range(UpToFailure(Disposals(r, ids, w), failing)) \cap HostSingletons = {}
<1> DEFINE released == Releases(r, ids)
           S == {i \in Range(r.instances) : i.workspace = w /\ i.id \notin Range(released)}
           scoped == Only(r.instances, S)
           own == [k \in DOMAIN scoped |-> scoped[k].id]
           all == released \o own
<1>1. Disposals(r, ids, w) = all
  BY DEF Disposals
<1>2. r.instances \in Seq(Instances)
  BY DEF Consistent, Runtimes
<1>3. scoped \in Seq(Instances) /\ Range(scoped) \subseteq S
  <2> HIDE DEF S
  <2> QED
    BY <1>2, OnlyFacts
<1>4. released \in Seq(InstanceIds) /\ Range(released) \cap HostSingletons = {}
  BY ReleasesFacts
<1>5. \A i \in S : i \in Instances => i.id \in InstanceIds /\ i.id \notin HostSingletons
  <2> SUFFICES ASSUME NEW i \in S, i \in Instances, i.id \in HostSingletons PROVE FALSE
    BY DEF Instances
  <2>1. i.workspace = w /\ IsSingleton(i.id) /\ i.id[2] = None
    BY IdShape DEF Instances, HostSingletons, PluginOf
  <2>2. w = None
    BY <2>1 DEF Instances
  <2> QED
    BY <2>2, DesktopAssumption
<1> HIDE DEF scoped
<1>6. \A k \in DOMAIN scoped : scoped[k] \in Instances /\ scoped[k] \in S
  BY <1>3 DEF Range
<1>7. own \in Seq(InstanceIds) /\ \A k \in DOMAIN own : own[k] \notin HostSingletons
  <2>1. DOMAIN scoped = 1..Len(scoped) /\ Len(scoped) \in Nat
    BY <1>3
  <2> HIDE DEF S
  <2> QED
    BY <1>5, <1>6, <2>1
<1> HIDE DEF own, released
<1>8. all \in Seq(InstanceIds) /\ \A k \in DOMAIN all : all[k] \notin HostSingletons
  <2>1. \A k \in DOMAIN released : released[k] \notin HostSingletons
    BY <1>4 DEF Range
  <2> QED
    BY <1>4, <1>7, <2>1
<1> HIDE DEF all
<1>9. \A k \in DOMAIN UpToFailure(all, failing) : UpToFailure(all, failing)[k] \notin HostSingletons
  <2> DEFINE bad == {k \in DOMAIN all : all[k] = failing}
             first == CHOOSE k \in bad : \A j \in bad : k <= j
  <2>1. CASE bad = {}
    BY <1>8, <2>1 DEF UpToFailure
  <2>2. CASE bad # {}
    <3>1. bad \subseteq Nat /\ bad \subseteq 1..Len(all) /\ Len(all) \in Nat
      BY <1>8
    <3>2. first \in bad
      <4>1. \E k \in bad : \A j \in bad : k <= j
        <5> HIDE DEF bad
        <5> QED
          BY <2>2, <3>1, LeastElement
      <4> HIDE DEF bad
      <4> QED
        BY <4>1
    <3>3. UpToFailure(all, failing) = SubSeq(all, 1, first)
      BY <2>2 DEF UpToFailure
    <3> HIDE DEF first
    <3>4. first \in 1..Len(all)
      BY <3>1, <3>2
    <3> QED
      BY <1>8, <3>3, <3>4
  <2> QED
    BY <2>1, <2>2
<1> QED
  BY <1>1, <1>8, <1>9 DEF Range
-----------------------------------------------------------------------------
(***************************************************************************)
(* The layout of the desktop.                                              *)
(***************************************************************************)

Cameras == [scale : Nat \ {0}, x : Int]
Frames == [x : Int, size : MinSize..MaxSize]
Layouts(S) == UNION {[D -> Frames] : D \in SUBSET S}
WindowIds == Workspaces \cup InstanceIds

\* Only windows of workspaces may stand over the right wall.
Desktops ==
  {d \in [workspaces : Layouts(Workspaces), systems : Layouts(InstanceIds), camera : Cameras,
          active : WindowIds \cup {None}, front : WindowIds \cup {None},
          viewport : Viewports] :
     /\ IsFiniteSet(DOMAIN d.systems)
     /\ \A id \in DOMAIN d.systems : d.systems[id].x + d.systems[id].size <= World}

LEMMA Sizes ==
  /\ World \in Nat /\ MinSize \in Nat /\ MaxSize \in Nat /\ DefaultSize \in Nat /\ Margin \in Nat
  /\ 0 < MinSize /\ MinSize <= DefaultSize /\ DefaultSize <= MaxSize /\ MaxSize <= World
BY SizesFit

LEMMA MaxOfTwo ==
  ASSUME NEW a \in Int, NEW b \in Int
  PROVE  Max({a, b}) = IF a >= b THEN a ELSE b
<1> DEFINE m == IF a >= b THEN a ELSE b
<1>1. m \in {a, b} /\ \A y \in {a, b} : m >= y
  OBVIOUS
<1>2. \A x \in {a, b} : (\A y \in {a, b} : x >= y) => x = m
  OBVIOUS
<1> HIDE DEF m
<1>3. Max({a, b}) = m
  BY <1>1, <1>2 DEF Max
<1> QED
  BY <1>3 DEF m

LEMMA MinOfTwo ==
  ASSUME NEW a \in Int, NEW b \in Int
  PROVE  Min({a, b}) = IF a <= b THEN a ELSE b
<1> DEFINE m == IF a <= b THEN a ELSE b
<1>1. m \in {a, b} /\ \A y \in {a, b} : m <= y
  OBVIOUS
<1>2. \A x \in {a, b} : (\A y \in {a, b} : x <= y) => x = m
  OBVIOUS
<1> HIDE DEF m
<1>3. Min({a, b}) = m
  BY <1>1, <1>2 DEF Min
<1> QED
  BY <1>3 DEF m

\* A value is brought between two bounds; the lower one wins.
LEMMA ClampFacts ==
  ASSUME NEW value \in Int, NEW low \in Int, NEW high \in Int
  PROVE  /\ Clamp(value, low, high) \in Int
         /\ low <= Clamp(value, low, high)
         /\ Clamp(value, low, high) <= high \/ Clamp(value, low, high) = low
         /\ low <= value => Clamp(value, low, high) <= value
<1> DEFINE m == Min({high, value})
<1>1. m = IF high <= value THEN high ELSE value
  BY MinOfTwo
<1>2. m \in Int
  BY <1>1
<1>3. Clamp(value, low, high) = IF low >= m THEN low ELSE m
  BY <1>2, MaxOfTwo DEF Clamp
<1> HIDE DEF m
<1> QED
  BY <1>1, <1>2, <1>3

LEMMA Quotient ==
  ASSUME NEW a \in Int, NEW b \in Nat \ {0}
  PROVE  a \div b \in Int
OBVIOUS

LEMMA CenteredFrameFacts ==
  ASSUME NEW point \in Int, NEW size \in MinSize..MaxSize
  PROVE  /\ CenteredFrame(point, size) \in Frames
         /\ CenteredFrame(point, size).x + CenteredFrame(point, size).size <= World
<1> DEFINE x == Clamp(point - size \div 2, 0, World - size)
<1>1. size \in Nat /\ size <= World /\ World - size \in Int /\ 0 <= World - size
  BY Sizes
<1>2. point - size \div 2 \in Int
  BY <1>1, Quotient
<1>3. x \in Int /\ (x <= World - size \/ x = 0)
  <2> DEFINE low == point - size \div 2
             room == World - size
  <2>1. low \in Int /\ room \in Int /\ 0 \in Int
    BY <1>1, <1>2
  <2> HIDE DEF low, room
  <2>2. Clamp(low, 0, room) \in Int /\ (Clamp(low, 0, room) <= room \/ Clamp(low, 0, room) = 0)
    BY <2>1, ClampFacts
  <2> QED
    BY <2>2 DEF low, room
<1>4. CenteredFrame(point, size) = [x |-> x, size |-> size]
  BY DEF CenteredFrame
<1> HIDE DEF x
<1>5. x + size <= World
  BY <1>1, <1>3, Sizes
<1> QED
  BY <1>3, <1>4, <1>5 DEF Frames

LEMMA ScreenToWorldFacts ==
  ASSUME NEW point \in Int, NEW camera \in Cameras
  PROVE  ScreenToWorld(point, camera) \in Int
<1>1. camera.scale \in Nat \ {0} /\ 2 * (point - camera.x) \in Int
  BY DEF Cameras
<1> HIDE DEF Cameras
<1> QED
  BY <1>1, Quotient DEF ScreenToWorld

\* Layouts are functions.
LEMMA LayoutFacts ==
  ASSUME NEW S, NEW f
  PROVE  f \in Layouts(S) <=> /\ f = [x \in DOMAIN f |-> f[x]]
                              /\ DOMAIN f \subseteq S
                              /\ \A x \in DOMAIN f : f[x] \in Frames
<1>1. ASSUME f \in Layouts(S)
      PROVE  /\ f = [x \in DOMAIN f |-> f[x]]
             /\ DOMAIN f \subseteq S
             /\ \A x \in DOMAIN f : f[x] \in Frames
  <2>1. PICK D \in SUBSET S : f \in [D -> Frames]
    BY <1>1 DEF Layouts
  <2> HIDE DEF Frames
  <2> QED
    BY <2>1
<1>2. ASSUME /\ f = [x \in DOMAIN f |-> f[x]]
             /\ DOMAIN f \subseteq S
             /\ \A x \in DOMAIN f : f[x] \in Frames
      PROVE  f \in Layouts(S)
  <2>1. f \in [DOMAIN f -> Frames]
    BY <1>2
  <2> QED
    BY <1>2, <2>1 DEF Layouts
<1> QED
  BY <1>1, <1>2

LEMMA NoLayout == \A S : << >> \in Layouts(S)
<1> TAKE S
<1>1. << >> \in [{} -> Frames]
  OBVIOUS
<1> QED
  BY <1>1 DEF Layouts

LEMMA PutFrameFacts ==
  ASSUME NEW S, NEW f \in Layouts(S), NEW id \in S, NEW frame \in Frames
  PROVE  LET g == PutFrame(f, id, frame) IN
         /\ g \in Layouts(S)
         /\ DOMAIN g = DOMAIN f \cup {id}
         /\ g[id] = frame
         /\ \A x \in DOMAIN f \ {id} : g[x] = f[x]
<1> DEFINE g == PutFrame(f, id, frame)
<1>1. /\ g = [x \in DOMAIN f \cup {id} |-> IF x = id THEN frame ELSE f[x]]
      /\ DOMAIN f \subseteq S
      /\ \A x \in DOMAIN f : f[x] \in Frames
  BY LayoutFacts DEF PutFrame
<1> HIDE DEF g
<1>2. DOMAIN g = DOMAIN f \cup {id} /\ g = [x \in DOMAIN g |-> g[x]]
  BY <1>1
<1>3. \A x \in DOMAIN g : g[x] = IF x = id THEN frame ELSE f[x]
  BY <1>1
<1>4. \A x \in DOMAIN g : g[x] \in Frames
  BY <1>1, <1>2, <1>3
<1>5. g \in Layouts(S)
  BY <1>1, <1>2, <1>4, LayoutFacts
<1> QED
  BY <1>2, <1>3, <1>5 DEF g

LEMMA DropFrameFacts ==
  ASSUME NEW S, NEW f \in Layouts(S), NEW id
  PROVE  LET g == DropFrame(f, id) IN
         /\ g \in Layouts(S)
         /\ DOMAIN g = DOMAIN f \ {id}
         /\ \A x \in DOMAIN g : g[x] = f[x]
<1> DEFINE g == DropFrame(f, id)
<1>1. /\ g = [x \in DOMAIN f \ {id} |-> f[x]]
      /\ DOMAIN f \subseteq S
      /\ \A x \in DOMAIN f : f[x] \in Frames
  BY LayoutFacts DEF DropFrame
<1> HIDE DEF g
<1>2. DOMAIN g = DOMAIN f \ {id} /\ g = [x \in DOMAIN g |-> g[x]] /\ \A x \in DOMAIN g : g[x] = f[x]
  BY <1>1
<1>3. \A x \in DOMAIN g : g[x] \in Frames
  BY <1>1, <1>2
<1>4. g \in Layouts(S)
  BY <1>1, <1>2, <1>3, LayoutFacts
<1> QED
  BY <1>2, <1>4 DEF g

LEMMA DesktopShape ==
  ASSUME NEW d \in Desktops
  PROVE  /\ d = [workspaces |-> d.workspaces, systems |-> d.systems, camera |-> d.camera,
                 active |-> d.active, front |-> d.front, viewport |-> d.viewport]
         /\ d.workspaces \in Layouts(Workspaces) /\ d.systems \in Layouts(InstanceIds)
         /\ d.camera \in Cameras
         /\ d.active \in WindowIds \cup {None} /\ d.front \in WindowIds \cup {None}
         /\ d.viewport \in Viewports
         /\ IsFiniteSet(DOMAIN d.systems)
         /\ \A id \in DOMAIN d.systems : d.systems[id].x + d.systems[id].size <= World
         /\ DOMAIN d.workspaces \subseteq Workspaces /\ DOMAIN d.systems \subseteq InstanceIds
<1>1. d.workspaces \in Layouts(Workspaces) /\ d.systems \in Layouts(InstanceIds)
  BY DEF Desktops
<1>2. DOMAIN d.workspaces \subseteq Workspaces /\ DOMAIN d.systems \subseteq InstanceIds
  BY <1>1, LayoutFacts
<1> QED
  BY <1>1, <1>2 DEF Desktops

\* A desktop put together from parts.
LEMMA DesktopOf ==
  ASSUME NEW d, NEW workspaces \in Layouts(Workspaces), NEW systems \in Layouts(InstanceIds),
         NEW camera \in Cameras, NEW active \in WindowIds \cup {None},
         NEW front \in WindowIds \cup {None}, NEW viewport \in Viewports,
         IsFiniteSet(DOMAIN systems),
         \A id \in DOMAIN systems : systems[id].x + systems[id].size <= World,
         d = [workspaces |-> workspaces, systems |-> systems, camera |-> camera,
              active |-> active, front |-> front, viewport |-> viewport]
  PROVE  d \in Desktops
BY DEF Desktops

LEMMA NewDesktopFacts ==
  ASSUME NEW v \in Viewports
  PROVE  [NewDesktop EXCEPT !.viewport = v] \in Desktops
<1> DEFINE d == [NewDesktop EXCEPT !.viewport = v]
<1>1. d = [workspaces |-> << >>, systems |-> << >>, camera |-> [scale |-> 2, x |-> 0],
           active |-> None, front |-> None, viewport |-> v]
  BY DEF NewDesktop
<1>2. DOMAIN << >> = {} /\ IsFiniteSet({})
  BY FS_EmptySet
<1>3. [scale |-> 2, x |-> 0] \in Cameras
  BY DEF Cameras
<1> HIDE DEF d
<1>4. /\ << >> \in Layouts(Workspaces) /\ << >> \in Layouts(InstanceIds)
      /\ v \in Viewports /\ None \in WindowIds \cup {None}
      /\ IsFiniteSet(DOMAIN << >>)
      /\ \A id \in DOMAIN << >> : << >>[id].x + << >>[id].size <= World
  BY <1>2, NoLayout
<1> DEFINE none == << >>
           camera == [scale |-> 2, x |-> 0]
<1>5. d = [workspaces |-> none, systems |-> none, camera |-> camera,
           active |-> None, front |-> None, viewport |-> v]
  BY <1>1
<1>6. /\ none \in Layouts(Workspaces) /\ none \in Layouts(InstanceIds)
      /\ camera \in Cameras /\ IsFiniteSet(DOMAIN none)
      /\ \A id \in DOMAIN none : none[id].x + none[id].size <= World
  BY <1>3, <1>4
<1> HIDE DEF none, camera
<1>7. d \in [workspaces : Layouts(Workspaces), systems : Layouts(InstanceIds), camera : Cameras,
             active : WindowIds \cup {None}, front : WindowIds \cup {None},
             viewport : Viewports]
  BY <1>4, <1>5, <1>6
<1>8. d.systems = none
  BY <1>5
<1>9. d \in Desktops
  BY <1>6, <1>7, <1>8 DEF Desktops
<1> QED
  BY <1>9 DEF d

\* Only the window that is presented gets another frame.
LEMMA PresentedFacts ==
  ASSUME NEW d \in Desktops, NEW w \in Workspaces, NEW point \in Int \cup {None}, NEW anchor,
         NEW viewport \in Viewports \cup {None}
  PROVE  LET e == Presented(d, w, point, anchor, viewport) IN
         /\ e \in Desktops
         /\ e.systems = d.systems
         /\ DOMAIN e.workspaces = DOMAIN d.workspaces \cup {w}
         /\ \A v \in DOMAIN d.workspaces \ {w} : e.workspaces[v] = d.workspaces[v]
         /\ e.active = w /\ e.front = w
<1> DEFINE view == OrElse(viewport, d.viewport)
           size == IF w \in DOMAIN d.workspaces THEN d.workspaces[w].size
                   ELSE SizeForViewport(d, view)
           target == OrElse(point, VisibleCenter(d, view))
           frame == IF anchor = "top-left" THEN FrameAtPoint(target, size)
                    ELSE CenteredFrame(target, size)
           e == Presented(d, w, point, anchor, viewport)
<1>1. /\ d.workspaces \in Layouts(Workspaces) /\ d.systems \in Layouts(InstanceIds)
      /\ d.camera \in Cameras /\ d.viewport \in Viewports
      /\ IsFiniteSet(DOMAIN d.systems)
      /\ \A id \in DOMAIN d.systems : d.systems[id].x + d.systems[id].size <= World
  BY DesktopShape
<1>2. view \in Viewports \cup {None} /\ Viewports \subseteq Int
  BY <1>1, DesktopAssumption DEF OrElse
<1> HIDE DEF view
<1>3. VisibleCenter(d, view) \in Int
  <2>1. CASE view = None
    BY <2>1, Sizes, Quotient DEF VisibleCenter
  <2>2. CASE view # None
    <3>1. view \in Int /\ view \div 2 \in Int
      BY <1>2, <2>2, Quotient
    <3> QED
      BY <1>1, <2>2, <3>1, ScreenToWorldFacts DEF VisibleCenter
  <2> QED
    BY <2>1, <2>2
<1>4. target \in Int
  BY <1>3 DEF OrElse
<1>5. SizeForViewport(d, view) \in MinSize..MaxSize
  <2>1. CASE view = None
    BY <2>1, Sizes DEF SizeForViewport
  <2>2. CASE view # None
    <3> DEFINE room == (2 * (view - 2 * Margin)) \div d.camera.scale
    <3>1. d.camera.scale \in Nat \ {0}
      BY <1>1 DEF Cameras
    <3>2. view \in Int /\ 2 * (view - 2 * Margin) \in Int
      BY <1>2, <2>2, Sizes
    <3>3. room \in Int
      BY <3>1, <3>2, Quotient
    <3>4. SizeForViewport(d, view) = Clamp(room, MinSize, DefaultSize)
      BY <2>2 DEF SizeForViewport
    <3> HIDE DEF room
    <3>5. /\ Clamp(room, MinSize, DefaultSize) \in Int
          /\ MinSize <= Clamp(room, MinSize, DefaultSize)
          /\ Clamp(room, MinSize, DefaultSize) <= DefaultSize
             \/ Clamp(room, MinSize, DefaultSize) = MinSize
      <4>1. MinSize \in Int /\ DefaultSize \in Int
        BY Sizes
      <4> QED
        BY <3>3, <4>1, ClampFacts
    <3> QED
      BY <3>4, <3>5, Sizes
  <2> QED
    BY <2>1, <2>2
<1>6. size \in MinSize..MaxSize
  <2>1. CASE w \in DOMAIN d.workspaces
    <3>1. d.workspaces[w] \in Frames
      BY <1>1, <2>1, LayoutFacts
    <3> QED
      BY <2>1, <3>1 DEF Frames
  <2>2. CASE w \notin DOMAIN d.workspaces
    BY <1>5, <2>2
  <2> QED
    BY <2>1, <2>2
<1> HIDE DEF target, size
<1>7. frame \in Frames
  <2>1. FrameAtPoint(target, size) \in Frames
    BY <1>4, <1>6 DEF FrameAtPoint, Frames
  <2> QED
    BY <1>4, <1>6, <2>1, CenteredFrameFacts
<1>8. e = [d EXCEPT !.workspaces = PutFrame(@, w, frame), !.active = w, !.front = w]
  BY DEF Presented, target, size, view
<1> HIDE DEF e, frame
<1>9. e = [workspaces |-> PutFrame(d.workspaces, w, frame), systems |-> d.systems,
           camera |-> d.camera, active |-> w, front |-> w, viewport |-> d.viewport]
  <2>1. d = [workspaces |-> d.workspaces, systems |-> d.systems, camera |-> d.camera,
             active |-> d.active, front |-> d.front, viewport |-> d.viewport]
    BY DesktopShape
  <2> QED
    BY <1>8, <2>1
<1>10. /\ PutFrame(d.workspaces, w, frame) \in Layouts(Workspaces)
       /\ DOMAIN PutFrame(d.workspaces, w, frame) = DOMAIN d.workspaces \cup {w}
       /\ \A v \in DOMAIN d.workspaces \ {w} : PutFrame(d.workspaces, w, frame)[v] = d.workspaces[v]
  <2> DEFINE f == d.workspaces
  <2>1. f \in Layouts(Workspaces)
    BY <1>1
  <2> HIDE DEF f
  <2>2. /\ PutFrame(f, w, frame) \in Layouts(Workspaces)
        /\ DOMAIN PutFrame(f, w, frame) = DOMAIN f \cup {w}
        /\ \A v \in DOMAIN f \ {w} : PutFrame(f, w, frame)[v] = f[v]
    BY <1>7, <2>1, PutFrameFacts
  <2> QED
    BY <2>2 DEF f
<1>11. w \in WindowIds \cup {None}
  BY DEF WindowIds
<1>12. e \in Desktops
  BY <1>1, <1>9, <1>10, <1>11, DesktopOf
<1> QED
  BY <1>9, <1>10, <1>12 DEF e

\* Only the window that goes back to its tab is gone, and it is not active.
LEMMA RestoredTabFacts ==
  ASSUME NEW d \in Desktops, NEW w
  PROVE  LET e == RestoredTab(d, w) IN
         /\ e \in Desktops
         /\ e.systems = d.systems
         /\ DOMAIN e.workspaces = DOMAIN d.workspaces \ {w}
         /\ \A v \in DOMAIN e.workspaces : e.workspaces[v] = d.workspaces[v]
         /\ e = d \/ /\ e.active = IF d.active = w THEN None ELSE d.active
                     /\ e.front = IF d.front = w THEN None ELSE d.front
<1> DEFINE e == RestoredTab(d, w)
<1>1. CASE w \notin DOMAIN d.workspaces
  BY <1>1 DEF RestoredTab
<1>2. CASE w \in DOMAIN d.workspaces
  <2> DEFINE active == IF d.active = w THEN None ELSE d.active
             front == IF d.front = w THEN None ELSE d.front
             left == DropFrame(d.workspaces, w)
  <2>1. e = [workspaces |-> left, systems |-> d.systems, camera |-> d.camera,
             active |-> active, front |-> front, viewport |-> d.viewport]
    <3>1. d = [workspaces |-> d.workspaces, systems |-> d.systems, camera |-> d.camera,
               active |-> d.active, front |-> d.front, viewport |-> d.viewport]
      BY DesktopShape
    <3>2. e = [[d EXCEPT !.active = active, !.front = front] EXCEPT !.workspaces = left]
      <4>1. Deactivated(d, w) = [d EXCEPT !.active = active, !.front = front]
        BY DEF Deactivated
      <4>2. Deactivated(d, w).workspaces = d.workspaces
        BY <3>1, <4>1
      <4>3. e = [Deactivated(d, w) EXCEPT !.workspaces = DropFrame(@, w)]
        BY <1>2 DEF RestoredTab
      <4> QED
        BY <4>1, <4>2, <4>3
    <3> HIDE DEF e, active, front, left
    <3> QED
      BY <3>1, <3>2
  <2>2. active \in WindowIds \cup {None} /\ front \in WindowIds \cup {None}
    BY DesktopShape
  <2>3. /\ left \in Layouts(Workspaces)
        /\ DOMAIN left = DOMAIN d.workspaces \ {w}
        /\ \A x \in DOMAIN left : left[x] = d.workspaces[x]
    <3>1. d.workspaces \in Layouts(Workspaces)
      BY DesktopShape
    <3> QED
      BY <3>1, DropFrameFacts
  <2> HIDE DEF e, left
  <2>4. e \in Desktops
    <3> HIDE DEF active, front
    <3> QED
      BY <2>1, <2>2, <2>3, DesktopShape, DesktopOf
  <2> QED
    BY <2>1, <2>3, <2>4 DEF e
<1> QED
  BY <1>1, <1>2

\* A frame is set where there is a window.
LEMMA FramedFacts ==
  ASSUME NEW d \in Desktops, NEW id, NEW frame \in Frames,
         id \in InstanceIds => frame.x + frame.size <= World
  PROVE  LET e == Framed(d, id, frame) IN
         /\ e \in Desktops
         /\ DOMAIN e.workspaces = DOMAIN d.workspaces
         /\ DOMAIN e.systems = DOMAIN d.systems
         /\ \A x \in DOMAIN e.workspaces :
              e.workspaces[x] = IF x = id THEN frame ELSE d.workspaces[x]
         /\ \A x \in DOMAIN e.systems :
              e.systems[x] = IF x = id /\ id \notin DOMAIN d.workspaces THEN frame ELSE d.systems[x]
         /\ e.active = d.active /\ e.front = d.front
<1> DEFINE e == Framed(d, id, frame)
<1>1. CASE id \in DOMAIN d.workspaces
  <2> DEFINE put == PutFrame(d.workspaces, id, frame)
  <2>1. e = [workspaces |-> put, systems |-> d.systems, camera |-> d.camera,
             active |-> d.active, front |-> d.front, viewport |-> d.viewport]
    BY <1>1, DesktopShape DEF Framed
  <2>2. /\ put \in Layouts(Workspaces)
        /\ DOMAIN put = DOMAIN d.workspaces /\ put[id] = frame
        /\ \A x \in DOMAIN d.workspaces \ {id} : put[x] = d.workspaces[x]
    <3> DEFINE f == d.workspaces
    <3>1. f \in Layouts(Workspaces) /\ id \in Workspaces
      BY <1>1, DesktopShape
    <3>2. DOMAIN f \cup {id} = DOMAIN f
      BY <1>1
    <3> HIDE DEF f
    <3>3. /\ PutFrame(f, id, frame) \in Layouts(Workspaces)
          /\ DOMAIN PutFrame(f, id, frame) = DOMAIN f
          /\ PutFrame(f, id, frame)[id] = frame
          /\ \A x \in DOMAIN f \ {id} : PutFrame(f, id, frame)[x] = f[x]
      BY <3>1, <3>2, PutFrameFacts
    <3> QED
      BY <3>3 DEF f
  <2> HIDE DEF e, put
  <2>3. e \in Desktops
    BY <2>1, <2>2, DesktopShape, DesktopOf
  <2> QED
    BY <1>1, <2>1, <2>2, <2>3 DEF e
<1>2. CASE id \notin DOMAIN d.workspaces /\ id \in DOMAIN d.systems
  <2> DEFINE put == PutFrame(d.systems, id, frame)
  <2>1. e = [workspaces |-> d.workspaces, systems |-> put, camera |-> d.camera,
             active |-> d.active, front |-> d.front, viewport |-> d.viewport]
    BY <1>2, DesktopShape DEF Framed
  <2>2. id \in InstanceIds
    BY <1>2, DesktopShape
  <2>3. /\ put \in Layouts(InstanceIds)
        /\ DOMAIN put = DOMAIN d.systems /\ put[id] = frame
        /\ \A x \in DOMAIN d.systems \ {id} : put[x] = d.systems[x]
    <3> DEFINE f == d.systems
    <3>1. f \in Layouts(InstanceIds)
      BY DesktopShape
    <3>2. DOMAIN f \cup {id} = DOMAIN f
      BY <1>2
    <3> HIDE DEF f
    <3>3. /\ PutFrame(f, id, frame) \in Layouts(InstanceIds)
          /\ DOMAIN PutFrame(f, id, frame) = DOMAIN f
          /\ PutFrame(f, id, frame)[id] = frame
          /\ \A x \in DOMAIN f \ {id} : PutFrame(f, id, frame)[x] = f[x]
      BY <2>2, <3>1, <3>2, PutFrameFacts
    <3> QED
      BY <3>3 DEF f
  <2> HIDE DEF e, put
  <2>4. \A x \in DOMAIN put : put[x].x + put[x].size <= World
    <3>1. \A x \in DOMAIN d.systems : d.systems[x].x + d.systems[x].size <= World
      BY DesktopShape
    <3> QED
      BY <2>2, <2>3, <3>1
  <2>5. e \in Desktops
    BY <2>1, <2>3, <2>4, DesktopShape, DesktopOf
  <2> QED
    BY <1>2, <2>1, <2>3, <2>5 DEF e
<1>3. CASE id \notin DOMAIN d.workspaces /\ id \notin DOMAIN d.systems
  <2>1. e = d
    BY <1>3 DEF Framed
  <2> QED
    BY <1>3, <2>1
<1> QED
  BY <1>1, <1>2, <1>3

\* Nothing but the active and the front window, or the camera, changes.
LEMMA FocusFacts ==
  ASSUME NEW d \in Desktops
  PROVE  /\ \A id \in WindowIds : Activated(d, id) \in Desktops
         /\ ClearedActive(d) \in Desktops
         /\ \A camera \in Cameras : [d EXCEPT !.camera = camera] \in Desktops
<1>1. ASSUME NEW id \in WindowIds PROVE Activated(d, id) \in Desktops
  <2> DEFINE e == Activated(d, id)
  <2>1. e = [workspaces |-> d.workspaces, systems |-> d.systems, camera |-> d.camera,
                            active |-> id, front |-> id, viewport |-> d.viewport]
    <3>1. d = [workspaces |-> d.workspaces, systems |-> d.systems, camera |-> d.camera,
               active |-> d.active, front |-> d.front, viewport |-> d.viewport]
      BY DesktopShape
    <3>2. e = [d EXCEPT !.active = id, !.front = id]
      BY DEF Activated
    <3> HIDE DEF e
    <3> QED
      BY <3>1, <3>2
  <2>2. id \in WindowIds \cup {None}
    OBVIOUS
  <2> HIDE DEF e
  <2>3. e \in Desktops
    BY <2>1, <2>2, DesktopShape, DesktopOf
  <2> QED
    BY <2>3 DEF e
<1>2. ClearedActive(d) \in Desktops
  <2>1. ClearedActive(d) = [workspaces |-> d.workspaces, systems |-> d.systems, camera |-> d.camera,
                            active |-> None, front |-> d.front, viewport |-> d.viewport]
    BY DesktopShape DEF ClearedActive
  <2> QED
    BY <2>1, DesktopShape, DesktopOf
<1>3. ASSUME NEW camera \in Cameras PROVE [d EXCEPT !.camera = camera] \in Desktops
  <2>1. [d EXCEPT !.camera = camera]
          = [workspaces |-> d.workspaces, systems |-> d.systems, camera |-> camera,
             active |-> d.active, front |-> d.front, viewport |-> d.viewport]
    BY DesktopShape
  <2> QED
    BY <2>1, DesktopShape, DesktopOf
<1> QED
  BY <1>1, <1>2, <1>3

\* A system window opens inside the world.
LEMMA OpenedSystemFacts ==
  ASSUME NEW d \in Desktops, NEW id \in InstanceIds, NEW point \in Int, NEW default \in MinSize..MaxSize
  PROVE  LET e == OpenedSystem(d, id, point, default) IN
         /\ e \in Desktops
         /\ e.workspaces = d.workspaces
         /\ DOMAIN e.systems = DOMAIN d.systems \cup {id}
         /\ e.active = id /\ e.front = id
<1> DEFINE size == IF id \in DOMAIN d.systems THEN d.systems[id].size ELSE default
           frame == CenteredFrame(point, size)
           put == PutFrame(d.systems, id, frame)
           e == OpenedSystem(d, id, point, default)
<1>1. /\ d.systems \in Layouts(InstanceIds) /\ IsFiniteSet(DOMAIN d.systems)
      /\ \A x \in DOMAIN d.systems : d.systems[x].x + d.systems[x].size <= World
  BY DesktopShape
<1>2. size \in MinSize..MaxSize
  <2>1. id \in DOMAIN d.systems => d.systems[id] \in Frames
    BY <1>1, LayoutFacts
  <2> QED
    BY <2>1 DEF Frames
<1>3. e = [workspaces |-> d.workspaces, systems |-> put, camera |-> d.camera,
           active |-> id, front |-> id, viewport |-> d.viewport]
  <2>1. d = [workspaces |-> d.workspaces, systems |-> d.systems, camera |-> d.camera,
             active |-> d.active, front |-> d.front, viewport |-> d.viewport]
    BY DesktopShape
  <2>2. e = [d EXCEPT !.systems = put, !.active = id, !.front = id]
    BY DEF OpenedSystem
  <2> HIDE DEF e, put
  <2> QED
    BY <2>1, <2>2
<1> HIDE DEF size
<1>4. frame \in Frames /\ frame.x + frame.size <= World
  BY <1>2, CenteredFrameFacts
<1> HIDE DEF frame
<1>5. /\ put \in Layouts(InstanceIds)
      /\ DOMAIN put = DOMAIN d.systems \cup {id} /\ put[id] = frame
      /\ \A x \in DOMAIN d.systems \ {id} : put[x] = d.systems[x]
  <2> DEFINE f == d.systems
  <2>1. f \in Layouts(InstanceIds)
    BY <1>1
  <2> HIDE DEF f
  <2> QED
    BY <1>4, <2>1, PutFrameFacts DEF f
<1> HIDE DEF put, e
<1>6. \A x \in DOMAIN put : put[x].x + put[x].size <= World
  BY <1>1, <1>4, <1>5
<1>7. IsFiniteSet(DOMAIN put)
  BY <1>1, <1>5, FS_AddElement
<1>8. id \in WindowIds \cup {None}
  BY DEF WindowIds
<1>9. e \in Desktops
  BY <1>3, <1>5, <1>6, <1>7, <1>8, DesktopShape, DesktopOf
<1> QED
  BY <1>3, <1>5, <1>9 DEF e

LEMMA ClosedSystemFacts ==
  ASSUME NEW d \in Desktops, NEW id
  PROVE  LET e == ClosedSystem(d, id) IN
         /\ e \in Desktops
         /\ e.workspaces = d.workspaces
         /\ DOMAIN e.systems = DOMAIN d.systems \ {id}
         /\ e.active = IF d.active = id THEN None ELSE d.active
         /\ e.front = IF d.front = id THEN None ELSE d.front
<1> DEFINE active == IF d.active = id THEN None ELSE d.active
           front == IF d.front = id THEN None ELSE d.front
           left == DropFrame(d.systems, id)
           e == ClosedSystem(d, id)
<1>1. /\ d.systems \in Layouts(InstanceIds) /\ IsFiniteSet(DOMAIN d.systems)
      /\ \A x \in DOMAIN d.systems : d.systems[x].x + d.systems[x].size <= World
  BY DesktopShape
<1>2. e = [workspaces |-> d.workspaces, systems |-> left, camera |-> d.camera,
           active |-> active, front |-> front, viewport |-> d.viewport]
  <2>1. d = [workspaces |-> d.workspaces, systems |-> d.systems, camera |-> d.camera,
             active |-> d.active, front |-> d.front, viewport |-> d.viewport]
    BY DesktopShape
  <2>2. e = [[d EXCEPT !.active = active, !.front = front] EXCEPT !.systems = left]
    <3>1. Deactivated(d, id) = [d EXCEPT !.active = active, !.front = front]
      BY DEF Deactivated
    <3>2. Deactivated(d, id).systems = d.systems
      BY <2>1, <3>1
    <3>3. e = [Deactivated(d, id) EXCEPT !.systems = DropFrame(@, id)]
      BY DEF ClosedSystem
    <3> QED
      BY <3>1, <3>2, <3>3
  <2> HIDE DEF e, active, front, left
  <2> QED
    BY <2>1, <2>2
<1>3. active \in WindowIds \cup {None} /\ front \in WindowIds \cup {None}
  BY DesktopShape
<1>4. /\ left \in Layouts(InstanceIds)
      /\ DOMAIN left = DOMAIN d.systems \ {id}
      /\ \A x \in DOMAIN left : left[x] = d.systems[x]
  BY <1>1, DropFrameFacts
<1> HIDE DEF left, e
<1>5. \A x \in DOMAIN left : left[x].x + left[x].size <= World
  BY <1>1, <1>4
<1>6. IsFiniteSet(DOMAIN left)
  BY <1>1, <1>4, FS_RemoveElement
<1>7. e \in Desktops
  <2> HIDE DEF active, front
  <2> QED
    BY <1>2, <1>3, <1>4, <1>5, <1>6, DesktopShape, DesktopOf
<1> QED
  BY <1>2, <1>4, <1>7 DEF e

\* The edge that moves stays within the world, or goes no further right.
LEMMA ResizedFacts ==
  ASSUME NEW start \in Frames, NEW direction \in {"none", "east", "west"}, NEW delta \in Int
  PROVE  LET frame == Resized(start, direction, delta) IN
         /\ frame \in Frames
         /\ \/ frame.x + frame.size <= World
            \/ frame.x + frame.size <= start.x + start.size
<1> DEFINE x == start.x
           size == start.size
           frame == Resized(start, direction, delta)
<1>1. /\ start = [x |-> x, size |-> size]
      /\ x \in Int /\ size \in Nat /\ MinSize <= size /\ size <= MaxSize
  BY Sizes DEF Frames
<1>2. MinSize \in Int /\ MaxSize \in Int /\ World \in Int /\ MinSize <= MaxSize
  BY Sizes
<1> HIDE DEF x, size
<1>3. CASE direction = "none"
  <2> DEFINE to == Min({x + delta, World - size})
  <2>1. to = IF x + delta <= World - size THEN x + delta ELSE World - size
    <3>1. x + delta \in Int /\ World - size \in Int
      BY <1>1, <1>2
    <3> QED
      BY <3>1, MinOfTwo
  <2>2. frame = [start EXCEPT !.x = Min({@ + delta, World - start.size})]
    BY <1>3 DEF Resized
  <2>3. frame = [x |-> to, size |-> size]
    BY <1>1, <2>2
  <2>4. to \in Int /\ to + size <= World
    BY <1>1, <1>2, <2>1
  <2> HIDE DEF to, frame
  <2>5. frame \in Frames /\ frame.x + frame.size <= World
    BY <1>1, <2>3, <2>4 DEF Frames
  <2> QED
    BY <2>5 DEF frame
<1>4. CASE direction = "east"
  <2> DEFINE high == Min({MaxSize, World - x})
             to == Clamp(size + delta, MinSize, high)
  <2>1. high = IF MaxSize <= World - x THEN MaxSize ELSE World - x
    <3>1. World - x \in Int
      BY <1>1, <1>2
    <3> QED
      BY <1>2, <3>1, MinOfTwo
  <2>2. high \in Int /\ size + delta \in Int
    BY <1>1, <1>2, <2>1
  <2>3. frame = [x |-> x, size |-> to]
    <3>1. frame = [start EXCEPT !.size = Clamp(@ + delta, MinSize, Min({MaxSize, World - start.x}))]
      BY <1>4 DEF Resized
    <3> QED
      BY <1>1, <3>1
  <2> HIDE DEF high, frame
  <2>4. to \in Int /\ MinSize <= to /\ (to <= high \/ to = MinSize)
    BY <1>2, <2>2, ClampFacts
  <2> HIDE DEF to
  <2>5. to <= MaxSize /\ (x + to <= World \/ x + to <= x + size)
    BY <1>1, <1>2, <2>1, <2>2, <2>4
  <2>6. to \in MinSize..MaxSize
    BY <1>2, <2>4, <2>5
  <2>7. frame \in Frames /\ frame.x = x /\ frame.size = to
    BY <1>1, <2>3, <2>6 DEF Frames
  <2> QED
    BY <2>5, <2>7 DEF frame, x, size
<1>5. CASE direction = "west"
  <2> DEFINE to == Clamp(size - delta, MinSize, MaxSize)
             right == x + size
  <2>1. to \in Int /\ MinSize <= to /\ to <= MaxSize
    <3> DEFINE less == size - delta
    <3>1. less \in Int
      BY <1>1
    <3> HIDE DEF less
    <3>2. Clamp(less, MinSize, MaxSize) \in Int /\ MinSize <= Clamp(less, MinSize, MaxSize)
          /\ (Clamp(less, MinSize, MaxSize) <= MaxSize \/ Clamp(less, MinSize, MaxSize) = MinSize)
      BY <1>2, <3>1, ClampFacts
    <3> QED
      BY <1>2, <3>2 DEF less
  <2>2. frame = [x |-> right - to, size |-> to]
    BY <1>5 DEF Resized, x, size
  <2> HIDE DEF to, frame
  <2>3. to \in MinSize..MaxSize /\ right - to \in Int /\ right - to + to = right
    BY <1>1, <1>2, <2>1
  <2> HIDE DEF right
  <2>4. frame \in Frames /\ frame.x + frame.size = right
    BY <2>2, <2>3 DEF Frames
  <2> HIDE DEF Frames
  <2>5. right \in Int /\ right <= x + size
    BY <1>1 DEF right
  <2> QED
    BY <2>4, <2>5 DEF frame, x, size
<1> QED
  BY <1>3, <1>4, <1>5
-----------------------------------------------------------------------------
(***************************************************************************)
(* Types.                                                                  *)
(***************************************************************************)

Uis ==
  [active : Places, focused : Places, pending : Places, requests : Nat, mode : {"tab", "window"}]

Directions == {"none", "east", "west"}
Right(frame) == frame.x + frame.size

\* A gesture takes no window further right than it was, nor over the wall.
WindowGestures ==
  {g \in [kind : {"window"}, id : WindowIds, direction : Directions, start : Frames, last : Frames] :
     /\ g.id \in InstanceIds => Right(g.start) <= World
     /\ Right(g.last) <= World \/ Right(g.last) <= Right(g.start)}
CanvasGestures == [kind : {"pan", "wire", "pinch"}, camera : Cameras]
Canvases ==
  [preview : Cameras \cup {None}, gesture : {NoGesture} \cup CanvasGestures \cup WindowGestures,
   creator : Int \cup {None}]

Layers == [Workspaces -> Seq(InstanceIds)]

Renders ==
  [open : Seq(Workspaces), dirty : SUBSET Workspaces, views : Layers, desktop : Desktops,
   ui : Uis, preview : Cameras \cup {None}]

Closures ==
  [tabs : Seq(Workspaces), active : Places, focused : Places, windows : Seq(InstanceIds)]

TypeOK ==
  /\ open \in Seq(Workspaces)
  /\ used \subseteq Workspaces
  /\ dirty \subseteq Workspaces
  /\ views \in Layers
  /\ desktop \in Desktops
  /\ ui \in Uis
  /\ plugins \in Consistent
  /\ canvas \in Canvases
  /\ exports \subseteq [workspace : Workspaces, seen : Closures]
  /\ shown \in Renders
  /\ lane \in {"idle", "click", "later"}
  /\ restoring \in BOOLEAN
  /\ mounted \in BOOLEAN
  /\ late \in BOOLEAN
  /\ events \in Nat
  /\ failures \in Nat

LEMMA PlacesFacts == None \in Places /\ Workspaces \subseteq Places /\ NoWorkspace = None
BY DesktopAssumption DEF Places

\* The first place of an element in a list.
LEMMA FirstIndex ==
  ASSUME NEW n \in Nat, NEW I \in SUBSET (1..n)
  PROVE  /\ (IF I # {} THEN Min(I) ELSE 0) \in 0..n
         /\ I # {} => Min(I) \in I
<1>1. I # {} => Min(I) \in I
  <2> SUFFICES ASSUME I # {} PROVE Min(I) \in I
    OBVIOUS
  <2>1. \E x \in I : \A y \in I : x <= y
    <3>1. I \subseteq Nat
      OBVIOUS
    <3> QED
      BY <3>1, LeastElement
  <2> QED
    BY <2>1 DEF Min
<1> DEFINE least == Min(I)
<1> HIDE DEF least
<1>2. I # {} => least \in I
  BY <1>1 DEF least
<1>3. (IF I # {} THEN least ELSE 0) \in 0..n
  <2>1. ASSUME I # {} PROVE least \in 0..n
    <3>1. least \in 1..n
      BY <1>2, <2>1
    <3> QED
      BY <3>1
  <2>2. 0 \in 0..n
    OBVIOUS
  <2> QED
    BY <2>1, <2>2
<1> QED
  BY <1>1, <1>3 DEF least

\* What a handler reads of the last render.
LEMMA ShownFacts ==
  ASSUME TypeOK
  PROVE  /\ ShownOpen \subseteq Workspaces
         /\ ShownTabs \in Seq(Workspaces)
         /\ Range(ShownTabs) = ShownOpen \ DOMAIN shown.desktop.workspaces
         /\ ShownCamera \in Cameras
         /\ ShownWindows \subseteq WindowIds
         /\ \A w \in Workspaces : Closure(w) \in Closures
         /\ shown.desktop \in Desktops /\ shown.ui \in Uis /\ shown.views \in Layers
         /\ shown.ui.active \in Places /\ shown.ui.focused \in Places /\ shown.ui.pending \in Places
<1>1. shown \in Renders
  BY DEF TypeOK
<1>2. /\ shown.open \in Seq(Workspaces) /\ shown.views \in Layers
      /\ shown.desktop \in Desktops /\ shown.ui \in Uis /\ shown.preview \in Cameras \cup {None}
  BY <1>1 DEF Renders
<1>3. shown.ui.active \in Places /\ shown.ui.focused \in Places /\ shown.ui.pending \in Places
  BY <1>2 DEF Uis
<1>4. ShownOpen \subseteq Workspaces
  BY <1>2 DEF ShownOpen, Range
<1>5. /\ ShownTabs \in Seq(Workspaces)
      /\ Range(ShownTabs) = ShownOpen \ DOMAIN shown.desktop.workspaces
  <2> DEFINE S == ShownOpen \ DOMAIN shown.desktop.workspaces
  <2>1. ShownTabs = Only(shown.open, S)
    BY DEF ShownTabs
  <2>2. Range(shown.open) \cap S = S
    BY DEF ShownOpen
  <2> HIDE DEF S
  <2>3. ShownTabs \in Seq(Workspaces) /\ Range(ShownTabs) = S
    BY <1>2, <2>1, <2>2, OnlyFacts
  <2> QED
    BY <2>3 DEF S
<1>6. ShownCamera \in Cameras
  BY <1>2, DesktopShape DEF ShownCamera, OrElse
<1>7. ShownWindows \subseteq WindowIds
  <2>1. /\ DOMAIN shown.desktop.workspaces \subseteq Workspaces
        /\ DOMAIN shown.desktop.systems \subseteq InstanceIds
    BY <1>2, DesktopShape
  <2> QED
    BY <2>1 DEF ShownWindows, WindowIds
<1>8. ASSUME NEW w \in Workspaces PROVE Closure(w) \in Closures
  <2>1. (IF w \in ShownOpen THEN shown.views[w] ELSE << >>) \in Seq(InstanceIds)
    BY <1>2 DEF Layers
  <2> QED
    BY <1>3, <1>5, <2>1 DEF Closure, Closures
<1> QED
  BY <1>2, <1>3, <1>4, <1>5, <1>6, <1>7, <1>8

LEMMA TypeInit == Init => TypeOK
<1> SUFFICES ASSUME Init PROVE TypeOK
  OBVIOUS
<1>1. PICK v \in Viewports : desktop = [NewDesktop EXCEPT !.viewport = v]
  BY DEF Init
<1>2. desktop \in Desktops
  BY <1>1, NewDesktopFacts
<1>3. ui \in Uis
  BY PlacesFacts DEF Init, Uis
<1>4. views \in Layers
  BY DEF Init, Layers
<1>5. NewRuntime \in Consistent
  <2> DEFINE r == NewRuntime
  <2>1. r = [instances |-> << >>, singletons |-> {}, nodes |-> {}, uuids |-> 0]
    BY DEF NewRuntime
  <2> HIDE DEF r
  <2>2. Ids(r) = {} /\ DOMAIN r.instances = {}
    BY <2>1 DEF Ids, Range
  <2>3. r \in Runtimes
    BY <2>1 DEF Runtimes
  <2>4. r \in Consistent
    BY <2>1, <2>2, <2>3 DEF Consistent
  <2> QED
    BY <2>4 DEF r
<1>6. canvas \in Canvases
  BY DEF Init, NewCanvas, Canvases
<1>7. shown \in Renders
  BY <1>2, <1>3, <1>4, <1>6 DEF Init, Rendered, Renders, NewCanvas
<1>8. /\ open \in Seq(Workspaces) /\ used \subseteq Workspaces /\ dirty \subseteq Workspaces
      /\ exports \subseteq [workspace : Workspaces, seen : Closures]
      /\ lane \in {"idle", "click", "later"}
      /\ restoring \in BOOLEAN /\ mounted \in BOOLEAN /\ late \in BOOLEAN
      /\ events \in Nat /\ failures \in Nat
  <2>1. open \in Seq(Workspaces)
    BY DEF Init
  <2>2. /\ used \subseteq Workspaces /\ dirty \subseteq Workspaces
        /\ exports \subseteq [workspace : Workspaces, seen : Closures]
    BY DEF Init
  <2>3. /\ lane \in {"idle", "click", "later"} /\ events \in Nat /\ failures \in Nat
    BY DEF Init
  <2>4. restoring \in BOOLEAN /\ mounted \in BOOLEAN /\ late \in BOOLEAN
    BY DEF Init
  <2> QED
    BY <2>1, <2>2, <2>3, <2>4
<1>9. plugins \in Consistent
  BY <1>5 DEF Init
<1> QED
  BY <1>2, <1>3, <1>4, <1>6, <1>7, <1>8, <1>9 DEF TypeOK

LEMMA PresentType ==
  ASSUME TypeOK, NEW w \in Workspaces, NEW point \in Int \cup {None},
         NEW viewport \in Viewports \cup {None}, Present(w, point, viewport)
  PROVE  desktop' \in Desktops /\ ui' \in Uis
<1>1. desktop \in Desktops /\ ui \in Uis
  BY DEF TypeOK
<1>2. desktop' \in Desktops
  <2>1. Presented(desktop, w, point, "center", viewport) \in Desktops
    BY <1>1, PresentedFacts
  <2>2. RestoredTab(desktop, w) \in Desktops
    BY <1>1, RestoredTabFacts
  <2> QED
    BY <2>1, <2>2 DEF Present
<1>3. ui' \in Uis
  BY <1>1, PlacesFacts DEF Present, Uis
<1> QED
  BY <1>2, <1>3

LEMMA CloseNowType ==
  ASSUME TypeOK, NEW w \in Workspaces, NEW seen \in Closures, NEW failing, CloseNow(w, seen, failing)
  PROVE  /\ open' \in Seq(Workspaces) /\ views' \in Layers /\ used' = used
         /\ desktop' \in Desktops /\ ui' \in Uis /\ plugins' \in Consistent /\ failures' \in Nat
<1>1. /\ open \in Seq(Workspaces) /\ views \in Layers /\ desktop \in Desktops /\ ui \in Uis
      /\ plugins \in Consistent /\ failures \in Nat
  BY DEF TypeOK
<1>2. plugins' \in Consistent
  BY <1>1, DisposedFacts DEF CloseNow
<1>3. failures' \in Nat
  BY <1>1 DEF CloseNow
<1>4. RestoredTab(desktop, w) \in Desktops
  BY <1>1, RestoredTabFacts
<1>5. Only(open, Range(open) \ {w}) \in Seq(Workspaces)
  <2> DEFINE S == Range(open) \ {w}
  <2> HIDE DEF S
  <2>1. Only(open, S) \in Seq(Workspaces)
    BY <1>1, OnlyFacts
  <2> QED
    BY <2>1 DEF S
<1>6. [views EXCEPT ![w] = << >>] \in Layers
  BY <1>1 DEF Layers
<1>7. Neighbour(seen.tabs, w) \in Places
  <2> DEFINE tabs == seen.tabs
             index == SelectInSeq(tabs, LAMBDA v : v = w)
  <2>1. tabs \in Seq(Workspaces)
    BY DEF Closures
  <2> HIDE DEF tabs
  <2>2. index \in 0..Len(tabs) /\ Len(tabs) \in Nat
    <3> DEFINE I == {i \in 1..Len(tabs) : tabs[i] = w}
    <3>1. index = IF I # {} THEN Min(I) ELSE 0
      BY DEF SelectInSeq
    <3>2. Len(tabs) \in Nat /\ I \in SUBSET (1..Len(tabs))
      BY <2>1
    <3> HIDE DEF I, index
    <3> QED
      BY <3>1, <3>2, FirstIndex
  <2>3. Neighbour(tabs, w) = IF index + 1 <= Len(tabs) THEN tabs[index + 1]
                             ELSE IF index > 1 THEN tabs[index - 1] ELSE None
    BY DEF Neighbour
  <2> HIDE DEF index
  <2>4. /\ index + 1 <= Len(tabs) => tabs[index + 1] \in Workspaces
        /\ index > 1 => tabs[index - 1] \in Workspaces
    BY <2>1, <2>2
  <2>5. Neighbour(tabs, w) \in Places
    BY <2>3, <2>4, PlacesFacts
  <2> QED
    BY <2>5 DEF tabs
<1>8. [ui EXCEPT !.active = IF w = seen.active THEN Neighbour(seen.tabs, w) ELSE @,
                 !.focused = IF w = seen.focused THEN None ELSE @,
                 !.pending = None] \in Uis
  <2> DEFINE next == Neighbour(seen.tabs, w)
  <2>1. next \in Places
    BY <1>7
  <2> HIDE DEF next
  <2>2. [ui EXCEPT !.active = IF w = seen.active THEN next ELSE @,
                   !.focused = IF w = seen.focused THEN None ELSE @,
                   !.pending = None] \in Uis
    BY <1>1, <2>1, PlacesFacts DEF Uis
  <2> QED
    BY <2>2 DEF next
<1> QED
  BY <1>1, <1>2, <1>3, <1>4, <1>5, <1>6, <1>8 DEF CloseNow

\* The actions of Closing.
LEMMA ClosingType == TypeOK /\ Closing => TypeOK'
<1> SUFFICES ASSUME TypeOK, Closing PROVE TypeOK'
  OBVIOUS
<1> USE DEF Event, Click, Later
<1>1. ASSUME NEW w \in Workspaces, NEW failing, RequestClose(w, failing) PROVE TypeOK'
  <2>1. CASE w \in shown.dirty
    <3>1. desktop' \in Desktops
      BY <1>1, <2>1, RestoredTabFacts DEF RequestClose, TypeOK
    <3>2. ui' \in Uis
      BY <1>1, <2>1, PlacesFacts DEF RequestClose, TypeOK, Uis
    <3> QED
      BY <1>1, <2>1, <3>1, <3>2 DEF RequestClose, TypeOK, session, ActsOn
  <2>2. CASE w \notin shown.dirty
    <3>1. CloseNow(w, Closure(w), failing)
      BY <1>1, <2>2 DEF RequestClose
    <3>2. /\ open' \in Seq(Workspaces) /\ views' \in Layers /\ used' = used
          /\ desktop' \in Desktops /\ ui' \in Uis /\ plugins' \in Consistent /\ failures' \in Nat
      BY <3>1, ShownFacts, CloseNowType
    <3> QED
      BY <1>1, <2>2, <3>2 DEF RequestClose, TypeOK, ActsOn
  <2> QED
    BY <2>1, <2>2
<1>2. ASSUME NEW failing, Discard(failing) PROVE TypeOK'
  <2> DEFINE w == shown.ui.pending
  <2>1. w \in Workspaces
    BY <1>2, ShownFacts DEF Discard, Places
  <2>2. CloseNow(w, Closure(w), failing)
    BY <1>2 DEF Discard
  <2> HIDE DEF w
  <2>3. /\ open' \in Seq(Workspaces) /\ views' \in Layers /\ used' = used
        /\ desktop' \in Desktops /\ ui' \in Uis /\ plugins' \in Consistent /\ failures' \in Nat
    BY <2>1, <2>2, ShownFacts, CloseNowType
  <2> QED
    BY <1>2, <2>3 DEF Discard, TypeOK, ActsOn
<1>3. CASE CancelClose
  <2>1. ui' \in Uis
    BY <1>3, PlacesFacts DEF CancelClose, TypeOK, Uis
  <2> QED
    BY <1>3, <2>1 DEF CancelClose, TypeOK, session, history
<1>4. CASE ExportAndClose
  <2> DEFINE w == shown.ui.pending
  <2>1. w \in Workspaces
    BY <1>4, ShownFacts DEF ExportAndClose
  <2>2. exports' = exports \cup {[workspace |-> w, seen |-> Closure(w)]}
    BY <1>4 DEF ExportAndClose
  <2>3. exports' \subseteq [workspace : Workspaces, seen : Closures]
    <3> HIDE DEF w
    <3>1. Closure(w) \in Closures
      BY <2>1, ShownFacts
    <3> QED
      BY <2>1, <2>2, <3>1 DEF TypeOK
  <2> QED
    BY <1>4, <2>3 DEF ExportAndClose, TypeOK, session
<1>5. ASSUME NEW e \in exports, NEW ok \in BOOLEAN, NEW failing, ExportDone(e, ok, failing) PROVE TypeOK'
  <2>1. e.workspace \in Workspaces /\ e.seen \in Closures
    BY DEF TypeOK
  <2>2. CASE ok /\ e.workspace \in Range(open)
    <3>1. CloseNow(e.workspace, e.seen, failing)
      BY <1>5, <2>2 DEF ExportDone
    <3>2. /\ open' \in Seq(Workspaces) /\ views' \in Layers /\ used' = used
          /\ desktop' \in Desktops /\ ui' \in Uis /\ plugins' \in Consistent /\ failures' \in Nat
      BY <2>1, <3>1, CloseNowType
    <3> QED
      BY <1>5, <2>2, <3>2 DEF ExportDone, TypeOK
  <2>3. CASE ~(ok /\ e.workspace \in Range(open))
    BY <1>5, <2>3 DEF ExportDone, TypeOK, session
  <2> QED
    BY <2>2, <2>3
<1> QED
  BY <1>1, <1>2, <1>3, <1>4, <1>5 DEF Closing

\* A click or a later event changes what it says, and the lane.
LEMMA EventType ==
  ASSUME TypeOK, Event
  PROVE  /\ events' \in Nat /\ shown' \in Renders
         /\ restoring' \in BOOLEAN /\ mounted' \in BOOLEAN
BY DEF Event, TypeOK

LEMMA AddType ==
  ASSUME TypeOK, NEW w \in Workspaces, NEW windows \in Seq(InstanceIds), Add(w, windows)
  PROVE  /\ open' \in Seq(Workspaces) /\ used' \subseteq Workspaces /\ dirty' \subseteq Workspaces
         /\ views' \in Layers
<1>1. open' \in Seq(Workspaces)
  BY DEF Add, TypeOK
<1>2. used' \subseteq Workspaces /\ dirty' \subseteq Workspaces
  BY DEF Add, TypeOK
<1>3. views' \in Layers
  BY DEF Add, TypeOK, Layers
<1> QED
  BY <1>1, <1>2, <1>3

LEMMA ActsOnType == ASSUME TypeOK, NEW w, ActsOn(w) PROVE late' \in BOOLEAN
BY DEF ActsOn, TypeOK

\* The place of an insertion.
LEMMA Inserted ==
  ASSUME NEW A, NEW list \in Seq(A), NEW a \in A, NEW i \in 1..(Len(list) + 1)
  PROVE  /\ InsertAt(list, i, a) \in Seq(A)
         /\ Range(InsertAt(list, i, a)) = Range(list) \cup {a}
<1> DEFINE before == SubSeq(list, 1, i - 1)
           after == SubSeq(list, i, Len(list))
           more == before \o <<a>> \o after
<1>1. InsertAt(list, i, a) = more
  BY DEF InsertAt
<1>2. i \in Nat /\ Len(list) \in Nat /\ 1 <= i /\ i <= Len(list) + 1
  OBVIOUS
<1>3. /\ before \in Seq(A) /\ Len(before) = i - 1
      /\ \A k \in 1..(i - 1) : before[k] = list[k]
  BY <1>2
<1>4. /\ after \in Seq(A) /\ Len(after) = Len(list) + 1 - i
      /\ \A k \in 1..(Len(list) + 1 - i) : after[k] = list[k + i - 1]
  BY <1>2
<1> HIDE DEF before, after
<1>5. /\ more \in Seq(A) /\ Len(more) = Len(list) + 1
      /\ \A k \in 1..(Len(list) + 1) :
           more[k] = IF k < i THEN list[k] ELSE IF k = i THEN a ELSE list[k - 1]
  <2> DEFINE head == before \o <<a>>
  <2>1. /\ head \in Seq(A) /\ Len(head) = i
        /\ \A k \in 1..i : head[k] = IF k < i THEN list[k] ELSE a
    BY <1>2, <1>3
  <2>2. more = head \o after
    OBVIOUS
  <2> HIDE DEF head, more
  <2>3. more \in Seq(A) /\ Len(more) = Len(list) + 1
    <3>0. head \in Seq(A) /\ after \in Seq(A)
      BY <1>4, <2>1
    <3>1. more \in Seq(A) /\ Len(more) = Len(head) + Len(after)
      BY <2>2, <3>0
    <3> QED
      BY <1>2, <1>4, <2>1, <3>1
  <2>4. ASSUME NEW k \in 1..(Len(list) + 1)
        PROVE  more[k] = IF k < i THEN list[k] ELSE IF k = i THEN a ELSE list[k - 1]
    <3>1. CASE k <= i
      <4>1. k \in 1..i /\ more[k] = head[k]
        BY <1>2, <1>4, <2>1, <2>2, <3>1
      <4> QED
        BY <1>2, <2>1, <4>1
    <3>2. CASE k > i
      <4>1. k - i \in 1..(Len(list) + 1 - i) /\ more[k] = after[k - i]
        BY <1>2, <1>4, <2>1, <2>2, <3>2
      <4>2. after[k - i] = list[k - i + i - 1] /\ k - i + i - 1 = k - 1
        BY <1>2, <1>4, <4>1
      <4> QED
        BY <1>2, <3>2, <4>1, <4>2
    <3> QED
      BY <1>2, <3>1, <3>2
  <2> QED
    BY <2>3, <2>4
<1> HIDE DEF more
<1>6. Range(more) \subseteq Range(list) \cup {a}
  <2> SUFFICES ASSUME NEW k \in 1..(Len(list) + 1) PROVE more[k] \in Range(list) \cup {a}
    BY <1>5 DEF Range
  <2>1. CASE k < i
    BY <1>2, <1>5, <2>1 DEF Range
  <2>2. CASE k = i
    BY <1>5, <2>2
  <2>3. CASE k > i
    <3>1. k - 1 \in 1..Len(list) /\ more[k] = list[k - 1]
      BY <1>2, <1>5, <2>3
    <3> QED
      BY <3>1 DEF Range
  <2> QED
    BY <1>2, <2>1, <2>2, <2>3
<1>7. a \in Range(more)
  <2>1. i \in 1..Len(more) /\ more[i] = a
    BY <1>2, <1>5
  <2> QED
    BY <1>5, <2>1 DEF Range
<1>8. ASSUME NEW k \in 1..Len(list) PROVE list[k] \in Range(more)
  <2>1. k < i => k \in 1..Len(more) /\ more[k] = list[k]
    BY <1>2, <1>5
  <2>2. ~(k < i) => k + 1 \in 1..Len(more) /\ more[k + 1] = list[k]
    BY <1>2, <1>5
  <2>3. \A j \in 1..Len(more) : more[j] \in Range(more)
    BY <1>5 DEF Range
  <2> QED
    BY <2>1, <2>2, <2>3
<1>9. Range(list) \subseteq Range(more)
  BY <1>8 DEF Range
<1> QED
  BY <1>1, <1>5, <1>6, <1>7, <1>9

\* A tab moves: the workspaces stay.
LEMMA ReorderFacts ==
  ASSUME TypeOK, NEW w \in Workspaces, NEW before \in Workspaces, Reorder(w, before)
  PROVE  open' \in Seq(Workspaces) /\ Range(open') = Range(open)
<1> DEFINE rest == Only(open, Range(open) \ {w})
           index == SelectInSeq(rest, LAMBDA v : v = before)
           i == IF index = 0 THEN Len(rest) + 1 ELSE index
<1>1. CASE w \notin Range(open)
  BY <1>1 DEF Reorder, TypeOK
<1>2. CASE w \in Range(open)
  <2>1. open' = InsertAt(rest, i, w)
    BY <1>2 DEF Reorder
  <2>2. rest \in Seq(Workspaces) /\ Range(rest) = Range(open) \ {w}
    <3> DEFINE S == Range(open) \ {w}
    <3>1. Range(open) \cap S = S
      OBVIOUS
    <3> HIDE DEF S
    <3>2. Only(open, S) \in Seq(Workspaces) /\ Range(Only(open, S)) = S
      BY <3>1, OnlyFacts DEF TypeOK
    <3> QED
      BY <3>2 DEF S
  <2> HIDE DEF rest
  <2>3. index \in 0..Len(rest)
    <3> DEFINE I == {k \in 1..Len(rest) : rest[k] = before}
    <3>1. index = IF I # {} THEN Min(I) ELSE 0
      BY DEF SelectInSeq
    <3>2. Len(rest) \in Nat /\ I \in SUBSET (1..Len(rest))
      BY <2>2
    <3> HIDE DEF I, index
    <3> QED
      BY <3>1, <3>2, FirstIndex
  <2> HIDE DEF index
  <2>4. i \in 1..(Len(rest) + 1)
    BY <2>2, <2>3
  <2> HIDE DEF i
  <2>5. InsertAt(rest, i, w) \in Seq(Workspaces) /\ Range(InsertAt(rest, i, w)) = Range(rest) \cup {w}
    BY <2>2, <2>4, Inserted
  <2> QED
    BY <1>2, <2>1, <2>2, <2>5
<1> QED
  BY <1>1, <1>2

\* The tab after or before the active one, round and round.
LEMMA NextTabType ==
  ASSUME TypeOK, NEW delta \in {-1, 1}, NextTab(delta)
  PROVE  ui' \in Uis
<1> DEFINE tabs == ShownTabs
           index == SelectInSeq(tabs, LAMBDA w : w = shown.ui.active)
           next == IF index = 0 THEN 1 ELSE ((index - 1 + delta) % Len(tabs)) + 1
<1>1. tabs \in Seq(Workspaces)
  BY ShownFacts
<1>2. tabs # << >> /\ ui' = [ui EXCEPT !.active = tabs[next]]
  BY DEF NextTab
<1> HIDE DEF tabs
<1>3. Len(tabs) \in Nat /\ Len(tabs) > 0
  BY <1>1, <1>2
<1>4. index \in 0..Len(tabs)
  <2> DEFINE I == {k \in 1..Len(tabs) : tabs[k] = shown.ui.active}
  <2>1. index = IF I # {} THEN Min(I) ELSE 0
    BY DEF SelectInSeq
  <2>2. I \in SUBSET (1..Len(tabs))
    OBVIOUS
  <2> HIDE DEF I, index
  <2> QED
    BY <1>3, <2>1, <2>2, FirstIndex
<1> HIDE DEF index
<1>5. next \in 1..Len(tabs)
  <2>1. (index - 1 + delta) % Len(tabs) \in 0..(Len(tabs) - 1)
    <3> DEFINE a == index - 1 + delta
               n == Len(tabs)
    <3>1. a \in Int /\ n \in Nat /\ n > 0
      BY <1>3, <1>4
    <3> HIDE DEF a, n
    <3>2. a % n \in 0..(n - 1)
      BY <3>1
    <3> QED
      BY <3>2 DEF a, n
  <2> DEFINE r == (index - 1 + delta) % Len(tabs)
  <2> HIDE DEF r
  <2>2. r \in 0..(Len(tabs) - 1)
    BY <2>1 DEF r
  <2>3. next = IF index = 0 THEN 1 ELSE r + 1
    BY DEF r
  <2> QED
    BY <1>3, <2>2, <2>3
<1> HIDE DEF next
<1>6. tabs[next] \in Places
  BY <1>1, <1>5, PlacesFacts
<1>7. ui \in Uis
  BY DEF TypeOK
<1> QED
  BY <1>2, <1>6, <1>7 DEF Uis

\* The window that a click or a pointer down activates.
LEMMA BroughtType ==
  ASSUME TypeOK, NEW id \in ShownWindows
  PROVE  Brought(id) \in Desktops
<1>1. desktop \in Desktops /\ id \in WindowIds
  BY ShownFacts DEF TypeOK
<1> QED
  BY <1>1, FocusFacts DEF Brought

LEMMA MeetsType == ASSUME TypeOK, NEW id, Meets(id) PROVE late' \in BOOLEAN
BY DEF TypeOK, Meets, ActsOn

LEMMA BringType ==
  ASSUME TypeOK, NEW id, Bring(id)
  PROVE  /\ desktop' \in Desktops /\ ui' \in Uis /\ late' \in BOOLEAN
<1>1. ui \in Uis
  BY DEF TypeOK
<1>2. desktop' \in Desktops
  BY BroughtType DEF Bring
<1>3. ui' \in Uis
  BY <1>1, PlacesFacts DEF Bring, Uis
<1>4. late' \in BOOLEAN
  BY MeetsType DEF Bring
<1> QED
  BY <1>2, <1>3, <1>4

LEMMA ReachType ==
  ASSUME TypeOK, NEW w, Reach(w)
  PROVE  /\ desktop' \in Desktops /\ ui' \in Uis /\ late' \in BOOLEAN
BY BringType DEF Reach, TypeOK

\* The actions of Tabs.
LEMMA TabsType == TypeOK /\ Tabs => TypeOK'
<1> SUFFICES ASSUME TypeOK, Tabs PROVE TypeOK'
  OBVIOUS
<1> USE DEF Click, Later
<1>a. desktop \in Desktops /\ ui \in Uis /\ plugins \in Consistent /\ canvas \in Canvases
  BY DEF TypeOK
<1>1. ASSUME NEW w \in Workspaces, CreateWorkspace(w) PROVE TypeOK'
  <2>1. /\ Add(w, << >>) /\ Event /\ lane' = "click"
        /\ canvas' = [canvas EXCEPT !.creator = None] /\ UNCHANGED <<plugins, history>>
    BY <1>1 DEF CreateWorkspace
  <2>2. PICK v \in Viewports : Present(w, canvas.creator, v)
    BY <1>1 DEF CreateWorkspace
  <2>3. canvas.creator \in Int \cup {None}
    BY <1>a DEF Canvases
  <2>4. desktop' \in Desktops /\ ui' \in Uis
    BY <2>2, <2>3, PresentType
  <2>5. << >> \in Seq(InstanceIds)
    OBVIOUS
  <2>6. /\ open' \in Seq(Workspaces) /\ used' \subseteq Workspaces /\ dirty' \subseteq Workspaces
        /\ views' \in Layers
    BY <2>1, <2>5, AddType
  <2>7. canvas' \in Canvases
    BY <1>a, <2>1 DEF Canvases
  <2> QED
    BY <2>1, <2>4, <2>6, <2>7, EventType DEF TypeOK, history
<1>2. ASSUME NEW w \in Workspaces, OpenNodeMap(w) PROVE TypeOK'
  <2>1. /\ Event /\ lane' = "later" /\ Present(w, None, None)
        /\ UNCHANGED <<plugins, canvas, history>>
    BY <1>2 DEF OpenNodeMap
  <2>2. PICK p \in Plugins, old \in BOOLEAN :
          Add(w, IF old THEN <<EnsuredId(plugins, p, w)>> ELSE << >>)
    BY <1>2 DEF OpenNodeMap
  <2> DEFINE windows == IF old THEN <<EnsuredId(plugins, p, w)>> ELSE << >>
  <2>3. windows \in Seq(InstanceIds)
    <3>1. plugins \in Runtimes /\ w \in Places
      BY <1>a, PlacesFacts DEF Consistent
    <3>2. EnsuredId(plugins, p, w) \in InstanceIds
      BY <3>1, EnsuredIdFacts
    <3> DEFINE id == EnsuredId(plugins, p, w)
    <3> HIDE DEF id
    <3>3. id \in InstanceIds
      BY <3>2 DEF id
    <3>4. (IF old THEN <<id>> ELSE << >>) \in Seq(InstanceIds)
      BY <3>3
    <3> QED
      BY <3>4 DEF id
  <2> HIDE DEF windows
  <2>4. Add(w, windows)
    BY <2>2 DEF windows
  <2>5. /\ open' \in Seq(Workspaces) /\ used' \subseteq Workspaces /\ dirty' \subseteq Workspaces
        /\ views' \in Layers
    BY <2>3, <2>4, AddType
  <2>6. desktop' \in Desktops /\ ui' \in Uis
    BY <2>1, PresentType
  <2> QED
    BY <2>1, <2>5, <2>6, EventType DEF TypeOK, history
<1>3. ASSUME NEW w \in Workspaces, Edit(w) PROVE TypeOK'
  <2>1. desktop' \in Desktops /\ ui' \in Uis /\ late' \in BOOLEAN
    BY <1>3, ReachType DEF Edit, TypeOK
  <2> QED
    BY <1>3, <2>1, EventType DEF Edit, TypeOK
<1>4. ASSUME NEW w \in Workspaces, ActivateTab(w) PROVE TypeOK'
  <2>1. ui' \in Uis
    BY <1>a, <1>4, PlacesFacts DEF ActivateTab, Uis
  <2> QED
    BY <1>4, <2>1, EventType DEF ActivateTab, Turn, TypeOK, history, session
<1>4a. ASSUME NEW w \in Workspaces, CloseWindow(w) PROVE TypeOK'
  <2>1. desktop' \in Desktops
    BY <1>4a, BroughtType, RestoredTabFacts DEF CloseWindow
  <2>2. ui' \in Uis
    BY <1>a, <1>4a, PlacesFacts DEF CloseWindow, Uis
  <2>3. late' \in BOOLEAN
    BY <1>4a, MeetsType DEF CloseWindow
  <2> QED
    BY <1>4a, <2>1, <2>2, <2>3, EventType DEF CloseWindow, TypeOK, session
<1>5. ASSUME NEW w \in Workspaces, NEW before \in Workspaces, Reorder(w, before) PROVE TypeOK'
  <2>1. open' \in Seq(Workspaces)
    BY <1>5, ReorderFacts
  <2>2. UNCHANGED <<used, dirty, views, desktop, ui, plugins, canvas, history>> /\ Click
    BY <1>5 DEF Reorder
  <2> QED
    BY <2>1, <2>2, EventType DEF TypeOK, history
<1>6. CASE CloseFocusedWindow
  <2>1. desktop' \in Desktops
    BY <1>a, <1>6, RestoredTabFacts DEF CloseFocusedWindow
  <2>2. ui' \in Uis
    BY <1>a, <1>6, ShownFacts DEF CloseFocusedWindow, Uis
  <2> QED
    BY <1>6, <2>1, <2>2, EventType DEF CloseFocusedWindow, Turn, TypeOK, history, session
<1>7. CASE OpenCreator
  <2>1. ui' \in Uis
    <3> DEFINE n == ui.requests + 1
    <3>1. n \in Nat
      BY <1>a DEF Uis
    <3>2. ui' = [ui EXCEPT !.active = None, !.requests = n]
      BY <1>7 DEF OpenCreator
    <3> HIDE DEF n
    <3> QED
      BY <1>a, <3>1, <3>2, PlacesFacts DEF Uis
  <2> QED
    BY <1>7, <2>1, EventType DEF OpenCreator, Turn, TypeOK, history, session
<1>8. ASSUME NEW delta \in {-1, 1}, NextTab(delta) PROVE TypeOK'
  <2>1. ui' \in Uis
    BY <1>8, NextTabType
  <2>2. Click /\ Turn /\ UNCHANGED desktop
    BY <1>8 DEF NextTab
  <2> QED
    BY <2>1, <2>2, EventType DEF Turn, TypeOK, history, session
<1>9. ASSUME NEW mode \in {"tab", "window"}, SetOpenMode(mode) PROVE TypeOK'
  <2>1. ui' \in Uis
    BY <1>a, <1>9 DEF SetOpenMode, Uis
  <2> QED
    BY <1>9, <2>1, EventType DEF SetOpenMode, Turn, TypeOK, history, session
<1>10. ASSUME NEW w \in Workspaces, NEW point \in Points, NEW v \in Viewports, Drop(w, point, v)
       PROVE  TypeOK'
  <2> DEFINE to == ScreenToWorld(point, shown.desktop.camera)
  <2>1. to \in Int
    <3>1. shown.desktop.camera \in Cameras
      BY ShownFacts, DesktopShape
    <3>2. point \in Int
      BY DesktopAssumption
    <3> QED
      BY <3>1, <3>2, ScreenToWorldFacts
  <2>2. /\ Click /\ ActsOn(w) /\ UNCHANGED <<session, plugins, canvas, exports, failures>>
        /\ desktop' = Presented(desktop, w, to, "top-left", v)
        /\ ui' = [ui EXCEPT !.active = None, !.focused = w]
    BY <1>10 DEF Drop
  <2> HIDE DEF to
  <2>3. desktop' \in Desktops
    BY <1>a, <2>1, <2>2, PresentedFacts
  <2>4. ui' \in Uis
    BY <1>a, <2>2, PlacesFacts DEF Uis
  <2> QED
    BY <2>2, <2>3, <2>4, EventType, ActsOnType DEF TypeOK, session
<1> QED
  BY <1>1, <1>2, <1>3, <1>4, <1>4a, <1>5, <1>6, <1>7, <1>8, <1>9, <1>10 DEF Tabs

\* The actions of SystemWindows.
LEMMA SystemWindowsType == TypeOK /\ SystemWindows => TypeOK'
<1> SUFFICES ASSUME TypeOK, SystemWindows PROVE TypeOK'
  OBVIOUS
<1> USE DEF Click, Later
<1>a. desktop \in Desktops /\ plugins \in Consistent /\ plugins \in Runtimes /\ canvas \in Canvases
      /\ views \in Layers
  BY DEF TypeOK, Consistent
<1>1. ASSUME NEW p \in Plugins, OpenHostPlugin(p) PROVE TypeOK'
  <2> DEFINE id == EnsuredId(plugins, p, NoWorkspace)
  <2>1. /\ Click /\ canvas.creator # None
        /\ plugins' = Ensured(plugins, p, NoWorkspace)
        /\ desktop' = OpenedSystem(desktop, id, canvas.creator, PluginSize[p])
        /\ canvas' = [canvas EXCEPT !.creator = None]
        /\ UNCHANGED <<session, ui, history>>
    BY <1>1 DEF OpenHostPlugin
  <2>2. NoWorkspace \in Places
    BY PlacesFacts
  <2>3. plugins' \in Consistent
    BY <1>a, <2>1, <2>2, EnsuredFacts
  <2>4. id \in InstanceIds
    BY <1>a, <2>2, EnsuredIdFacts
  <2>5. PluginSize[p] \in MinSize..MaxSize
    BY DesktopAssumption
  <2>6. canvas.creator \in Int
    BY <1>a, <2>1 DEF Canvases
  <2> HIDE DEF id
  <2>7. desktop' \in Desktops
    BY <1>a, <2>1, <2>4, <2>5, <2>6, OpenedSystemFacts
  <2>8. canvas' \in Canvases
    BY <1>a, <2>1 DEF Canvases
  <2> QED
    BY <2>1, <2>3, <2>7, <2>8, EventType DEF TypeOK, history, session
<1>2. ASSUME NEW id, CloseHostPlugin(id) PROVE TypeOK'
  <2>1. /\ Click /\ desktop' = ClosedSystem(Brought(id), id) /\ id \in ShownWindows
        /\ plugins' = Disposed(plugins, Range(Releases(plugins, <<id>>)))
        /\ UNCHANGED <<session, ui, canvas, history>>
    BY <1>2 DEF CloseHostPlugin, ShownWindows
  <2>2. desktop' \in Desktops
    BY <2>1, BroughtType, ClosedSystemFacts
  <2>3. plugins' \in Consistent
    BY <1>a, <2>1, DisposedFacts
  <2> QED
    BY <2>1, <2>2, <2>3, EventType DEF TypeOK, history, session
<1>3. ASSUME NEW w \in Workspaces, NEW p \in Plugins, OpenWorkspacePlugin(w, p) PROVE TypeOK'
  <2> DEFINE id == EnsuredId(plugins, p, w)
  <2>1. /\ Click /\ plugins' = Ensured(plugins, p, w) /\ Reach(w)
        /\ views' = [views EXCEPT ![w] = IF w \notin Range(open) \/ id \in Range(@) THEN @ ELSE Append(@, id)]
        /\ UNCHANGED <<open, used, dirty, canvas, exports, failures>>
    BY <1>3 DEF OpenWorkspacePlugin
  <2>2. w \in Places
    BY PlacesFacts
  <2>3. plugins' \in Consistent
    BY <1>a, <2>1, <2>2, EnsuredFacts
  <2>4. id \in InstanceIds
    BY <1>a, <2>2, EnsuredIdFacts
  <2> HIDE DEF id
  <2>5. views' \in Layers
    BY <1>a, <2>1, <2>4 DEF Layers
  <2> QED
    BY <2>1, <2>3, <2>5, EventType, ReachType DEF TypeOK
<1>4. ASSUME NEW w \in Workspaces, NEW id, CloseWorkspacePlugin(w, id) PROVE TypeOK'
  <2> DEFINE left == Only(views[w], Range(views[w]) \ {id})
  <2>1. /\ Click /\ views' = [views EXCEPT ![w] = left]
        /\ plugins' = Disposed(plugins, Range(Releases(plugins, <<id>>)))
        /\ Reach(w)
        /\ UNCHANGED <<open, used, dirty, canvas, exports, failures>>
    BY <1>a, <1>4 DEF CloseWorkspacePlugin, Layers
  <2>2. left \in Seq(InstanceIds)
    <3> DEFINE S == Range(views[w]) \ {id}
               list == views[w]
    <3>1. list \in Seq(InstanceIds)
      BY <1>a DEF Layers
    <3> HIDE DEF S, list
    <3>2. Only(list, S) \in Seq(InstanceIds)
      BY <3>1, OnlyFacts
    <3> QED
      BY <3>2 DEF S, list
  <2> HIDE DEF left
  <2>3. views' \in Layers
    BY <1>a, <2>1, <2>2 DEF Layers
  <2>4. plugins' \in Consistent
    BY <1>a, <2>1, DisposedFacts
  <2> QED
    BY <2>1, <2>3, <2>4, EventType, ReachType DEF TypeOK
<1> QED
  BY <1>1, <1>2, <1>3, <1>4 DEF SystemWindows

\* Gestures.
LEMMA CanvasFacts ==
  ASSUME NEW c \in Canvases
  PROVE  /\ c = [preview |-> c.preview, gesture |-> c.gesture, creator |-> c.creator]
         /\ c.preview \in Cameras \cup {None} /\ c.creator \in Int \cup {None}
         /\ c.gesture.kind \in {"pan", "wire", "pinch"} => c.gesture \in CanvasGestures
         /\ c.gesture.kind = "window" => c.gesture \in WindowGestures
<1>1. /\ c = [preview |-> c.preview, gesture |-> c.gesture, creator |-> c.creator]
      /\ c.preview \in Cameras \cup {None} /\ c.creator \in Int \cup {None}
      /\ c.gesture \in {NoGesture} \cup CanvasGestures \cup WindowGestures
  BY DEF Canvases
<1>2. NoGesture.kind = "none"
  BY DEF NoGesture
<1>3. \A g \in CanvasGestures : g.kind \in {"pan", "wire", "pinch"}
  BY DEF CanvasGestures
<1>4. \A g \in WindowGestures : g.kind = "window"
  BY DEF WindowGestures
<1> QED
  BY <1>1, <1>2, <1>3, <1>4

LEMMA CanvasOf ==
  ASSUME NEW preview \in Cameras \cup {None},
         NEW gesture \in {NoGesture} \cup CanvasGestures \cup WindowGestures,
         NEW creator \in Int \cup {None}
  PROVE  [preview |-> preview, gesture |-> gesture, creator |-> creator] \in Canvases
BY DEF Canvases

LEMMA FrameOfFacts ==
  ASSUME NEW d \in Desktops, NEW id, HasWindow(d, id)
  PROVE  /\ FrameOf(d, id) \in Frames
         /\ id \in WindowIds
<1>1. /\ d.workspaces \in Layouts(Workspaces) /\ d.systems \in Layouts(InstanceIds)
      /\ DOMAIN d.workspaces \subseteq Workspaces /\ DOMAIN d.systems \subseteq InstanceIds
  BY DesktopShape
<1>2. /\ \A x \in DOMAIN d.workspaces : d.workspaces[x] \in Frames
      /\ \A x \in DOMAIN d.systems : d.systems[x] \in Frames
  BY <1>1, LayoutFacts
<1> QED
  BY <1>1, <1>2 DEF HasWindow, FrameOf, WindowIds

\* A middle of a viewport, in the world.
LEMMA CenterFacts ==
  ASSUME NEW viewport \in Viewports, NEW camera \in Cameras
  PROVE  Center(viewport, camera) \in Int
<1>1. viewport \in Int
  BY DesktopAssumption
<1>2. viewport \div 2 \in Int
  BY <1>1, Quotient
<1> QED
  BY <1>2, ScreenToWorldFacts DEF Center

\* A canvas whose gesture, preview or creator is another.
LEMMA CanvasEdits ==
  ASSUME NEW c \in Canvases
  PROVE  /\ \A x \in Int \cup {None} : [c EXCEPT !.creator = x] \in Canvases
         /\ \A x \in Cameras \cup {None} : [c EXCEPT !.preview = x] \in Canvases
         /\ \A g \in {NoGesture} \cup CanvasGestures \cup WindowGestures :
              /\ [c EXCEPT !.gesture = g] \in Canvases
              /\ \A x \in Int \cup {None} : [c EXCEPT !.gesture = g, !.creator = x] \in Canvases
              /\ \A x \in Cameras \cup {None} : [c EXCEPT !.preview = x, !.gesture = g] \in Canvases
<1> DEFINE G == {NoGesture} \cup CanvasGestures \cup WindowGestures
<1>1. c \in [preview : Cameras \cup {None}, gesture : G, creator : Int \cup {None}]
  BY DEF Canvases
<1> HIDE DEF G
<1>2. /\ \A x \in Int \cup {None} : [c EXCEPT !.creator = x] \in [preview : Cameras \cup {None}, gesture : G, creator : Int \cup {None}]
      /\ \A x \in Cameras \cup {None} : [c EXCEPT !.preview = x] \in [preview : Cameras \cup {None}, gesture : G, creator : Int \cup {None}]
      /\ \A g \in G :
              /\ [c EXCEPT !.gesture = g] \in [preview : Cameras \cup {None}, gesture : G, creator : Int \cup {None}]
              /\ \A x \in Int \cup {None} : [c EXCEPT !.gesture = g, !.creator = x] \in [preview : Cameras \cup {None}, gesture : G, creator : Int \cup {None}]
              /\ \A x \in Cameras \cup {None} : [c EXCEPT !.preview = x, !.gesture = g] \in [preview : Cameras \cup {None}, gesture : G, creator : Int \cup {None}]
  BY <1>1
<1> QED
  BY <1>2 DEF Canvases, G

\* The actions of Gestures on the canvas.
CanvasStep ==
  /\ desktop' \in Desktops /\ canvas' \in Canvases
  /\ Event /\ lane' \in {"click", "later"}
  /\ UNCHANGED <<session, ui, plugins, history>>

LEMMA CanvasStepType == TypeOK /\ CanvasStep => TypeOK'
<1> SUFFICES ASSUME TypeOK, CanvasStep PROVE TypeOK'
  OBVIOUS
<1>1. /\ desktop' \in Desktops /\ canvas' \in Canvases /\ lane' \in {"click", "later"}
      /\ Event /\ UNCHANGED <<session, ui, plugins, history>>
  BY DEF CanvasStep
<1>2. /\ events' \in Nat /\ shown' \in Renders /\ restoring' \in BOOLEAN /\ mounted' \in BOOLEAN
  BY <1>1, EventType
<1> QED
  BY <1>1, <1>2 DEF TypeOK, session, history

LEMMA CanvasSteps ==
  ASSUME TypeOK
  PROVE  /\ Space => CanvasStep
         /\ Escape => CanvasStep
         /\ \A kind \in {"pan", "wire", "pinch"} : Begin(kind) => CanvasStep
         /\ \A delta \in Deltas : Move(delta) => CanvasStep
         /\ \A zoom \in Zooms : Pinch(zoom) => CanvasStep
         /\ EndPan => CanvasStep
         /\ \A point \in Points : EndWire(point) => CanvasStep
         /\ EndPinch => CanvasStep
         /\ Cancel => CanvasStep
         /\ \A camera \in Wheels : Wheel(camera) => CanvasStep
         /\ \A delta \in Deltas : Drag(delta) => CanvasStep
         /\ Release => CanvasStep
<1> USE DEF Click, Later, Touch
<1>a. desktop \in Desktops /\ canvas \in Canvases
  BY DEF TypeOK
<1>b. Points \subseteq Int /\ Deltas \subseteq Int /\ Zooms \subseteq Nat \ {0}
  BY DesktopAssumption
<1>c. /\ ShownCamera \in Cameras /\ shown.desktop.viewport \in Viewports
      /\ \A delta \in Int : [ShownCamera EXCEPT !.x = @ - delta] \in Cameras
      /\ \A zoom \in Zooms : [ShownCamera EXCEPT !.scale = zoom] \in Cameras
  <2>1. ShownCamera \in Cameras /\ shown.desktop.viewport \in Viewports
    BY ShownFacts, DesktopShape
  <2> DEFINE c == ShownCamera
  <2> HIDE DEF c
  <2>2. c \in Cameras
    BY <2>1 DEF c
  <2>3. \A delta \in Int : [c EXCEPT !.x = @ - delta] \in Cameras
    BY <2>2 DEF Cameras
  <2>4. \A zoom \in Zooms : [c EXCEPT !.scale = zoom] \in Cameras
    BY <1>b, <2>2 DEF Cameras
  <2> QED
    BY <2>1, <2>3, <2>4 DEF c
<1>1. ASSUME Space PROVE CanvasStep
  <2> DEFINE x == Center(shown.desktop.viewport, ShownCamera)
  <2>1. x \in Int
    BY <1>c, CenterFacts
  <2>2. canvas' = [canvas EXCEPT !.creator = x]
    BY <1>1 DEF Space
  <2> HIDE DEF x
  <2>3. canvas' \in Canvases
    BY <1>a, <2>1, <2>2, CanvasEdits
  <2> QED
    BY <1>a, <1>1, <2>3 DEF Space, CanvasStep
<1>2. ASSUME Escape PROVE CanvasStep
  <2>1. canvas' \in Canvases
    BY <1>a, <1>2, CanvasEdits DEF Escape
  <2> QED
    BY <1>a, <1>2, <2>1 DEF Escape, CanvasStep
<1>3. ASSUME NEW kind \in {"pan", "wire", "pinch"}, Begin(kind) PROVE CanvasStep
  <2> DEFINE g == [kind |-> kind, camera |-> ShownCamera]
  <2>1. g \in CanvasGestures
    BY <1>c DEF CanvasGestures
  <2>2. canvas' = [canvas EXCEPT !.gesture = g]
    BY <1>3 DEF Begin
  <2> HIDE DEF g
  <2>3. canvas' \in Canvases
    BY <1>a, <2>1, <2>2, CanvasEdits
  <2> QED
    BY <1>a, <1>3, <2>3 DEF Begin, CanvasStep
<1>d. canvas.gesture.kind \in {"pan", "pinch"} => canvas.gesture.camera \in Cameras
  BY <1>a, CanvasFacts DEF CanvasGestures
<1>4. ASSUME NEW delta \in Deltas, Move(delta) PROVE CanvasStep
  <2> DEFINE c == canvas.gesture.camera
             to == [c EXCEPT !.x = @ + delta]
  <2>1. c \in Cameras /\ delta \in Int
    BY <1>b, <1>d, <1>4 DEF Move
  <2>2. canvas' = [canvas EXCEPT !.preview = to]
    BY <1>4 DEF Move
  <2> HIDE DEF c
  <2>3. to \in Cameras
    BY <2>1 DEF Cameras
  <2> HIDE DEF to
  <2>4. canvas' \in Canvases
    BY <1>a, <2>2, <2>3, CanvasEdits
  <2> QED
    BY <1>a, <1>4, <2>4 DEF Move, CanvasStep
<1>5. ASSUME NEW zoom \in Zooms, Pinch(zoom) PROVE CanvasStep
  <2> DEFINE c == canvas.gesture.camera
             to == [c EXCEPT !.scale = zoom]
  <2>1. c \in Cameras /\ zoom \in Nat \ {0}
    BY <1>b, <1>d, <1>5 DEF Pinch
  <2>2. canvas' = [canvas EXCEPT !.preview = to]
    BY <1>5 DEF Pinch
  <2> HIDE DEF c
  <2>3. to \in Cameras
    BY <2>1 DEF Cameras
  <2> HIDE DEF to
  <2>4. canvas' \in Canvases
    BY <1>a, <2>2, <2>3, CanvasEdits
  <2> QED
    BY <1>a, <1>5, <2>4 DEF Pinch, CanvasStep
<1>6. ASSUME EndPan PROVE CanvasStep
  <2> DEFINE moved == [desktop EXCEPT !.camera = ShownCamera]
  <2>1. moved \in Desktops
    BY <1>a, <1>c, FocusFacts
  <2>2. desktop' = ClearedActive(moved)
    BY <1>6 DEF EndPan
  <2> HIDE DEF moved
  <2>3. desktop' \in Desktops
    BY <2>1, <2>2, FocusFacts
  <2>4. canvas' \in Canvases
    BY <1>a, <1>6, CanvasEdits DEF EndPan
  <2> QED
    BY <1>6, <2>3, <2>4 DEF EndPan, CanvasStep
<1>7. ASSUME NEW point \in Points, EndWire(point) PROVE CanvasStep
  <2> DEFINE x == ScreenToWorld(point, ShownCamera)
  <2>1. x \in Int
    BY <1>b, <1>c, ScreenToWorldFacts
  <2>2. canvas' = [canvas EXCEPT !.gesture = NoGesture, !.creator = x]
    BY <1>7 DEF EndWire
  <2> HIDE DEF x
  <2>3. canvas' \in Canvases
    BY <1>a, <2>1, <2>2, CanvasEdits
  <2> QED
    BY <1>a, <1>7, <2>3 DEF EndWire, CanvasStep
<1>8. ASSUME EndPinch PROVE CanvasStep
  <2> DEFINE x == IF shown.preview = None THEN canvas.preview ELSE None
  <2>1. x \in Cameras \cup {None}
    BY <1>a, CanvasFacts
  <2>2. canvas' = [canvas EXCEPT !.preview = x, !.gesture = NoGesture]
    BY <1>8 DEF EndPinch
  <2> HIDE DEF x
  <2>3. canvas' \in Canvases
    BY <1>a, <2>1, <2>2, CanvasEdits
  <2>4. desktop' \in Desktops
    BY <1>a, <1>c, <1>8, FocusFacts DEF EndPinch
  <2> QED
    BY <1>8, <2>3, <2>4 DEF EndPinch, CanvasStep
<1>9. ASSUME Cancel PROVE CanvasStep
  <2>1. canvas' \in Canvases
    BY <1>a, <1>9, CanvasEdits DEF Cancel
  <2> QED
    BY <1>a, <1>9, <2>1 DEF Cancel, CanvasStep
<1>10. ASSUME NEW camera \in Wheels, Wheel(camera) PROVE CanvasStep
  <2>1. camera \in Cameras
    BY <1>b, <1>c DEF Wheels
  <2>2. desktop' \in Desktops
    BY <1>a, <1>10, <2>1, FocusFacts DEF Wheel
  <2>3. canvas' \in Canvases
    BY <1>a, <1>10, CanvasEdits DEF Wheel
  <2> QED
    BY <1>10, <2>2, <2>3 DEF Wheel, CanvasStep
<1>11. ASSUME NEW delta \in Deltas, Drag(delta) PROVE CanvasStep
  <2> DEFINE g == canvas.gesture
             to == Resized(g.start, g.direction, delta)
             h == [g EXCEPT !.last = to]
  <2>1. g \in WindowGestures
    BY <1>a, <1>11, CanvasFacts DEF Drag
  <2>2. to \in Frames
    BY <1>b, <2>1, ResizedFacts DEF WindowGestures, Directions
  <2>3. canvas' = [canvas EXCEPT !.gesture = h]
    BY <1>a, <1>11, CanvasFacts DEF Drag
  <2>6. Right(to) <= World \/ Right(to) <= Right(g.start)
    <3>1. g.start \in Frames /\ g.direction \in {"none", "east", "west"} /\ delta \in Int
      BY <1>b, <2>1 DEF WindowGestures, Directions
    <3>2. to.x + to.size <= World \/ to.x + to.size <= g.start.x + g.start.size
      BY <3>1, ResizedFacts
    <3> QED
      BY <3>2 DEF Right
  <2> HIDE DEF g, to
  <2>4. h \in WindowGestures
    <3>1. g = [kind |-> g.kind, id |-> g.id, direction |-> g.direction, start |-> g.start, last |-> g.last]
      BY <2>1 DEF WindowGestures
    <3>2. h = [kind |-> g.kind, id |-> g.id, direction |-> g.direction, start |-> g.start, last |-> to]
      BY <3>1
    <3> HIDE DEF h
    <3> QED
      BY <2>1, <2>2, <2>6, <3>2 DEF WindowGestures
  <2> HIDE DEF h
  <2>5. canvas' \in Canvases
    BY <1>a, <2>3, <2>4, CanvasEdits
  <2> QED
    BY <1>a, <1>11, <2>5 DEF Drag, CanvasStep
<1>12. ASSUME Release PROVE CanvasStep
  <2> DEFINE g == canvas.gesture
  <2>1. g \in WindowGestures
    BY <1>a, <1>12, CanvasFacts DEF Release
  <2>2. canvas' = [canvas EXCEPT !.gesture = NoGesture] /\ Click
        /\ UNCHANGED <<session, ui, plugins, history>>
        /\ desktop' = IF g.last = g.start THEN desktop ELSE Framed(desktop, g.id, g.last)
    BY <1>12 DEF Release
  <2>3. canvas' \in Canvases
    BY <1>a, <2>2, CanvasEdits
  <2> HIDE DEF g
  <2>4. g.last \in Frames /\ (g.id \in InstanceIds => g.last.x + g.last.size <= World)
    <3>1. /\ g.last \in Frames /\ g.start \in Frames
          /\ g.id \in InstanceIds => Right(g.start) <= World
          /\ Right(g.last) <= World \/ Right(g.last) <= Right(g.start)
      BY <2>1 DEF WindowGestures
    <3>2. Right(g.start) \in Int /\ Right(g.last) \in Int /\ World \in Int
      BY <3>1, Sizes DEF Frames, Right
    <3> QED
      BY <3>1, <3>2 DEF Right
  <2>5. desktop' \in Desktops
    BY <1>a, <2>2, <2>4, FramedFacts
  <2> QED
    BY <2>2, <2>3, <2>5 DEF CanvasStep
<1> QED
  BY <1>1, <1>2, <1>3, <1>4, <1>5, <1>6, <1>7, <1>8, <1>9, <1>10, <1>11, <1>12

\* A frame that a gesture starts with.
LEMMA GrabbedFacts ==
  ASSUME TypeOK, NEW id \in ShownWindows, NEW direction \in Directions
  PROVE  LET start == FrameOf(shown.desktop, id) IN
         [kind |-> "window", id |-> id, direction |-> direction, start |-> start, last |-> start]
           \in WindowGestures
<1> DEFINE start == FrameOf(shown.desktop, id)
<1>1. shown.desktop \in Desktops /\ HasWindow(shown.desktop, id)
  BY ShownFacts DEF ShownWindows, HasWindow
<1>2. start \in Frames /\ id \in WindowIds
  BY <1>1, FrameOfFacts
<1>3. id \in InstanceIds => Right(start) <= World
  <2> SUFFICES ASSUME id \in InstanceIds PROVE Right(start) <= World
    OBVIOUS
  <2>1. id \notin Workspaces
    BY DesktopAssumption DEF InstanceIds, Places
  <2>2. /\ DOMAIN shown.desktop.workspaces \subseteq Workspaces
        /\ \A x \in DOMAIN shown.desktop.systems :
             shown.desktop.systems[x].x + shown.desktop.systems[x].size <= World
    BY <1>1, DesktopShape
  <2>3. id \in DOMAIN shown.desktop.systems /\ start = shown.desktop.systems[id]
    BY <1>1, <2>1, <2>2 DEF HasWindow, FrameOf
  <2> QED
    BY <2>2, <2>3 DEF Right
<1> HIDE DEF start
<1>4. Right(start) <= Right(start)
  BY <1>2, Sizes DEF Frames, Right
<1>5. [kind |-> "window", id |-> id, direction |-> direction, start |-> start, last |-> start]
        \in WindowGestures
  BY <1>2, <1>3, <1>4 DEF WindowGestures
<1> QED
  BY <1>5 DEF start

LEMMA GesturesType == TypeOK /\ Gestures => TypeOK'
<1> SUFFICES ASSUME TypeOK, Gestures PROVE TypeOK'
  OBVIOUS
<1> USE DEF Click, Later
<1>1. ASSUME NEW id \in ShownWindows, ActivateWindow(id) PROVE TypeOK'
  <2>1. Bring(id) /\ Click /\ UNCHANGED <<session, plugins, canvas, exports, failures>>
    BY <1>1 DEF ActivateWindow
  <2> QED
    BY <2>1, BringType, EventType DEF TypeOK, session
<1>2. ASSUME NEW id \in ShownWindows, NEW direction \in Directions, Grab(id, direction) PROVE TypeOK'
  <2> DEFINE start == FrameOf(shown.desktop, id)
             g == [kind |-> "window", id |-> id, direction |-> direction, start |-> start, last |-> start]
  <2>1. /\ Bring(id) /\ Click /\ UNCHANGED <<session, plugins, exports, failures>>
        /\ canvas' = [canvas EXCEPT !.gesture = g]
    BY <1>2 DEF Grab
  <2>2. g \in WindowGestures
    BY GrabbedFacts
  <2> HIDE DEF g
  <2>3. canvas' \in Canvases
    BY <2>1, <2>2, CanvasEdits DEF TypeOK
  <2> QED
    BY <2>1, <2>3, BringType, EventType DEF TypeOK, session
<1> QED
  BY <1>1, <1>2, CanvasSteps, CanvasStepType DEF Gestures, Directions

\* What the next render shows, and what is left of the canvas.
LEMMA RenderedFacts ==
  ASSUME TypeOK
  PROVE  /\ Rendered \in Renders
         /\ Mounted(Rendered) \in Canvases
         /\ [Rendered EXCEPT !.preview = Mounted(Rendered).preview] \in Renders
<1> DEFINE r == Rendered
           m == Mounted(r)
<1>1. /\ open \in Seq(Workspaces) /\ dirty \subseteq Workspaces /\ views \in Layers
      /\ desktop \in Desktops /\ ui \in Uis /\ canvas \in Canvases
  BY DEF TypeOK
<1>2. canvas.preview \in Cameras \cup {None}
  BY <1>1, CanvasFacts
<1>3. r = [open |-> open, dirty |-> dirty, views |-> views, desktop |-> desktop, ui |-> ui,
           preview |-> canvas.preview]
  BY DEF Rendered
<1>4. r \in Renders
  BY <1>1, <1>2, <1>3 DEF Renders
<1> HIDE DEF r
<1>5. m \in Canvases
  <2> DEFINE kept == IF canvas.gesture.kind = "window" /\ ~HasWindow(r.desktop, canvas.gesture.id)
                     THEN [canvas EXCEPT !.gesture = NoGesture] ELSE canvas
             center == Center(r.desktop.viewport, OrElse(kept.preview, r.desktop.camera))
  <2>1. NewCanvas \in Canvases
    BY DEF NewCanvas, Canvases
  <2>2. kept \in Canvases
    BY <1>1, CanvasEdits
  <2>3. m \in {NewCanvas, [kept EXCEPT !.creator = center], kept}
    BY DEF Mounted
  <2> HIDE DEF kept, m
  <2>4. center \in Int
    <3>1. r.desktop \in Desktops
      BY <1>1, <1>3
    <3>2. r.desktop.viewport \in Viewports /\ r.desktop.camera \in Cameras
      BY <3>1, DesktopShape
    <3>3. OrElse(kept.preview, r.desktop.camera) \in Cameras
      BY <2>2, <3>2, CanvasFacts DEF OrElse
    <3> QED
      BY <3>2, <3>3, CenterFacts
  <2> HIDE DEF center
  <2>5. [kept EXCEPT !.creator = center] \in Canvases
    BY <2>2, <2>4, CanvasEdits
  <2> QED
    BY <2>1, <2>2, <2>3, <2>5
<1> HIDE DEF m
<1>6. m.preview \in Cameras \cup {None}
  BY <1>5, CanvasFacts
<1>7. [r EXCEPT !.preview = m.preview] \in Renders
  <2> DEFINE p == m.preview
  <2> HIDE DEF p
  <2>1. p \in Cameras \cup {None}
    BY <1>6 DEF p
  <2>2. [r EXCEPT !.preview = p] \in Renders
    BY <1>4, <2>1 DEF Renders
  <2> QED
    BY <2>2 DEF p
<1> QED
  BY <1>4, <1>5, <1>7 DEF r, m

LEMMA RendersReadable ==
  ASSUME NEW render \in Renders
  PROVE  Readable(render)
<1>1. render.open \in Seq(Workspaces) /\ render.views \in Layers /\ render.desktop \in Desktops
  BY DEF Renders
<1>2. DOMAIN render.desktop.systems \subseteq InstanceIds /\ IsFiniteSet(DOMAIN render.desktop.systems)
  BY <1>1, DesktopShape
<1> QED
  BY <1>1, <1>2 DEF Readable, Layers

LEMMA CommitType ==
  ASSUME TypeOK, NEW again \in BOOLEAN, Commit(again)
  PROVE  TypeOK'
<1> DEFINE render == [Rendered EXCEPT !.preview = Mounted(Rendered).preview]
           due == again \/ render.open # shown.open \/ render.views # shown.views
                     \/ render.dirty # shown.dirty
                     \/ render.desktop.systems # shown.desktop.systems
           before == IF restoring THEN Restore(plugins, shown) ELSE plugins
<1>1. /\ shown' = render
      /\ canvas' = Mounted(Rendered)
      /\ plugins' = IF due /\ lane = "click" THEN Restore(before, render) ELSE before
      /\ restoring' = (due /\ lane = "later")
      /\ lane' = "idle"
      /\ UNCHANGED <<session, desktop, ui, history, mounted, events>>
  BY DEF Commit
<1>2. render \in Renders /\ canvas' \in Canvases
  BY <1>1, RenderedFacts
<1> HIDE DEF render
<1>3. Readable(render) /\ Readable(shown) /\ plugins \in Consistent
  BY <1>2, RendersReadable DEF TypeOK
<1>4. before \in Consistent
  BY <1>3, RestoreFacts
<1> HIDE DEF before
<1>5. plugins' \in Consistent
  BY <1>1, <1>3, <1>4, RestoreFacts
<1>6. shown' \in Renders /\ lane' \in {"idle", "click", "later"}
  BY <1>1, <1>2
<1>7. restoring' \in BOOLEAN
  BY <1>1
<1> QED
  BY <1>1, <1>2, <1>5, <1>6, <1>7 DEF TypeOK, session, history

LEMMA PassiveType == ASSUME TypeOK, Passive PROVE TypeOK'
<1>1. plugins \in Consistent /\ Readable(shown)
  BY RendersReadable DEF TypeOK
<1>2. plugins' \in Consistent
  BY <1>1, RestoreFacts DEF Passive
<1> QED
  BY <1>2 DEF Passive, TypeOK, session, history

LEMMA UnmountType == ASSUME TypeOK, Unmount PROVE TypeOK'
<1>1. plugins' \in Consistent
  BY DisposedFacts DEF Unmount, AllDisposed, TypeOK
<1> QED
  BY <1>1 DEF Unmount, TypeOK, session, history

LEMMA TypeStep == TypeOK /\ [Next]_vars => TypeOK'
<1>1. ASSUME TypeOK, UNCHANGED vars PROVE TypeOK'
  BY <1>1 DEF TypeOK, vars, session
<1> QED
  BY <1>1, ClosingType, TabsType, SystemWindowsType, GesturesType, CommitType, PassiveType,
     UnmountType DEF Next

\* Whatever workspaces, plugins, frames, cameras and gestures there are, the
\* handlers and the renders keep the desktop well formed.
THEOREM TypeCorrect == Spec => []TypeOK
<1>1. TypeOK /\ [Next]_vars => TypeOK'
  BY TypeStep
<1> QED
  BY <1>1, TypeInit, PTL DEF Spec
-----------------------------------------------------------------------------
(***************************************************************************)
(* The overlay graph.                                                      *)
(***************************************************************************)

\* A runtime that is consistent has as many instances as ids.
LEMMA InstancesCounted ==
  ASSUME NEW r \in Consistent
  PROVE  Len(r.instances) = Cardinality(Ids(r))
<1> DEFINE n == Len(r.instances)
           f == [k \in 1..n |-> r.instances[k].id]
<1>1. /\ r.instances \in Seq(Instances)
      /\ \A j, k \in DOMAIN r.instances : r.instances[j].id = r.instances[k].id => j = k
  BY DEF Consistent, Runtimes
<1>2. n \in Nat /\ DOMAIN r.instances = 1..n
  BY <1>1
<1>3. Ids(r) = {f[k] : k \in 1..n}
  BY <1>2 DEF Ids, Range
<1>4. f \in Bijection(1..n, Ids(r))
  <2>1. f \in [1..n -> Ids(r)]
    BY <1>3
  <2>2. \A j, k \in 1..n : f[j] = f[k] => j = k
    BY <1>1, <1>2
  <2>3. \A id \in Ids(r) : \E k \in 1..n : f[k] = id
    BY <1>3
  <2> HIDE DEF f, n
  <2> QED
    <3>1. f \in Injection(1..n, Ids(r))
      BY <2>1, <2>2 DEF Injection, IsInjective
    <3>2. f \in Surjection(1..n, Ids(r))
      BY <2>1, <2>3 DEF Surjection
    <3> QED
      BY <3>1, <3>2 DEF Bijection
<1> HIDE DEF f
<1>5. IsFiniteSet(1..n) /\ Cardinality(1..n) = n
  <2>1. 1 \in Int /\ n \in Int
    BY <1>2
  <2> QED
    BY <1>2, <2>1, FS_Interval
<1>6. Cardinality(1..n) = Cardinality(Ids(r))
  <2>1. ExistsBijection(1..n, Ids(r))
    BY <1>4 DEF ExistsBijection
  <2> QED
    BY <1>5, <2>1, FS_Bijection
<1> QED
  BY <1>5, <1>6

LEMMA ConsistentMirrors == plugins \in Consistent => OverlayMirrorsInstances
<1> SUFFICES ASSUME plugins \in Consistent PROVE OverlayMirrorsInstances
  OBVIOUS
<1>1. /\ plugins.nodes = Ids(plugins)
      /\ plugins.singletons = {Keyed(id) : id \in {i \in Ids(plugins) : IsSingleton(i)}}
  BY DEF Consistent
<1>2. {s.id : s \in plugins.singletons} = {id \in Ids(plugins) : IsSingleton(id)}
  <2>1. \A id : Keyed(id).id = id
    BY DEF Keyed
  <2> QED
    BY <1>1, <2>1
<1> QED
  BY <1>1, <1>2, InstancesCounted DEF OverlayMirrorsInstances

\* The overlay graph mirrors the instances, for any registry of plugins.
THEOREM Mirrored == Spec => []OverlayMirrorsInstances
<1>1. TypeOK => OverlayMirrorsInstances
  BY ConsistentMirrors DEF TypeOK
<1> QED
  BY <1>1, TypeCorrect, PTL

-----------------------------------------------------------------------------
(***************************************************************************)
(* Windows of the host's singletons.                                       *)
(***************************************************************************)

\* Only a window disposes of an instance, and never of a host's singleton.
HostKept == Ids(plugins) \cap HostSingletons \subseteq Ids(plugins')

\* What the restoring effect has seen has its instances, and an idle screen
\* shows what there is.
Seen ==
  /\ mounted /\ ~restoring => Windows(shown) \cap HostSingletons \subseteq Ids(plugins)
  /\ lane = "idle" =>
       shown.open = open /\ shown.views = views /\ shown.desktop.systems = desktop.systems

LEMMA CloseNowKeeps ==
  ASSUME TypeOK, NEW w \in Workspaces, NEW seen \in Closures, NEW failing, CloseNow(w, seen, failing)
  PROVE  HostKept
<1> DEFINE gone == Range(UpToFailure(Disposals(plugins, seen.windows, w), failing))
<1>1. plugins' = Disposed(plugins, gone)
  BY DEF CloseNow
<1>2. plugins \in Consistent /\ seen.windows \in Seq(InstanceIds)
  BY DEF TypeOK, Closures
<1>3. gone \cap HostSingletons = {}
  <2> DEFINE windows == seen.windows
  <2> HIDE DEF windows
  <2>1. Range(UpToFailure(Disposals(plugins, windows, w), failing)) \cap HostSingletons = {}
    BY <1>2, DisposalsFacts DEF windows
  <2> QED
    BY <2>1 DEF windows
<1> HIDE DEF gone
<1>4. Ids(plugins') = Ids(plugins) \ gone
  BY <1>1, <1>2, DisposedFacts
<1> QED
  BY <1>3, <1>4 DEF HostKept

LEMMA ReleasesKeep ==
  ASSUME TypeOK, NEW id \in InstanceIds, plugins' = Disposed(plugins, Range(Releases(plugins, <<id>>)))
  PROVE  HostKept
<1> DEFINE ids == <<id>>
           gone == Range(Releases(plugins, ids))
<1>1. plugins \in Consistent /\ ids \in Seq(InstanceIds)
  BY DEF TypeOK
<1>2. plugins' = Disposed(plugins, gone)
  OBVIOUS
<1> HIDE DEF ids
<1>3. gone \cap HostSingletons = {}
  BY <1>1, ReleasesFacts
<1> HIDE DEF gone
<1>4. Ids(plugins') = Ids(plugins) \ gone
  BY <1>1, <1>2, DisposedFacts
<1> QED
  BY <1>3, <1>4 DEF HostKept

LEMMA UnchangedKeeps == plugins' = plugins => HostKept
BY DEF HostKept

\* A handler: what it does is not shown yet.
Handled ==
  /\ HostKept
  /\ UNCHANGED <<shown, restoring, mounted>>
  /\ \/ lane' # "idle"
     \/ UNCHANGED <<lane, session, desktop>>

LEMMA ClosingHandled == TypeOK /\ Closing => Handled
<1> SUFFICES ASSUME TypeOK, Closing PROVE Handled
  OBVIOUS
<1> USE DEF Event, Click, Later
<1>1. ASSUME NEW w \in Workspaces, NEW failing, RequestClose(w, failing) PROVE Handled
  <2>1. plugins' = plugins \/ CloseNow(w, Closure(w), failing)
    BY <1>1 DEF RequestClose
  <2>2. HostKept
    BY <2>1, ShownFacts, CloseNowKeeps, UnchangedKeeps
  <2> QED
    BY <1>1, <2>2 DEF RequestClose, Handled
<1>2. ASSUME NEW failing, Discard(failing) PROVE Handled
  <2> DEFINE w == shown.ui.pending
  <2>1. w \in Workspaces
    BY <1>2, ShownFacts DEF Discard, Places
  <2>2. CloseNow(w, Closure(w), failing)
    BY <1>2 DEF Discard
  <2> HIDE DEF w
  <2>3. HostKept
    BY <2>1, <2>2, ShownFacts, CloseNowKeeps
  <2> QED
    BY <1>2, <2>3 DEF Discard, Handled
<1>3. CASE CancelClose
  BY <1>3, UnchangedKeeps DEF CancelClose, Handled
<1>4. CASE ExportAndClose
  BY <1>4, UnchangedKeeps DEF ExportAndClose, Handled
<1>5. ASSUME NEW e \in exports, NEW ok \in BOOLEAN, NEW failing, ExportDone(e, ok, failing) PROVE Handled
  <2>1. e.workspace \in Workspaces /\ e.seen \in Closures
    BY DEF TypeOK
  <2>2. CASE ok /\ e.workspace \in Range(open)
    <3>1. CloseNow(e.workspace, e.seen, failing)
      BY <1>5, <2>2 DEF ExportDone
    <3>2. HostKept
      BY <2>1, <3>1, CloseNowKeeps
    <3> QED
      BY <1>5, <2>2, <3>2 DEF ExportDone, Handled
  <2>3. CASE ~(ok /\ e.workspace \in Range(open))
    BY <1>5, <2>3, UnchangedKeeps DEF ExportDone, Handled
  <2> QED
    BY <2>2, <2>3
<1> QED
  BY <1>1, <1>2, <1>3, <1>4, <1>5 DEF Closing

LEMMA TabsHandled == Tabs => Handled
<1> SUFFICES ASSUME Tabs PROVE Handled
  OBVIOUS
<1>1. Click \/ Later
  BY DEF Tabs, CreateWorkspace, OpenNodeMap, Edit, ActivateTab, CloseWindow, Reorder, CloseFocusedWindow,
         OpenCreator, NextTab, SetOpenMode, Drop
<1>2. plugins' = plugins
  BY DEF Tabs, CreateWorkspace, OpenNodeMap, Edit, ActivateTab, CloseWindow, Reorder, CloseFocusedWindow,
         OpenCreator, NextTab, SetOpenMode, Drop, Turn
<1> QED
  BY <1>1, <1>2, UnchangedKeeps DEF Handled, Click, Later, Event

LEMMA SystemWindowsHandled == TypeOK /\ SystemWindows => Handled
<1> SUFFICES ASSUME TypeOK, SystemWindows PROVE Handled
  OBVIOUS
<1>1. plugins \in Consistent /\ NoWorkspace \in Places /\ Workspaces \subseteq Places
  BY PlacesFacts DEF TypeOK
<1>2. Click
  BY DEF SystemWindows, OpenHostPlugin, CloseHostPlugin, OpenWorkspacePlugin, CloseWorkspacePlugin
<1>3. HostKept
  <2>1. ASSUME NEW p \in Plugins, OpenHostPlugin(p) PROVE HostKept
    BY <1>1, <2>1, EnsuredFacts DEF OpenHostPlugin, HostKept
  <2>2. ASSUME NEW id, CloseHostPlugin(id) PROVE HostKept
    <3>1. id \in InstanceIds
      BY <2>2, ShownFacts, DesktopShape DEF CloseHostPlugin
    <3> QED
      BY <2>2, <3>1, ReleasesKeep DEF CloseHostPlugin
  <2>3. ASSUME NEW w \in Workspaces, NEW p \in Plugins, OpenWorkspacePlugin(w, p) PROVE HostKept
    BY <1>1, <2>3, EnsuredFacts DEF OpenWorkspacePlugin, HostKept
  <2>4. ASSUME NEW w \in Workspaces, NEW id, CloseWorkspacePlugin(w, id) PROVE HostKept
    <3>1. shown.views[w] \in Seq(InstanceIds) /\ id \in Range(shown.views[w])
      BY <2>4, ShownFacts DEF CloseWorkspacePlugin, Layers
    <3>2. id \in InstanceIds
      BY <3>1 DEF Range
    <3> QED
      BY <2>4, <3>2, ReleasesKeep DEF CloseWorkspacePlugin
  <2> QED
    BY <2>1, <2>2, <2>3, <2>4 DEF SystemWindows
<1> QED
  BY <1>2, <1>3 DEF Handled, Click, Event

LEMMA GesturesHandled == Gestures => Handled
<1> SUFFICES ASSUME Gestures PROVE Handled
  OBVIOUS
<1>1. Click \/ Later
  BY DEF Gestures, Space, Escape, Begin, Move, Pinch, EndPan, EndWire, EndPinch, Cancel, Wheel,
         ActivateWindow, Grab, Drag, Release
<1>2. plugins' = plugins
  BY DEF Gestures, Space, Escape, Begin, Move, Pinch, EndPan, EndWire, EndPinch, Cancel, Wheel,
         ActivateWindow, Grab, Drag, Release, Touch
<1> QED
  BY <1>1, <1>2, UnchangedKeeps DEF Handled, Click, Later, Event

LEMMA SeenInit == Init => Seen
<1> SUFFICES ASSUME Init PROVE Seen
  OBVIOUS
<1>1. PICK v \in Viewports : desktop = [NewDesktop EXCEPT !.viewport = v]
  BY DEF Init
<1>2. desktop.systems = << >>
  BY <1>1 DEF NewDesktop
<1>3. /\ shown.open = << >> /\ shown.views = views /\ open = << >>
      /\ shown.desktop = desktop
  BY DEF Init, Rendered
<1>4. Windows(shown) = {}
  BY <1>2, <1>3 DEF Windows, Range
<1> QED
  BY <1>3, <1>4 DEF Seen

\* A render that needs no restoring shows windows that were shown before.
LEMMA SeenCommit ==
  ASSUME TypeOK, Seen, NEW again \in BOOLEAN, Commit(again)
  PROVE  Seen'
<1> DEFINE render == [Rendered EXCEPT !.preview = Mounted(Rendered).preview]
           due == again \/ render.open # shown.open \/ render.views # shown.views
                     \/ render.dirty # shown.dirty
                     \/ render.desktop.systems # shown.desktop.systems
           before == IF restoring THEN Restore(plugins, shown) ELSE plugins
<1>1. /\ mounted /\ mounted' = mounted /\ lane # "idle"
      /\ shown' = render
      /\ plugins' = IF due /\ lane = "click" THEN Restore(before, render) ELSE before
      /\ restoring' = (due /\ lane = "later")
      /\ UNCHANGED <<open, views, desktop>>
  BY DEF Commit, session
<1>2. render \in Renders
  BY RenderedFacts
<1>3. /\ render.open = open /\ render.views = views /\ render.desktop = desktop
  BY DEF Rendered
<1> HIDE DEF render
<1>4. Readable(render) /\ Readable(shown) /\ plugins \in Consistent
  BY <1>2, RendersReadable DEF TypeOK
<1>5. before \in Consistent /\ Windows(shown) \cap HostSingletons \subseteq Ids(before)
  <2>1. CASE restoring
    BY <1>4, <2>1, RestoreFacts
  <2>2. CASE ~restoring
    BY <1>1, <1>4, <2>2 DEF Seen
  <2> QED
    BY <2>1, <2>2
<1> HIDE DEF before
<1>6. ASSUME ~restoring' PROVE Windows(shown') \cap HostSingletons \subseteq Ids(plugins')
  <2>1. lane \in {"click", "later"}
    BY <1>1 DEF TypeOK
  <2>2. CASE due
    <3>1. lane = "click"
      BY <1>1, <1>6, <2>1, <2>2
    <3>2. plugins' = Restore(before, render)
      BY <1>1, <2>2, <3>1
    <3>3. Windows(render) \cap HostSingletons \subseteq Ids(Restore(before, render))
      BY <1>4, <1>5, RestoreFacts
    <3> QED
      BY <1>1, <3>2, <3>3
  <2>3. CASE ~due
    <3>1. plugins' = before
      BY <1>1, <2>3
    <3>2. /\ render.open = shown.open /\ render.views = shown.views
          /\ render.desktop.systems = shown.desktop.systems
      BY <2>3
    <3>3. Windows(render) = Windows(shown)
      BY <3>2 DEF Windows
    <3> QED
      BY <1>1, <1>5, <3>1, <3>3
  <2> QED
    BY <2>2, <2>3
<1> QED
  BY <1>1, <1>3, <1>6 DEF Seen

LEMMA SeenStep == TypeOK /\ Seen /\ [Next]_vars => Seen'
<1> SUFFICES ASSUME TypeOK, Seen, [Next]_vars PROVE Seen'
  OBVIOUS
<1>1. ASSUME Handled PROVE Seen'
  <2>1. /\ shown' = shown /\ restoring' = restoring /\ mounted' = mounted
        /\ Ids(plugins) \cap HostSingletons \subseteq Ids(plugins')
    BY <1>1 DEF Handled, HostKept
  <2>2. mounted' /\ ~restoring' => Windows(shown') \cap HostSingletons \subseteq Ids(plugins')
    BY <2>1 DEF Seen
  <2>3. lane' = "idle" => /\ shown'.open = open' /\ shown'.views = views'
                          /\ shown'.desktop.systems = desktop'.systems
    BY <1>1, <2>1 DEF Seen, Handled, session
  <2> QED
    BY <2>2, <2>3 DEF Seen
<1>2. ASSUME NEW again \in BOOLEAN, Commit(again) PROVE Seen'
  BY <1>2, SeenCommit
<1>3. CASE Passive
  <2>1. Readable(shown) /\ plugins \in Consistent
    BY RendersReadable DEF TypeOK
  <2>2. Windows(shown) \cap HostSingletons \subseteq Ids(plugins')
    BY <1>3, <2>1, RestoreFacts DEF Passive
  <2>3. UNCHANGED <<session, desktop, shown, lane>>
    BY <1>3 DEF Passive
  <2> QED
    BY <2>2, <2>3 DEF Seen, session
<1>4. CASE Unmount
  BY <1>4 DEF Unmount, Seen, session
<1>5. CASE UNCHANGED vars
  <2>1. UNCHANGED <<mounted, restoring, shown, plugins, lane, open, views, desktop>>
    BY <1>5 DEF vars, session
  <2> QED
    BY <2>1 DEF Seen
<1> QED
  BY <1>1, <1>2, <1>3, <1>4, <1>5, ClosingHandled, TabsHandled, SystemWindowsHandled,
     GesturesHandled DEF Next

LEMMA SeenStays == TypeOK /\ Seen => HostSingletonsStay
<1> SUFFICES ASSUME TypeOK, Seen, mounted, lane = "idle", ~restoring,
                    NEW id \in Windows(Rendered),
                    Scope[PluginOf(id)] = "host", IsSingleton(id)
             PROVE  Live(plugins, id)
  BY DEF HostSingletonsStay
<1>1. Windows(Rendered) = Windows(shown)
  <2>1. /\ Rendered.open = shown.open /\ Rendered.views = shown.views
        /\ Rendered.desktop.systems = shown.desktop.systems
    BY DEF Seen, Rendered
  <2> QED
    BY <2>1 DEF Windows
<1>2. id \in InstanceIds
  <2>1. shown.views \in Layers /\ DOMAIN shown.desktop.systems \subseteq InstanceIds
        /\ Range(shown.open) \subseteq Workspaces
    BY ShownFacts, DesktopShape DEF ShownOpen
  <2>2. \A w \in Range(shown.open) : Range(shown.views[w]) \subseteq InstanceIds
    BY <2>1 DEF Layers, Range
  <2> QED
    BY <1>1, <2>1, <2>2 DEF Windows
<1>3. id \in HostSingletons
  BY <1>2 DEF HostSingletons
<1> QED
  BY <1>1, <1>3 DEF Seen, Live

\* Once rendered and restored, no window of a singleton of the host is
\* without its instance, however many windows and workspaces were closed.
THEOREM HostSingletonsKept == Spec => []HostSingletonsStay
<1>1. Init => TypeOK /\ Seen
  BY TypeInit, SeenInit
<1>2. TypeOK /\ Seen /\ [Next]_vars => (TypeOK /\ Seen)'
  BY TypeStep, SeenStep
<1>3. TypeOK /\ Seen => HostSingletonsStay
  BY SeenStays
<1> QED
  BY <1>1, <1>2, <1>3, PTL DEF Spec

-----------------------------------------------------------------------------
(***************************************************************************)
(* Windows and the render they are handled in.                             *)
(***************************************************************************)

LEMMA FocusKeeps ==
  ASSUME NEW d \in Desktops
  PROVE  /\ \A id : LET e == Activated(d, id) IN
              e.workspaces = d.workspaces /\ e.systems = d.systems /\ e.active = id /\ e.front = id
         /\ LET e == ClearedActive(d) IN
              e.workspaces = d.workspaces /\ e.systems = d.systems /\ e.active = None /\ e.front = d.front
         /\ \A camera : LET e == [d EXCEPT !.camera = camera] IN
              e.workspaces = d.workspaces /\ e.systems = d.systems /\ e.active = d.active
                /\ e.front = d.front
<1>1. d = [workspaces |-> d.workspaces, systems |-> d.systems, camera |-> d.camera,
           active |-> d.active, front |-> d.front, viewport |-> d.viewport]
  BY DesktopShape
<1>2. ASSUME NEW id
      PROVE  LET e == Activated(d, id) IN
             e.workspaces = d.workspaces /\ e.systems = d.systems /\ e.active = id /\ e.front = id
  BY <1>1 DEF Activated
<1>3. LET e == ClearedActive(d) IN
      e.workspaces = d.workspaces /\ e.systems = d.systems /\ e.active = None /\ e.front = d.front
  BY <1>1 DEF ClearedActive
<1>4. ASSUME NEW camera
      PROVE  LET e == [d EXCEPT !.camera = camera] IN
             e.workspaces = d.workspaces /\ e.systems = d.systems /\ e.active = d.active
               /\ e.front = d.front
  BY <1>1
<1> QED
  BY <1>2, <1>3, <1>4

\* The same frames, but for the windows of S.
SameFrames(d, e, S) ==
  /\ DOMAIN e.workspaces \subseteq DOMAIN d.workspaces \cup S
  /\ \A w \in (DOMAIN d.workspaces \cap DOMAIN e.workspaces) \ S : e.workspaces[w] = d.workspaces[w]

\* A handler that acts on the last render finds the windows it shows, unless
\* the workspace was closed since.
Matching ==
  /\ DOMAIN shown.desktop.systems = DOMAIN desktop.systems
  /\ DOMAIN shown.desktop.workspaces \cap Range(open) \subseteq DOMAIN desktop.workspaces
  /\ \A w \in DOMAIN shown.desktop.workspaces \cap DOMAIN desktop.workspaces :
       desktop.workspaces[w] = shown.desktop.workspaces[w]

\* A window that is dragged was there when the drag began, and no other frame
\* replaced its own since.
Dragged ==
  canvas.gesture.kind = "window" =>
    /\ HasWindow(shown.desktop, canvas.gesture.id)
    /\ canvas.gesture.id \in DOMAIN desktop.workspaces =>
         desktop.workspaces[canvas.gesture.id] = canvas.gesture.start

Screen ==
  /\ Range(open) \cup Range(shown.open) \subseteq used
  /\ DOMAIN desktop.workspaces \cup DOMAIN shown.desktop.workspaces \subseteq used
  /\ lane # "click" => Matching
  /\ Dragged

\* A handler replaces no frame but those of S, which are new or dropped tabs.
Touches(S) ==
  /\ SameFrames(desktop, desktop', S)
  /\ S \subseteq used' /\ Range(open') \subseteq used' /\ used \subseteq used'
  /\ shown' = shown
  /\ canvas'.gesture.kind = "window" =>
       /\ S \cap DOMAIN shown.desktop.workspaces = {}
       /\ canvas.gesture.kind = "window"
       /\ canvas'.gesture.id = canvas.gesture.id /\ canvas'.gesture.start = canvas.gesture.start

LEMMA NoInstanceIsWorkspace == Workspaces \cap InstanceIds = {}
BY DesktopAssumption DEF InstanceIds, Places

LEMMA TouchedScreen ==
  ASSUME TypeOK, TypeOK', Screen, NEW S, Touches(S), lane' # "click" => Matching'
  PROVE  Screen'
<1>1. Range(open') \cup Range(shown'.open) \subseteq used'
  BY DEF Screen, Touches
<1>2. DOMAIN desktop'.workspaces \cup DOMAIN shown'.desktop.workspaces \subseteq used'
  BY DEF Screen, Touches, SameFrames
<1>3. Dragged'
  <2> SUFFICES ASSUME canvas'.gesture.kind = "window"
               PROVE  /\ HasWindow(shown'.desktop, canvas'.gesture.id)
                      /\ canvas'.gesture.id \in DOMAIN desktop'.workspaces =>
                           desktop'.workspaces[canvas'.gesture.id] = canvas'.gesture.start
    BY DEF Dragged
  <2> DEFINE id == canvas.gesture.id
  <2>1. /\ S \cap DOMAIN shown.desktop.workspaces = {} /\ shown' = shown
        /\ canvas'.gesture.id = id /\ canvas'.gesture.start = canvas.gesture.start
        /\ HasWindow(shown.desktop, id)
        /\ id \in DOMAIN desktop.workspaces => desktop.workspaces[id] = canvas.gesture.start
    BY DEF Touches, Screen, Dragged
  <2> HIDE DEF id
  <2>2. ASSUME id \in DOMAIN desktop'.workspaces PROVE desktop'.workspaces[id] = canvas.gesture.start
    <3>1. DOMAIN desktop'.workspaces \subseteq Workspaces
      BY DesktopShape DEF TypeOK
    <3>2. DOMAIN shown.desktop.systems \subseteq InstanceIds
      BY ShownFacts, DesktopShape
    <3>3. id \in DOMAIN shown.desktop.workspaces
      BY <2>1, <2>2, <3>1, <3>2, NoInstanceIsWorkspace DEF HasWindow
    <3>4. id \notin S
      BY <2>1, <3>3
    <3>5. id \in DOMAIN desktop.workspaces /\ desktop'.workspaces[id] = desktop.workspaces[id]
      BY <2>2, <3>4 DEF Touches, SameFrames
    <3> QED
      BY <2>1, <3>5
  <2> QED
    BY <2>1, <2>2
<1> QED
  BY <1>1, <1>2, <1>3 DEF Screen

LEMMA AddedOpen ==
  ASSUME TypeOK, NEW w \in Workspaces, NEW windows, Add(w, windows)
  PROVE  Range(open') = Range(open) \cup {w}
<1> DEFINE list == open
<1>1. list \in Seq(Workspaces) /\ open' = Append(list, w)
  BY DEF TypeOK, Add
<1> HIDE DEF list
<1>2. \A k \in 1..Len(list) : list[k] \in Range(list)
  BY <1>1 DEF Range
<1>3. /\ Len(open') = Len(list) + 1 /\ open'[Len(list) + 1] = w /\ DOMAIN open' = 1..(Len(list) + 1)
      /\ \A k \in 1..Len(list) : open'[k] = list[k]
  BY <1>1
<1>4. Len(list) \in Nat /\ DOMAIN list = 1..Len(list)
  BY <1>1
<1>5. Range(open') \subseteq Range(list) \cup {w}
  <2> SUFFICES ASSUME NEW k \in 1..(Len(list) + 1) PROVE open'[k] \in Range(list) \cup {w}
    BY <1>3 DEF Range
  <2>1. k \in 1..Len(list) \/ k = Len(list) + 1
    BY <1>4
  <2> QED
    BY <1>2, <1>3, <2>1
<1>6. w \in Range(open')
  <2>1. Len(list) + 1 \in DOMAIN open'
    BY <1>3, <1>4
  <2> QED
    BY <1>3, <2>1 DEF Range
<1>7. Range(list) \subseteq Range(open')
  <2> SUFFICES ASSUME NEW k \in 1..Len(list) PROVE list[k] \in Range(open')
    BY <1>4 DEF Range
  <2>1. k \in DOMAIN open' /\ open'[k] = list[k]
    BY <1>3, <1>4
  <2> QED
    BY <2>1 DEF Range
<1> QED
  BY <1>5, <1>6, <1>7 DEF list

\* A workspace that appears takes no other window's frame.
LEMMA PresentTouches ==
  ASSUME TypeOK, NEW w \in Workspaces, NEW point \in Int \cup {None},
         NEW viewport \in Viewports \cup {None}, Present(w, point, viewport)
  PROVE  /\ SameFrames(desktop, desktop', {w})
         /\ desktop'.systems = desktop.systems
         /\ DOMAIN desktop.workspaces \ {w} \subseteq DOMAIN desktop'.workspaces
<1>1. desktop \in Desktops
  BY DEF TypeOK
<1>2. CASE ui.mode = "window"
  <2>1. desktop' = Presented(desktop, w, point, "center", viewport)
    BY <1>2 DEF Present
  <2>2. /\ desktop'.systems = desktop.systems
        /\ DOMAIN desktop'.workspaces = DOMAIN desktop.workspaces \cup {w}
        /\ \A v \in DOMAIN desktop.workspaces \ {w} : desktop'.workspaces[v] = desktop.workspaces[v]
    BY <1>1, <2>1, PresentedFacts
  <2> QED
    BY <2>2 DEF SameFrames
<1>3. CASE ui.mode # "window"
  <2>1. desktop' = RestoredTab(desktop, w)
    BY <1>3 DEF Present
  <2>2. /\ desktop'.systems = desktop.systems
        /\ DOMAIN desktop'.workspaces = DOMAIN desktop.workspaces \ {w}
        /\ \A v \in DOMAIN desktop'.workspaces : desktop'.workspaces[v] = desktop.workspaces[v]
    BY <1>1, <2>1, RestoredTabFacts
  <2> QED
    BY <2>2 DEF SameFrames
<1> QED
  BY <1>2, <1>3

LEMMA AddTouches ==
  ASSUME TypeOK, Screen, NEW w \in Workspaces, NEW windows, Add(w, windows),
         NEW point \in Int \cup {None}, NEW viewport \in Viewports \cup {None},
         Present(w, point, viewport), shown' = shown, canvas'.gesture = canvas.gesture
  PROVE  /\ Touches({w})
         /\ Matching => Matching'
<1>1. /\ Range(open') = Range(open) \cup {w} /\ w \notin used /\ used' = used \cup {w}
  BY AddedOpen DEF Add
<1>2. /\ SameFrames(desktop, desktop', {w})
      /\ desktop'.systems = desktop.systems
      /\ DOMAIN desktop.workspaces \ {w} \subseteq DOMAIN desktop'.workspaces
  BY PresentTouches
<1>3. w \notin DOMAIN shown.desktop.workspaces
  BY <1>1 DEF Screen
<1>4. Touches({w})
  BY <1>1, <1>2, <1>3 DEF Touches, Screen
<1>5. ASSUME Matching PROVE Matching'
  <2>1. DOMAIN shown.desktop.systems = DOMAIN desktop'.systems
    BY <1>2, <1>5 DEF Matching
  <2>2. DOMAIN shown.desktop.workspaces \cap Range(open') \subseteq DOMAIN desktop'.workspaces
    BY <1>1, <1>2, <1>3, <1>5 DEF Matching
  <2>3. \A v \in DOMAIN shown.desktop.workspaces \cap DOMAIN desktop'.workspaces :
          desktop'.workspaces[v] = shown.desktop.workspaces[v]
    BY <1>2, <1>3, <1>5 DEF SameFrames, Matching
  <2> QED
    BY <2>1, <2>2, <2>3 DEF Matching
<1> QED
  BY <1>4, <1>5

\* What is active, in front or asked about is there.
Held ==
  /\ ui.pending \in Range(open) \cup {None}
  /\ DOMAIN desktop.workspaces \subseteq Range(open)
  /\ \A id \in {desktop.active, desktop.front} \ {None} : HasWindow(desktop, id)
  /\ desktop.active \in {desktop.front, None}

\* What holds after a handler, unless it met a closed workspace.
Steady == late => late'
Holds == ~late' /\ Held => Held'

LEMMA Unchanging ==
  ASSUME SameFrames(desktop, desktop', {}), Range(open') = Range(open), used' = used, shown' = shown,
         canvas'.gesture = canvas.gesture, Screen
  PROVE  Touches({})
BY DEF Touches, Screen

LEMMA SameDesktop == \A d : SameFrames(d, d, {})
BY DEF SameFrames

\* A window that goes back to its tab leaves the rest as it is.
LEMMA TabRestored ==
  ASSUME TypeOK, NEW w, desktop' = RestoredTab(desktop, w)
  PROVE  /\ SameFrames(desktop, desktop', {})
         /\ desktop'.systems = desktop.systems
         /\ DOMAIN desktop'.workspaces = DOMAIN desktop.workspaces \ {w}
         /\ Held => /\ \A id \in {desktop'.active, desktop'.front} \ {None} : HasWindow(desktop', id)
                    /\ desktop'.active \in {desktop'.front, None}
<1>1. desktop \in Desktops
  BY DEF TypeOK
<1>2. /\ desktop'.systems = desktop.systems
      /\ DOMAIN desktop'.workspaces = DOMAIN desktop.workspaces \ {w}
      /\ \A v \in DOMAIN desktop'.workspaces : desktop'.workspaces[v] = desktop.workspaces[v]
      /\ desktop' = desktop \/ /\ desktop'.active = IF desktop.active = w THEN None ELSE desktop.active
                               /\ desktop'.front = IF desktop.front = w THEN None ELSE desktop.front
  BY <1>1, RestoredTabFacts
<1>3. SameFrames(desktop, desktop', {})
  BY <1>2 DEF SameFrames
<1>4. ASSUME Held
      PROVE  /\ \A id \in {desktop'.active, desktop'.front} \ {None} : HasWindow(desktop', id)
             /\ desktop'.active \in {desktop'.front, None}
  <2>1. CASE desktop' = desktop
    BY <1>4, <2>1 DEF Held
  <2>2. CASE desktop' # desktop
    <3>1. /\ desktop'.active = IF desktop.active = w THEN None ELSE desktop.active
          /\ desktop'.front = IF desktop.front = w THEN None ELSE desktop.front
      BY <1>2, <2>2
    <3> QED
      BY <1>2, <1>4, <3>1 DEF Held, HasWindow
  <2> QED
    BY <2>1, <2>2
<1> QED
  BY <1>2, <1>3, <1>4

LEMMA OthersOpen ==
  ASSUME TypeOK, NEW w
  PROVE  Range(Only(open, Range(open) \ {w})) = Range(open) \ {w}
<1> DEFINE S == Range(open) \ {w}
<1>1. Range(open) \cap S = S
  OBVIOUS
<1> HIDE DEF S
<1>2. Range(Only(open, S)) = S
  BY <1>1, OnlyFacts DEF TypeOK
<1> QED
  BY <1>2 DEF S

LEMMA CloseNowScreen ==
  ASSUME TypeOK, Screen, NEW w \in Workspaces, NEW seen, NEW failing, CloseNow(w, seen, failing),
         shown' = shown, canvas'.gesture = canvas.gesture
  PROVE  /\ Touches({})
         /\ Matching => Matching'
         /\ Held => Held'
<1>1. CASE UNCHANGED <<open, used, views, desktop, ui>>
  <2>1. Touches({})
    BY <1>1, SameDesktop, Unchanging
  <2> QED
    BY <1>1, <2>1 DEF Matching, Held
<1>2. CASE ~UNCHANGED <<open, used, views, desktop, ui>>
  <2>1. /\ desktop' = RestoredTab(desktop, w)
        /\ open' = Only(open, Range(open) \ {w})
        /\ used' = used
        /\ \E a, f : ui' = [ui EXCEPT !.active = a, !.focused = f, !.pending = None]
    <3>1. /\ desktop' = RestoredTab(desktop, w)
          /\ open' = Only(open, Range(open) \ {w})
          /\ used' = used
          /\ ui' = [ui EXCEPT
                      !.active = IF w = seen.active THEN Neighbour(seen.tabs, w) ELSE @,
                      !.focused = IF w = seen.focused THEN None ELSE @,
                      !.pending = None]
      BY <1>2 DEF CloseNow
    <3> QED
      BY <3>1
  <2>2. Range(open') = Range(open) \ {w}
    BY <2>1, OthersOpen
  <2>3. ui'.pending = None
    BY <2>1 DEF TypeOK, Uis
  <2>4. /\ SameFrames(desktop, desktop', {})
        /\ desktop'.systems = desktop.systems
        /\ DOMAIN desktop'.workspaces = DOMAIN desktop.workspaces \ {w}
        /\ Held => /\ \A id \in {desktop'.active, desktop'.front} \ {None} : HasWindow(desktop', id)
                   /\ desktop'.active \in {desktop'.front, None}
    BY <2>1, TabRestored
  <2>5. Touches({})
    BY <2>1, <2>2, <2>4 DEF Touches, Screen
  <2>6. Matching => Matching'
    BY <2>2, <2>4 DEF Matching, SameFrames
  <2>7. Held => Held'
    BY <2>2, <2>3, <2>4 DEF Held
  <2> QED
    BY <2>5, <2>6, <2>7
<1> QED
  BY <1>1, <1>2

\* What a handler does to the windows.
Fits == (\E S : Touches(S)) /\ (lane' # "click" => Matching') /\ Steady /\ Holds

LEMMA ClosingFits == TypeOK /\ Screen /\ Closing => Fits
<1> SUFFICES ASSUME TypeOK, Screen, Closing PROVE Fits
  OBVIOUS
<1> USE DEF Event, Click, Later
<1>1. ASSUME NEW w \in Workspaces, NEW failing, RequestClose(w, failing) PROVE Fits
  <2>1. CASE w \in shown.dirty
    <3>1. /\ desktop' = RestoredTab(desktop, w)
          /\ ui' = [ui EXCEPT !.active = w, !.pending = w]
          /\ UNCHANGED <<session, canvas>> /\ ActsOn(w) /\ lane' = "click" /\ shown' = shown
      BY <1>1, <2>1 DEF RequestClose
    <3>2. ui'.pending = w
      BY <3>1 DEF TypeOK, Uis
    <3>3. Touches({})
      BY <3>1, TabRestored, Unchanging DEF session
    <3>4. Holds
      <4>1. ~late' => w \in Range(open)
        BY <3>1 DEF ActsOn
      <4> QED
        BY <3>1, <3>2, <4>1, TabRestored DEF Holds, Held, session
    <3> QED
      BY <3>1, <3>3, <3>4 DEF Fits, Steady, ActsOn
  <2>2. CASE w \notin shown.dirty
    <3>1. /\ CloseNow(w, Closure(w), failing) /\ ActsOn(w) /\ lane' = "click" /\ shown' = shown
          /\ canvas' = canvas
      BY <1>1, <2>2 DEF RequestClose
    <3> QED
      BY <3>1, CloseNowScreen DEF Fits, Steady, Holds, ActsOn
  <2> QED
    BY <2>1, <2>2
<1>2. ASSUME NEW failing, Discard(failing) PROVE Fits
  <2> DEFINE w == shown.ui.pending
  <2>1. w \in Workspaces
    BY <1>2, ShownFacts DEF Discard, Places
  <2>2. /\ CloseNow(w, Closure(w), failing) /\ ActsOn(w) /\ lane' = "click" /\ shown' = shown
        /\ canvas' = canvas
    BY <1>2 DEF Discard
  <2> HIDE DEF w
  <2> QED
    BY <2>1, <2>2, CloseNowScreen DEF Fits, Steady, Holds, ActsOn
<1>3. CASE CancelClose
  <2>1. /\ ui' = [ui EXCEPT !.pending = None] /\ lane' = "click"
        /\ UNCHANGED <<open, used, desktop, canvas, late, shown>>
    BY <1>3 DEF CancelClose, session, history
  <2>2. ui'.pending = None
    BY <2>1 DEF TypeOK, Uis
  <2>3. Touches({})
    BY <2>1, SameDesktop, Unchanging
  <2> QED
    BY <2>1, <2>2, <2>3 DEF Fits, Steady, Holds, Held
<1>4. CASE ExportAndClose
  <2>1. /\ lane' = "click" /\ UNCHANGED <<open, used, desktop, ui, canvas, late, shown>>
    BY <1>4 DEF ExportAndClose, session
  <2>2. Touches({})
    BY <2>1, SameDesktop, Unchanging
  <2> QED
    BY <2>1, <2>2 DEF Fits, Steady, Holds, Held
<1>5. ASSUME NEW e \in exports, NEW ok \in BOOLEAN, NEW failing, ExportDone(e, ok, failing) PROVE Fits
  <2>1. e.workspace \in Workspaces /\ e.seen \in Closures
    BY DEF TypeOK
  <2>2. /\ lane # "click" /\ UNCHANGED <<canvas, shown, late>>
        /\ Matching
    BY <1>5 DEF ExportDone, Screen
  <2>3. CASE ok /\ e.workspace \in Range(open)
    <3>1. CloseNow(e.workspace, e.seen, failing)
      BY <1>5, <2>3 DEF ExportDone
    <3> QED
      BY <2>1, <2>2, <3>1, CloseNowScreen DEF Fits, Steady, Holds
  <2>4. CASE ~(ok /\ e.workspace \in Range(open))
    <3>1. UNCHANGED <<open, used, desktop, ui>>
      BY <1>5, <2>4 DEF ExportDone, session
    <3>2. Touches({})
      BY <2>2, <3>1, SameDesktop, Unchanging
    <3> QED
      BY <2>2, <3>1, <3>2 DEF Fits, Steady, Holds, Held, Matching
  <2> QED
    BY <2>3, <2>4
<1> QED
  BY <1>1, <1>2, <1>3, <1>4, <1>5 DEF Closing

\* A new workspace brings its window, or none.
LEMMA AddHolds ==
  ASSUME TypeOK, Screen, NEW w \in Workspaces, NEW windows, Add(w, windows),
         NEW point \in Int \cup {None}, NEW viewport \in Viewports \cup {None},
         Present(w, point, viewport), late' = late
  PROVE  Holds
<1>1. /\ Range(open') = Range(open) \cup {w} /\ w \notin used /\ desktop \in Desktops
  BY AddedOpen DEF Add, TypeOK
<1>2. ui'.pending = ui.pending
  BY DEF Present, TypeOK, Uis
<1>3. CASE ui.mode = "window"
  <2>1. desktop' = Presented(desktop, w, point, "center", viewport)
    BY <1>3 DEF Present
  <2>2. /\ DOMAIN desktop'.workspaces = DOMAIN desktop.workspaces \cup {w}
        /\ desktop'.active = w /\ desktop'.front = w
    BY <1>1, <2>1, PresentedFacts
  <2> QED
    BY <1>1, <1>2, <2>2 DEF Holds, Held, HasWindow
<1>4. CASE ui.mode # "window"
  <2>1. desktop' = RestoredTab(desktop, w)
    BY <1>4 DEF Present
  <2> QED
    BY <1>1, <1>2, <2>1, TabRestored DEF Holds, Held
<1> QED
  BY <1>3, <1>4

\* The window that is brought to the front is there, or a handler met a
\* workspace that is closed.
LEMMA BroughtFacts ==
  ASSUME TypeOK, Screen, lane # "click", NEW id \in ShownWindows, Meets(id)
  PROVE  LET e == Brought(id) IN
         /\ e \in Desktops
         /\ e.workspaces = desktop.workspaces /\ e.systems = desktop.systems
         /\ late => late'
         /\ ~late' /\ Held => /\ \A x \in {e.active, e.front} \ {None} : HasWindow(e, x)
                              /\ e.active \in {e.front, None}
<1> DEFINE e == Brought(id)
<1>1. desktop \in Desktops /\ Matching /\ ShownOpen \subseteq Workspaces /\ e \in Desktops
  BY ShownFacts, BroughtType DEF TypeOK, Screen
<1>2. late => late'
  BY DEF Meets, ActsOn
<1>3. CASE id = shown.desktop.active
  <2>1. e = desktop
    BY <1>3 DEF Brought
  <2> QED
    BY <1>1, <1>2, <2>1 DEF Held
<1>4. CASE id # shown.desktop.active
  <2>1. /\ e = Activated(desktop, id)
        /\ id \in Workspaces => late' = (late \/ id \notin Range(open))
    BY <1>4 DEF Brought, Meets, ActsOn
  <2>2. /\ e.workspaces = desktop.workspaces /\ e.systems = desktop.systems
        /\ e.active = id /\ e.front = id
    BY <1>1, <2>1, FocusKeeps
  <2> HIDE DEF e
  <2>3. ASSUME ~late' PROVE HasWindow(desktop, id)
    <3>1. CASE id \in DOMAIN shown.desktop.systems
      BY <1>1, <3>1 DEF Matching, HasWindow
    <3>2. CASE id \in DOMAIN shown.desktop.workspaces \cap ShownOpen
      <4>1. id \in Workspaces
        BY <1>1, <3>2
      <4>2. id \in Range(open)
        BY <2>1, <2>3, <4>1
      <4> QED
        BY <1>1, <3>2, <4>2 DEF Matching, HasWindow
    <3> QED
      BY <3>1, <3>2 DEF ShownWindows
  <2>4. ASSUME ~late' PROVE HasWindow(e, id)
    BY <2>2, <2>3, <2>4 DEF HasWindow
  <2>5. /\ e.workspaces = desktop.workspaces /\ e.systems = desktop.systems
        /\ ~late' => /\ \A x \in {e.active, e.front} \ {None} : HasWindow(e, x)
                     /\ e.active \in {e.front, None}
    BY <2>2, <2>4
  <2> QED
    BY <1>1, <1>2, <2>5 DEF e
<1> QED
  BY <1>3, <1>4

LEMMA BringFacts ==
  ASSUME TypeOK, Screen, lane # "click", NEW id, Bring(id)
  PROVE  /\ desktop'.workspaces = desktop.workspaces /\ desktop'.systems = desktop.systems
         /\ late => late'
         /\ ui'.pending = ui.pending
         /\ ~late' /\ Held =>
              /\ \A x \in {desktop'.active, desktop'.front} \ {None} : HasWindow(desktop', x)
              /\ desktop'.active \in {desktop'.front, None}
<1>1. desktop' = Brought(id) /\ Meets(id) /\ id \in ShownWindows
  BY DEF Bring
<1>2. ui'.pending = ui.pending
  BY DEF Bring, TypeOK, Uis
<1> QED
  BY <1>1, <1>2, BroughtFacts

\* So is the window of a workspace in which something was clicked.
LEMMA ReachFits ==
  ASSUME TypeOK, Screen, NEW w, Reach(w), Event, lane' = "click",
         UNCHANGED <<open, used, canvas>>
  PROVE  Fits
<1>1. /\ desktop'.workspaces = desktop.workspaces /\ desktop'.systems = desktop.systems
      /\ late => late'
      /\ ui'.pending = ui.pending
      /\ ~late' /\ Held =>
           /\ \A x \in {desktop'.active, desktop'.front} \ {None} : HasWindow(desktop', x)
           /\ desktop'.active \in {desktop'.front, None}
  <2>1. CASE CanvasShown
    BY <2>1, BringFacts DEF Reach, Event
  <2>2. CASE ~CanvasShown
    BY <2>2 DEF Reach, Held
  <2> QED
    BY <2>1, <2>2
<1>2. Touches({})
  BY <1>1 DEF Touches, SameFrames, Screen, Event
<1>3. Holds
  BY <1>1 DEF Holds, Held
<1> QED
  BY <1>1, <1>2, <1>3 DEF Fits, Steady, Event

LEMMA TabsFit == TypeOK /\ Screen /\ Tabs => Fits
<1> SUFFICES ASSUME TypeOK, Screen, Tabs PROVE Fits
  OBVIOUS
<1> USE DEF Event, Click, Later
<1>a. desktop \in Desktops
  BY DEF TypeOK
<1>1. ASSUME NEW w \in Workspaces, CreateWorkspace(w) PROVE Fits
  <2>1. /\ Add(w, << >>) /\ lane' = "click" /\ UNCHANGED <<shown, late>>
        /\ canvas' = [canvas EXCEPT !.creator = None]
    BY <1>1 DEF CreateWorkspace, history
  <2>2. canvas'.gesture = canvas.gesture
    BY <2>1, CanvasFacts DEF TypeOK
  <2>3. PICK v \in Viewports : Present(w, canvas.creator, v)
    BY <1>1 DEF CreateWorkspace
  <2>4. canvas.creator \in Int \cup {None}
    BY CanvasFacts DEF TypeOK
  <2>5. Touches({w})
    BY <2>1, <2>2, <2>3, <2>4, AddTouches
  <2>6. Holds
    BY <2>1, <2>3, <2>4, AddHolds
  <2> QED
    BY <2>1, <2>5, <2>6 DEF Fits, Steady
<1>2. ASSUME NEW w \in Workspaces, OpenNodeMap(w) PROVE Fits
  <2>1. /\ Present(w, None, None) /\ lane # "click" /\ UNCHANGED <<shown, late, canvas>>
    BY <1>2 DEF OpenNodeMap, history
  <2>2. PICK windows : Add(w, windows)
    BY <1>2 DEF OpenNodeMap
  <2>3. Matching
    BY <2>1 DEF Screen
  <2>4. Touches({w}) /\ Matching'
    BY <2>1, <2>2, <2>3, AddTouches
  <2>5. Holds
    BY <2>1, <2>2, AddHolds
  <2> QED
    BY <2>1, <2>4, <2>5 DEF Fits, Steady
\* the session, the canvas and what handlers have met stay
<1>b. ASSUME lane' = "click", UNCHANGED <<used, canvas, shown, late>>, Range(open') = Range(open),
             SameFrames(desktop, desktop', {}), ui'.pending = ui.pending,
             desktop' = desktop \/ \E v : desktop' = RestoredTab(desktop, v)
      PROVE  Fits
  <2>1. Touches({})
    BY <1>b, Unchanging
  <2>2. Holds
    <3>1. CASE desktop' = desktop
      BY <1>b, <3>1 DEF Holds, Held
    <3>2. ASSUME NEW v, desktop' = RestoredTab(desktop, v) PROVE Holds
      BY <1>b, <3>2, TabRestored DEF Holds, Held
    <3> QED
      BY <1>b, <3>1, <3>2
  <2> QED
    BY <1>b, <2>1, <2>2 DEF Fits, Steady
<1>3. ASSUME NEW w \in Workspaces, Edit(w) PROVE Fits
  <2>1. Event /\ lane' = "click" /\ UNCHANGED <<open, used, canvas, shown>>
    BY <1>3 DEF Edit
  <2>2. CASE Reach(w)
    BY <2>1, <2>2, ReachFits
  <2>3. CASE UNCHANGED <<desktop, ui, late>>
    BY <1>b, <2>1, <2>3, SameDesktop
  <2> QED
    BY <1>3, <2>2, <2>3 DEF Edit
<1>4. ASSUME NEW w \in Workspaces, ActivateTab(w) PROVE Fits
  <2>1. lane' = "click" /\ UNCHANGED <<open, used, desktop, canvas, shown, late>>
    BY <1>4 DEF ActivateTab, Turn, session, history
  <2>2. ui'.pending = ui.pending
    BY <1>4 DEF ActivateTab, TypeOK, Uis
  <2> QED
    BY <1>b, <2>1, <2>2, SameDesktop
<1>4a. ASSUME NEW w \in Workspaces, CloseWindow(w) PROVE Fits
  <2> DEFINE e == Brought(w)
  <2>1. /\ lane # "click" /\ lane' = "click" /\ UNCHANGED <<open, used, canvas, shown>>
        /\ w \in ShownWindows /\ Meets(w) /\ desktop' = RestoredTab(e, w)
    BY <1>4a DEF CloseWindow, session
  <2>2. ui'.pending = ui.pending
    BY <1>4a DEF CloseWindow, TypeOK, Uis
  <2>3. /\ e \in Desktops
        /\ e.workspaces = desktop.workspaces /\ e.systems = desktop.systems
        /\ late => late'
        /\ ~late' /\ Held => /\ \A x \in {e.active, e.front} \ {None} : HasWindow(e, x)
                             /\ e.active \in {e.front, None}
    BY <2>1, BroughtFacts
  <2> HIDE DEF e
  <2>4. SameFrames(desktop, desktop', {})
    BY <2>1, <2>3, RestoredTabFacts DEF SameFrames
  <2>5. Touches({})
    BY <2>1, <2>4, Unchanging
  <2>6. Holds
    BY <2>1, <2>2, <2>3, RestoredTabFacts DEF Holds, Held, HasWindow
  <2> QED
    BY <2>1, <2>3, <2>5, <2>6 DEF Fits, Steady
<1>5. ASSUME NEW w \in Workspaces, NEW before \in Workspaces, Reorder(w, before) PROVE Fits
  <2>1. Range(open') = Range(open)
    BY <1>5, ReorderFacts
  <2>2. lane' = "click" /\ UNCHANGED <<used, desktop, ui, canvas, shown, late>>
    BY <1>5 DEF Reorder, history
  <2> QED
    BY <1>b, <2>1, <2>2, SameDesktop
<1>6. CASE CloseFocusedWindow
  <2>1. /\ lane' = "click" /\ UNCHANGED <<open, used, canvas, shown, late>>
        /\ desktop' = RestoredTab(desktop, shown.ui.focused)
    BY <1>6 DEF CloseFocusedWindow, Turn, session, history
  <2>2. ui'.pending = ui.pending
    BY <1>6 DEF CloseFocusedWindow, TypeOK, Uis
  <2>3. SameFrames(desktop, desktop', {})
    BY <2>1, TabRestored
  <2> QED
    BY <1>b, <2>1, <2>2, <2>3
<1>7. ASSUME OpenCreator \/ (\E delta \in {-1, 1} : NextTab(delta))
               \/ (\E mode \in {"tab", "window"} : SetOpenMode(mode))
      PROVE  Fits
  <2>1. lane' = "click" /\ UNCHANGED <<open, used, desktop, canvas, shown, late>>
    BY <1>7 DEF OpenCreator, NextTab, SetOpenMode, Turn, session, history
  <2>2. ui'.pending = ui.pending
    BY <1>7 DEF OpenCreator, NextTab, SetOpenMode, TypeOK, Uis
  <2> QED
    BY <1>b, <2>1, <2>2, SameDesktop
<1>8. ASSUME NEW w \in Workspaces, NEW point \in Points, NEW v \in Viewports, Drop(w, point, v)
      PROVE  Fits
  <2> DEFINE to == ScreenToWorld(point, shown.desktop.camera)
  <2>1. to \in Int
    <3>1. shown.desktop.camera \in Cameras /\ point \in Int
      BY ShownFacts, DesktopShape, DesktopAssumption
    <3> QED
      BY <3>1, ScreenToWorldFacts
  <2>2. /\ lane' = "click" /\ UNCHANGED <<open, used, canvas, shown>> /\ ActsOn(w)
        /\ desktop' = Presented(desktop, w, to, "top-left", v)
        /\ ui' = [ui EXCEPT !.active = None, !.focused = w]
        /\ w \in Range(ShownTabs)
    BY <1>8 DEF Drop, session
  <2> HIDE DEF to
  <2>3. /\ DOMAIN desktop'.workspaces = DOMAIN desktop.workspaces \cup {w}
        /\ \A x \in DOMAIN desktop.workspaces \ {w} : desktop'.workspaces[x] = desktop.workspaces[x]
        /\ desktop'.active = w /\ desktop'.front = w
    BY <1>a, <2>1, <2>2, PresentedFacts
  <2>4. w \in ShownOpen /\ w \notin DOMAIN shown.desktop.workspaces
    BY <2>2, ShownFacts
  <2>5. Touches({w})
    BY <2>2, <2>3, <2>4 DEF Touches, SameFrames, Screen, ShownOpen
  <2>6. ui'.pending = ui.pending
    BY <2>2 DEF TypeOK, Uis
  <2>7. Holds
    <3>1. ~late' => w \in Range(open)
      BY <2>2 DEF ActsOn
    <3> QED
      BY <2>2, <2>3, <2>6, <3>1 DEF Holds, Held, HasWindow
  <2> QED
    BY <2>2, <2>5, <2>7 DEF Fits, Steady, ActsOn
<1> QED
  BY <1>1, <1>2, <1>3, <1>4, <1>4a, <1>5, <1>6, <1>7, <1>8 DEF Tabs

LEMMA SystemWindowsFit == TypeOK /\ Screen /\ SystemWindows => Fits
<1> SUFFICES ASSUME TypeOK, Screen, SystemWindows PROVE Fits
  OBVIOUS
<1> USE DEF Event, Click, Later
<1>a. desktop \in Desktops
  BY DEF TypeOK
<1>1. ASSUME NEW p \in Plugins, OpenHostPlugin(p) PROVE Fits
  <2> DEFINE id == EnsuredId(plugins, p, NoWorkspace)
             point == canvas.creator
  <2>1. /\ lane' = "click" /\ UNCHANGED <<open, used, ui, shown, late>>
        /\ desktop' = OpenedSystem(desktop, id, point, PluginSize[p])
        /\ canvas' = [canvas EXCEPT !.creator = None] /\ point # None
    BY <1>1 DEF OpenHostPlugin, session, history
  <2>2. canvas'.gesture = canvas.gesture /\ point \in Int
    BY <2>1, CanvasFacts DEF TypeOK
  <2>3. id \in InstanceIds
    BY PlacesFacts, EnsuredIdFacts DEF TypeOK, Consistent
  <2>4. PluginSize[p] \in MinSize..MaxSize
    BY DesktopAssumption
  <2> HIDE DEF id, point
  <2>5. /\ desktop'.workspaces = desktop.workspaces
        /\ DOMAIN desktop'.systems = DOMAIN desktop.systems \cup {id}
        /\ desktop'.active = id /\ desktop'.front = id
    BY <1>a, <2>1, <2>2, <2>3, <2>4, OpenedSystemFacts
  <2>6. SameFrames(desktop, desktop', {})
    BY <2>5 DEF SameFrames
  <2>7. Touches({})
    BY <2>1, <2>2, <2>6, Unchanging
  <2>8. Holds
    BY <2>1, <2>5 DEF Holds, Held, HasWindow
  <2> QED
    BY <2>1, <2>7, <2>8 DEF Fits, Steady
<1>2. ASSUME NEW id, CloseHostPlugin(id) PROVE Fits
  <2> DEFINE e == Brought(id)
  <2>1. /\ lane # "click" /\ lane' = "click" /\ UNCHANGED <<open, used, ui, canvas, shown, late>>
        /\ desktop' = ClosedSystem(e, id)
        /\ id \in DOMAIN shown.desktop.systems
    BY <1>2 DEF CloseHostPlugin, session, history
  <2>2. id \in ShownWindows /\ id \notin Workspaces
    BY <2>1, ShownFacts, DesktopShape, NoInstanceIsWorkspace DEF ShownWindows
  <2>3. /\ e \in Desktops
        /\ e.workspaces = desktop.workspaces /\ e.systems = desktop.systems
        /\ ~late' /\ Held => /\ \A x \in {e.active, e.front} \ {None} : HasWindow(e, x)
                             /\ e.active \in {e.front, None}
    BY <2>1, <2>2, BroughtFacts DEF Meets
  <2> HIDE DEF e
  <2>4. /\ desktop'.workspaces = e.workspaces
        /\ DOMAIN desktop'.systems = DOMAIN e.systems \ {id}
        /\ desktop'.active = IF e.active = id THEN None ELSE e.active
        /\ desktop'.front = IF e.front = id THEN None ELSE e.front
    BY <2>1, <2>3, ClosedSystemFacts
  <2>5. SameFrames(desktop, desktop', {})
    BY <2>3, <2>4 DEF SameFrames
  <2>6. Touches({})
    BY <2>1, <2>5, Unchanging
  <2>7. Holds
    <3> SUFFICES ASSUME ~late', Held PROVE Held'
      BY DEF Holds
    <3>1. desktop'.active \in {desktop'.front, None}
      BY <2>3, <2>4
    <3>2. ASSUME NEW x \in {desktop'.active, desktop'.front} \ {None} PROVE HasWindow(desktop', x)
      <4>1. x # id /\ x \in {e.active, e.front} \ {None}
        BY <2>4, <3>2
      <4> QED
        BY <2>3, <2>4, <4>1 DEF HasWindow
    <3> QED
      BY <2>1, <2>3, <2>4, <3>1, <3>2 DEF Held
  <2> QED
    BY <2>1, <2>6, <2>7 DEF Fits, Steady
<1>3. ASSUME NEW w \in Workspaces,
             (\E p \in Plugins : OpenWorkspacePlugin(w, p)) \/ (\E id : CloseWorkspacePlugin(w, id))
      PROVE  Fits
  BY <1>3, ReachFits DEF OpenWorkspacePlugin, CloseWorkspacePlugin
<1> QED
  BY <1>1, <1>2, <1>3 DEF SystemWindows

\* A gesture that starts or goes on leaves every frame.
LEMMA CanvasFit ==
  ASSUME TypeOK, Screen, lane # "click", UNCHANGED <<open, used, ui, shown>>, late => late',
         desktop'.workspaces = desktop.workspaces, desktop'.systems = desktop.systems,
         \/ canvas'.gesture = canvas.gesture
         \/ canvas'.gesture.kind # "window"
         \/ /\ canvas.gesture.kind = "window" /\ canvas'.gesture.id = canvas.gesture.id
            /\ canvas'.gesture.start = canvas.gesture.start,
         ~late' /\ Held => /\ \A id \in {desktop'.active, desktop'.front} \ {None} : HasWindow(desktop', id)
                           /\ desktop'.active \in {desktop'.front, None}
  PROVE  Fits
<1>1. SameFrames(desktop, desktop', {})
  BY DEF SameFrames
<1>2. Touches({})
  BY <1>1 DEF Touches, Screen
<1>3. Matching'
  BY DEF Screen, Matching
<1>4. Holds
  BY DEF Holds, Held
<1> QED
  BY <1>2, <1>3, <1>4 DEF Fits, Steady

\* The window that is grabbed has the frame that is shown.
LEMMA GrabbedFrame ==
  ASSUME TypeOK, Matching, NEW id \in ShownWindows
  PROVE  /\ HasWindow(shown.desktop, id)
         /\ id \in DOMAIN desktop.workspaces => desktop.workspaces[id] = FrameOf(shown.desktop, id)
<1>1. HasWindow(shown.desktop, id)
  BY DEF ShownWindows, HasWindow
<1>2. ASSUME id \in DOMAIN desktop.workspaces
      PROVE  desktop.workspaces[id] = FrameOf(shown.desktop, id)
  <2>1. id \in Workspaces
    BY <1>2, DesktopShape DEF TypeOK
  <2>2. DOMAIN shown.desktop.systems \subseteq InstanceIds
    BY ShownFacts, DesktopShape
  <2>3. id \in DOMAIN shown.desktop.workspaces
    BY <1>1, <2>1, <2>2, NoInstanceIsWorkspace DEF HasWindow
  <2> QED
    BY <1>2, <2>3 DEF Matching, FrameOf
<1> QED
  BY <1>1, <1>2

LEMMA CanvasGesturesFit ==
  ASSUME TypeOK, Screen,
         \/ Space \/ Escape \/ (\E kind \in {"pan", "wire", "pinch"} : Begin(kind))
         \/ (\E delta \in Deltas : Move(delta)) \/ (\E zoom \in Zooms : Pinch(zoom))
         \/ EndPan \/ (\E point \in Points : EndWire(point)) \/ EndPinch \/ Cancel
         \/ (\E camera \in Wheels : Wheel(camera)) \/ (\E delta \in Deltas : Drag(delta))
  PROVE  Fits
<1>a. desktop \in Desktops /\ canvas \in Canvases
  BY DEF TypeOK
<1>b. NoGesture.kind = "none"
  BY DEF NoGesture
<1>1. lane # "click" /\ UNCHANGED <<open, used, ui, shown, late>>
  BY DEF Space, Escape, Begin, Move, Pinch, EndPan, EndWire, EndPinch, Cancel, Wheel, Drag, Touch,
         Click, Later, Event, session, history
<1>c. canvas = [preview |-> canvas.preview, gesture |-> canvas.gesture, creator |-> canvas.creator]
  BY <1>a, CanvasFacts
<1>2. \/ canvas'.gesture = canvas.gesture
      \/ canvas'.gesture.kind # "window"
      \/ /\ canvas.gesture.kind = "window" /\ canvas'.gesture.id = canvas.gesture.id
         /\ canvas'.gesture.start = canvas.gesture.start
  <2>1. ASSUME Space \/ Escape \/ (\E delta \in Deltas : Move(delta)) \/ (\E zoom \in Zooms : Pinch(zoom))
                 \/ (\E camera \in Wheels : Wheel(camera))
        PROVE  canvas'.gesture = canvas.gesture
    BY <1>c, <2>1 DEF Space, Escape, Move, Pinch, Wheel
  <2>2. ASSUME EndPan \/ (\E point \in Points : EndWire(point)) \/ EndPinch \/ Cancel
        PROVE  canvas'.gesture = NoGesture
    BY <1>c, <2>2 DEF EndPan, EndWire, EndPinch, Cancel
  <2>3. ASSUME NEW kind \in {"pan", "wire", "pinch"}, Begin(kind) PROVE canvas'.gesture.kind = kind
    <3>1. canvas'.gesture = [kind |-> kind, camera |-> ShownCamera]
      BY <1>c, <2>3 DEF Begin
    <3> QED
      BY <3>1
  <2>4. ASSUME NEW delta \in Deltas, Drag(delta)
        PROVE  /\ canvas.gesture.kind = "window" /\ canvas'.gesture.id = canvas.gesture.id
               /\ canvas'.gesture.start = canvas.gesture.start
    <3> DEFINE g == canvas.gesture
               to == Resized(g.start, g.direction, delta)
    <3>1. canvas'.gesture = [g EXCEPT !.last = to] /\ g.kind = "window"
      BY <1>c, <2>4 DEF Drag
    <3>2. g = [kind |-> g.kind, id |-> g.id, direction |-> g.direction, start |-> g.start, last |-> g.last]
      BY <1>a, <3>1, CanvasFacts DEF WindowGestures
    <3> HIDE DEF g, to
    <3>3. canvas'.gesture.id = g.id /\ canvas'.gesture.start = g.start
      BY <3>1, <3>2
    <3> QED
      BY <3>1, <3>3 DEF g
  <2> QED
    BY <1>b, <2>1, <2>2, <2>3, <2>4
<1>3. /\ desktop'.workspaces = desktop.workspaces /\ desktop'.systems = desktop.systems
      /\ desktop'.front = desktop.front /\ desktop'.active \in {desktop.active, None}
  <2>1. ASSUME EndPan
        PROVE  /\ desktop'.workspaces = desktop.workspaces /\ desktop'.systems = desktop.systems
               /\ desktop'.front = desktop.front /\ desktop'.active = None
    <3> DEFINE moved == [desktop EXCEPT !.camera = ShownCamera]
    <3>1. moved \in Desktops
      BY <1>a, ShownFacts, FocusFacts
    <3>2. /\ moved.workspaces = desktop.workspaces /\ moved.systems = desktop.systems
          /\ moved.front = desktop.front
      BY <1>a, FocusKeeps
    <3>3. desktop' = ClearedActive(moved)
      BY <2>1 DEF EndPan
    <3> HIDE DEF moved
    <3> QED
      BY <3>1, <3>2, <3>3, FocusKeeps
  <2>2. desktop' = desktop \/ EndPan \/ (\E camera : desktop' = [desktop EXCEPT !.camera = camera])
    BY DEF Space, Escape, Begin, Move, Pinch, EndWire, EndPinch, Cancel, Wheel, Drag
  <2>3. ASSUME NEW camera, desktop' = [desktop EXCEPT !.camera = camera]
        PROVE  /\ desktop'.workspaces = desktop.workspaces /\ desktop'.systems = desktop.systems
               /\ desktop'.front = desktop.front /\ desktop'.active = desktop.active
    <3> DEFINE d == desktop
    <3>1. /\ d \in Desktops /\ desktop' = [d EXCEPT !.camera = camera]
      BY <1>a, <2>3
    <3> HIDE DEF d
    <3>2. /\ desktop'.workspaces = d.workspaces /\ desktop'.systems = d.systems
          /\ desktop'.front = d.front /\ desktop'.active = d.active
      BY <3>1, FocusKeeps
    <3> QED
      BY <3>2 DEF d
  <2> QED
    BY <2>1, <2>2, <2>3
<1>4. Held => /\ \A id \in {desktop'.active, desktop'.front} \ {None} : HasWindow(desktop', id)
              /\ desktop'.active \in {desktop'.front, None}
  BY <1>3 DEF Held, HasWindow
<1> QED
  BY <1>1, <1>2, <1>3, <1>4, CanvasFit

\* The release replaces the frame of the window that was dragged.
LEMMA ReleaseFacts ==
  ASSUME TypeOK, Release
  PROVE  LET g == canvas.gesture IN
         /\ g \in WindowGestures
         /\ canvas'.gesture = NoGesture
         /\ DOMAIN desktop'.workspaces = DOMAIN desktop.workspaces
         /\ DOMAIN desktop'.systems = DOMAIN desktop.systems
         /\ \A x \in DOMAIN desktop.workspaces :
              desktop'.workspaces[x] \in {desktop.workspaces[x], IF x = g.id THEN g.last ELSE desktop.workspaces[x]}
         /\ \A x \in DOMAIN desktop.systems :
              desktop'.systems[x] \in {desktop.systems[x], IF x = g.id THEN g.last ELSE desktop.systems[x]}
         /\ desktop'.active = desktop.active /\ desktop'.front = desktop.front
<1> DEFINE g == canvas.gesture
<1>1. desktop \in Desktops /\ canvas \in Canvases /\ g \in WindowGestures
  BY CanvasFacts DEF TypeOK, Release
<1>2. canvas'.gesture = NoGesture
  BY <1>1, CanvasFacts DEF Release
<1>3. desktop' = IF g.last = g.start THEN desktop ELSE Framed(desktop, g.id, g.last)
  BY DEF Release
<1> HIDE DEF g
<1>4. g.last \in Frames /\ (g.id \in InstanceIds => g.last.x + g.last.size <= World)
  <2>1. /\ g.last \in Frames /\ g.start \in Frames
        /\ g.id \in InstanceIds => Right(g.start) <= World
        /\ Right(g.last) <= World \/ Right(g.last) <= Right(g.start)
    BY <1>1 DEF WindowGestures
  <2>2. Right(g.start) \in Int /\ Right(g.last) \in Int /\ World \in Int
    BY <2>1, Sizes DEF Frames, Right
  <2> QED
    BY <2>1, <2>2 DEF Right
<1>5. CASE desktop' = desktop
  BY <1>1, <1>2, <1>5 DEF g
<1>6. CASE desktop' = Framed(desktop, g.id, g.last)
  <2>1. /\ DOMAIN desktop'.workspaces = DOMAIN desktop.workspaces
        /\ DOMAIN desktop'.systems = DOMAIN desktop.systems
        /\ \A x \in DOMAIN desktop'.workspaces :
             desktop'.workspaces[x] = IF x = g.id THEN g.last ELSE desktop.workspaces[x]
        /\ \A x \in DOMAIN desktop'.systems :
             desktop'.systems[x] = IF x = g.id /\ g.id \notin DOMAIN desktop.workspaces THEN g.last
                                   ELSE desktop.systems[x]
        /\ desktop'.active = desktop.active /\ desktop'.front = desktop.front
    BY <1>1, <1>4, <1>6, FramedFacts
  <2> QED
    BY <1>1, <1>2, <2>1 DEF g
<1> QED
  BY <1>3, <1>5, <1>6

LEMMA GesturesFit ==
  TypeOK /\ Screen /\ Gestures =>
    Fits \/ \E id \in ShownWindows, direction \in Directions : Grab(id, direction)
<1> SUFFICES ASSUME TypeOK, Screen, Gestures
             PROVE  Fits \/ \E id \in ShownWindows, direction \in Directions : Grab(id, direction)
  OBVIOUS
<1> USE DEF Click, Event
<1>1. ASSUME NEW id \in ShownWindows, ActivateWindow(id) PROVE Fits
  <2>1. /\ Bring(id) /\ lane # "click" /\ lane' = "click" /\ UNCHANGED <<open, used, canvas, shown>>
    BY <1>1 DEF ActivateWindow, session
  <2>2. /\ desktop'.workspaces = desktop.workspaces /\ desktop'.systems = desktop.systems
        /\ late => late'
        /\ ui'.pending = ui.pending
        /\ ~late' /\ Held =>
             /\ \A x \in {desktop'.active, desktop'.front} \ {None} : HasWindow(desktop', x)
             /\ desktop'.active \in {desktop'.front, None}
    BY <2>1, BringFacts
  <2>3. Touches({})
    BY <2>1, <2>2 DEF Touches, SameFrames, Screen
  <2>4. Holds
    BY <2>1, <2>2 DEF Holds, Held
  <2> QED
    BY <2>1, <2>2, <2>3, <2>4 DEF Fits, Steady
<1>2. CASE Release
  <2>1. lane' = "click" /\ UNCHANGED <<open, used, ui, shown, late>>
    BY <1>2 DEF Release, Touch, session, history
  <2> DEFINE S == DOMAIN desktop.workspaces \cap {canvas.gesture.id}
  <2>2. SameFrames(desktop, desktop', S)
    BY <1>2, ReleaseFacts DEF SameFrames
  <2>3. canvas'.gesture.kind # "window"
    BY <1>2, ReleaseFacts DEF NoGesture
  <2>4. Touches(S)
    BY <2>1, <2>2, <2>3 DEF Touches, Screen
  <2>5. Holds
    BY <1>2, <2>1, ReleaseFacts DEF Holds, Held, HasWindow
  <2> QED
    BY <2>1, <2>4, <2>5 DEF Fits, Steady
<1>3. CASE \/ Space \/ Escape \/ (\E kind \in {"pan", "wire", "pinch"} : Begin(kind))
           \/ (\E delta \in Deltas : Move(delta)) \/ (\E zoom \in Zooms : Pinch(zoom))
           \/ EndPan \/ (\E point \in Points : EndWire(point)) \/ EndPinch \/ Cancel
           \/ (\E camera \in Wheels : Wheel(camera)) \/ (\E delta \in Deltas : Drag(delta))
  BY <1>3, CanvasGesturesFit
<1> QED
  BY <1>1, <1>2, <1>3 DEF Gestures, Directions

\* A drag begins with the frame that is there.
LEMMA GrabScreen ==
  ASSUME TypeOK, TypeOK', Screen, NEW id \in ShownWindows, NEW direction \in Directions,
         Grab(id, direction)
  PROVE  Screen' /\ Steady /\ Holds
<1> DEFINE start == FrameOf(shown.desktop, id)
           g == [kind |-> "window", id |-> id, direction |-> direction, start |-> start, last |-> start]
<1>1. /\ Bring(id) /\ lane # "click" /\ lane' = "click" /\ UNCHANGED <<open, used, shown>>
      /\ canvas' = [canvas EXCEPT !.gesture = g]
  BY DEF Grab, Click, Event, session
<1>2. canvas'.gesture = g
  BY <1>1, CanvasFacts DEF TypeOK
<1>3. Matching
  BY <1>1 DEF Screen
<1>4. /\ HasWindow(shown.desktop, id)
      /\ id \in DOMAIN desktop.workspaces => desktop.workspaces[id] = start
  BY <1>3, GrabbedFrame
<1> HIDE DEF start
<1>5. canvas'.gesture.id = id /\ canvas'.gesture.start = start
  BY <1>2
<1>6. /\ desktop'.workspaces = desktop.workspaces /\ desktop'.systems = desktop.systems
      /\ late => late'
      /\ ui'.pending = ui.pending
      /\ ~late' /\ Held =>
           /\ \A x \in {desktop'.active, desktop'.front} \ {None} : HasWindow(desktop', x)
           /\ desktop'.active \in {desktop'.front, None}
  BY <1>1, BringFacts
<1>7. Dragged'
  BY <1>1, <1>4, <1>5, <1>6 DEF Dragged
<1>8. Screen'
  BY <1>1, <1>6, <1>7 DEF Screen
<1> QED
  BY <1>1, <1>6, <1>8 DEF Steady, Holds, Held

LEMMA ScreenInit == Init => Screen /\ Held
<1> SUFFICES ASSUME Init PROVE Screen /\ Held
  OBVIOUS
<1>1. PICK v \in Viewports : desktop = [NewDesktop EXCEPT !.viewport = v]
  BY DEF Init
<1>2. desktop.workspaces = << >> /\ desktop.systems = << >> /\ desktop.active = None /\ desktop.front = None
  BY <1>1 DEF NewDesktop
<1>3. /\ open = << >> /\ shown.open = << >> /\ shown.desktop = desktop
      /\ canvas.gesture.kind = "none" /\ ui.pending = None
  BY DEF Init, Rendered, NewCanvas, NoGesture
<1>4. DOMAIN desktop.workspaces = {} /\ Range(open) = {} /\ Range(shown.open) = {}
  BY <1>2, <1>3 DEF Range
<1>5. Screen
  BY <1>3, <1>4 DEF Screen, Matching, Dragged
<1>6. Held
  BY <1>2, <1>3, <1>4 DEF Held
<1> QED
  BY <1>5, <1>6

\* A canvas that is rendered keeps a drag only with its window.
LEMMA CommitScreen ==
  ASSUME TypeOK, Screen, NEW again \in BOOLEAN, Commit(again)
  PROVE  /\ Screen'
         /\ UNCHANGED <<open, desktop, ui, late>>
<1> DEFINE r == Rendered
           m == Mounted(r)
           kept == IF canvas.gesture.kind = "window" /\ ~HasWindow(r.desktop, canvas.gesture.id)
                   THEN [canvas EXCEPT !.gesture = NoGesture] ELSE canvas
<1>1. /\ shown' = [r EXCEPT !.preview = m.preview] /\ canvas' = m
      /\ UNCHANGED <<open, used, desktop, ui, late>>
  BY DEF Commit, session, history
<1>2. shown'.desktop = desktop /\ shown'.open = open
  BY <1>1 DEF Rendered
<1>3. NoGesture.kind = "none"
  BY DEF NoGesture
<1>4. canvas'.gesture.kind = "window" =>
        canvas'.gesture = canvas.gesture /\ HasWindow(desktop, canvas.gesture.id)
  <2>1. r.desktop = desktop
    BY DEF Rendered
  <2>2. canvas = [preview |-> canvas.preview, gesture |-> canvas.gesture, creator |-> canvas.creator]
    BY CanvasFacts DEF TypeOK
  <2>3. kept.gesture = IF canvas.gesture.kind = "window" /\ ~HasWindow(desktop, canvas.gesture.id)
                       THEN NoGesture ELSE canvas.gesture
    BY <2>1, <2>2
  <2>4. kept = [preview |-> kept.preview, gesture |-> kept.gesture, creator |-> kept.creator]
    BY <2>2
  <2>5. m = NewCanvas \/ (\E x : m = [kept EXCEPT !.creator = x]) \/ m = kept
    BY DEF Mounted
  <2> HIDE DEF kept, m
  <2>6. m.gesture \in {NoGesture, kept.gesture}
    BY <2>4, <2>5 DEF NewCanvas
  <2> QED
    BY <1>1, <1>3, <2>3, <2>6
<1>5. Dragged'
  BY <1>1, <1>2, <1>4 DEF Screen, Dragged
<1>6. Matching'
  BY <1>1, <1>2 DEF Matching
<1>7. Screen'
  BY <1>1, <1>2, <1>5, <1>6 DEF Screen
<1> QED
  BY <1>1, <1>7

LEMMA ScreenStep == TypeOK /\ Screen /\ [Next]_vars => Screen' /\ Steady /\ Holds
<1> SUFFICES ASSUME TypeOK, Screen, [Next]_vars PROVE Screen' /\ Steady /\ Holds
  OBVIOUS
<1>1. TypeOK'
  BY TypeStep
<1>2. ASSUME Fits PROVE Screen' /\ Steady /\ Holds
  <2>1. PICK S : Touches(S)
    BY <1>2 DEF Fits
  <2> QED
    BY <1>1, <1>2, <2>1, TouchedScreen DEF Fits
<1>3. ASSUME NEW id \in ShownWindows, NEW direction \in Directions, Grab(id, direction)
      PROVE  Screen' /\ Steady /\ Holds
  BY <1>1, <1>3, GrabScreen
<1>4. ASSUME NEW again \in BOOLEAN, Commit(again) PROVE Screen' /\ Steady /\ Holds
  <2>1. Screen' /\ UNCHANGED <<open, desktop, ui, late>>
    BY <1>4, CommitScreen
  <2> QED
    BY <2>1 DEF Steady, Holds, Held
<1>5. CASE Passive \/ Unmount \/ UNCHANGED vars
  <2>1. UNCHANGED <<open, used, desktop, ui, canvas, shown, lane, late>>
    BY <1>5 DEF Passive, Unmount, vars, session, history
  <2> QED
    BY <2>1 DEF Screen, Matching, Dragged, Steady, Holds, Held
<1> QED
  BY <1>2, <1>3, <1>4, <1>5, ClosingFits, TabsFit, SystemWindowsFit, GesturesFit DEF Next

\* The dialog and the windows name open workspaces, and the active and the
\* front window are there, unless a handler met a closed workspace.
THEOREM NothingDangles == Spec => []DanglingNeedsRace
<1>1. Init => TypeOK /\ Screen /\ DanglingNeedsRace
  BY TypeInit, ScreenInit DEF Held, DanglingNeedsRace
<1>2. TypeOK /\ Screen /\ DanglingNeedsRace /\ [Next]_vars =>
        (TypeOK /\ Screen /\ DanglingNeedsRace)'
  BY TypeStep, ScreenStep DEF Steady, Holds, Held, DanglingNeedsRace
<1> QED
  BY <1>1, <1>2, PTL DEF Spec

-----------------------------------------------------------------------------
(***************************************************************************)
(* Walls.                                                                  *)
(***************************************************************************)

\* A drag ends with the release, or with the surface or the window.
LEMMA DragEnds ==
  ASSUME TypeOK, Next, canvas.gesture.kind = "window", canvas'.gesture = NoGesture
  PROVE  Release \/ desktop' = desktop
<1> DEFINE g == canvas.gesture
<1>1. /\ canvas = [preview |-> canvas.preview, gesture |-> canvas.gesture, creator |-> canvas.creator]
      /\ g \in WindowGestures
  BY CanvasFacts DEF TypeOK
<1>2. canvas'.gesture # canvas.gesture
  BY DEF NoGesture
<1>3. ~Closing
  BY <1>2 DEF Closing, RequestClose, Discard, CancelClose, ExportAndClose, ExportDone
<1>4. ~Tabs
  <2>1. ASSUME NEW w \in Workspaces, CreateWorkspace(w) PROVE FALSE
    BY <1>1, <1>2, <2>1 DEF CreateWorkspace
  <2> QED
    BY <1>2, <2>1 DEF Tabs, OpenNodeMap, Edit, ActivateTab, CloseWindow, Reorder, CloseFocusedWindow,
         OpenCreator, NextTab, SetOpenMode, Drop, Turn
<1>5. ~SystemWindows
  <2>1. ASSUME NEW p \in Plugins, OpenHostPlugin(p) PROVE FALSE
    BY <1>1, <1>2, <2>1 DEF OpenHostPlugin
  <2> QED
    BY <1>2, <2>1 DEF SystemWindows, CloseHostPlugin, OpenWorkspacePlugin, CloseWorkspacePlugin
<1>6. Gestures => Release
  <2>1. ASSUME Space \/ Escape \/ (\E delta \in Deltas : Move(delta))
                 \/ (\E zoom \in Zooms : Pinch(zoom)) \/ (\E camera \in Wheels : Wheel(camera))
                 \/ (\E id \in ShownWindows : ActivateWindow(id))
        PROVE  canvas'.gesture = canvas.gesture
    BY <1>1, <2>1 DEF Space, Escape, Move, Pinch, Wheel, ActivateWindow
  <2>2. /\ \A kind \in {"pan", "wire", "pinch"} : ~Begin(kind)
        /\ \A id \in ShownWindows, direction \in {"none", "east", "west"} : ~Grab(id, direction)
        /\ ~EndPan /\ (\A point \in Points : ~EndWire(point)) /\ ~EndPinch /\ ~Cancel
    BY DEF Begin, Grab, EndPan, EndWire, EndPinch, Cancel
  <2>3. ASSUME NEW delta \in Deltas, Drag(delta) PROVE FALSE
    <3> DEFINE to == Resized(g.start, g.direction, delta)
    <3>1. canvas'.gesture = [g EXCEPT !.last = to] /\ g.kind = "window"
      BY <1>1, <2>3 DEF Drag
    <3>2. g = [kind |-> g.kind, id |-> g.id, direction |-> g.direction, start |-> g.start, last |-> g.last]
      BY <1>1 DEF WindowGestures
    <3> HIDE DEF g, to
    <3>3. canvas'.gesture.kind = "window"
      BY <3>1, <3>2
    <3> QED
      BY <3>3 DEF NoGesture
  <2> QED
    BY <1>2, <2>1, <2>2, <2>3 DEF Gestures
<1>7. ASSUME \/ \E again \in BOOLEAN : Commit(again)
             \/ Passive \/ Unmount
      PROVE  desktop' = desktop
  BY <1>7 DEF Commit, Passive, Unmount
<1> QED
  BY <1>3, <1>4, <1>5, <1>6, <1>7 DEF Next

LEMMA FarthestRight ==
  ASSUME NEW a \in Int, NEW b \in Int, b <= World \/ b <= a
  PROVE  b <= Max({World, a})
BY MaxOfTwo, Sizes

LEMMA ReleasedWithin ==
  ASSUME TypeOK, TypeOK', Dragged, Release, NEW id, HasWindow(desktop, id), HasWindow(desktop', id)
  PROVE  LET old == FrameOf(desktop, id)
             new == FrameOf(desktop', id)
         IN new.x + new.size <= World \/ new.x + new.size <= old.x + old.size
<1> DEFINE g == canvas.gesture
           old == FrameOf(desktop, id)
           new == FrameOf(desktop', id)
<1>1. /\ g \in WindowGestures
      /\ DOMAIN desktop'.workspaces = DOMAIN desktop.workspaces
      /\ DOMAIN desktop'.systems = DOMAIN desktop.systems
      /\ \A x \in DOMAIN desktop.workspaces :
           desktop'.workspaces[x] \in {desktop.workspaces[x], IF x = g.id THEN g.last ELSE desktop.workspaces[x]}
      /\ \A x \in DOMAIN desktop.systems :
           desktop'.systems[x] \in {desktop.systems[x], IF x = g.id THEN g.last ELSE desktop.systems[x]}
  BY ReleaseFacts
<1>2. old \in Frames /\ new \in Frames
  BY FrameOfFacts DEF TypeOK
<1>3. /\ g.start \in Frames /\ g.last \in Frames
      /\ g.id \in InstanceIds => Right(g.start) <= World
      /\ Right(g.last) <= World \/ Right(g.last) <= Right(g.start)
  BY <1>1 DEF WindowGestures
<1>4. /\ Right(old) \in Int /\ Right(new) \in Int /\ Right(g.start) \in Int /\ Right(g.last) \in Int
      /\ World \in Int
  BY <1>2, <1>3, Sizes DEF Frames, Right
<1>5. g.id \in DOMAIN desktop.workspaces => desktop.workspaces[g.id] = g.start
  BY DEF Dragged, Release
<1>6. DOMAIN desktop.systems \subseteq InstanceIds
  BY DesktopShape DEF TypeOK
<1>7. \/ new = old
      \/ new = g.last /\ (old = g.start \/ g.id \in InstanceIds)
  BY <1>1, <1>5, <1>6 DEF FrameOf, HasWindow
<1> HIDE DEF g, old, new
<1>8. Right(new) <= World \/ Right(new) <= Right(old)
  BY <1>3, <1>4, <1>7
<1> QED
  BY <1>8 DEF Right, old, new

LEMMA WallStep == TypeOK /\ TypeOK' /\ Screen /\ Next => WithinWalls
<1> SUFFICES ASSUME TypeOK, TypeOK', Screen, Next, NEW id, HasWindow(desktop', id)
             PROVE  /\ FrameOf(desktop', id).size \in MinSize..MaxSize
                    /\ canvas.gesture.kind = "window" /\ canvas'.gesture = NoGesture
                           /\ HasWindow(desktop, id) =>
                         FrameOf(desktop', id).x + FrameOf(desktop', id).size
                           <= Max({World, FrameOf(desktop, id).x + FrameOf(desktop, id).size})
  BY DEF WithinWalls
<1>1. FrameOf(desktop', id) \in Frames
  BY FrameOfFacts DEF TypeOK
<1>2. FrameOf(desktop', id).size \in MinSize..MaxSize
  BY <1>1 DEF Frames
<1>3. ASSUME canvas.gesture.kind = "window", canvas'.gesture = NoGesture, HasWindow(desktop, id)
      PROVE  FrameOf(desktop', id).x + FrameOf(desktop', id).size
               <= Max({World, FrameOf(desktop, id).x + FrameOf(desktop, id).size})
  <2> DEFINE a == FrameOf(desktop, id).x + FrameOf(desktop, id).size
             b == FrameOf(desktop', id).x + FrameOf(desktop', id).size
  <2>1. FrameOf(desktop, id) \in Frames
    BY <1>3, FrameOfFacts DEF TypeOK
  <2>2. a \in Int /\ b \in Int
    BY <1>1, <2>1, Sizes DEF Frames
  <2>3. b <= World \/ b <= a
    <3>1. CASE Release
      BY <1>3, <3>1, ReleasedWithin DEF Screen
    <3>2. CASE desktop' = desktop
      BY <2>2, <3>2
    <3> QED
      BY <1>3, <3>1, <3>2, DragEnds
  <2> HIDE DEF a, b
  <2>4. b <= Max({World, a})
    BY <2>2, <2>3, FarthestRight
  <2> QED
    BY <2>4 DEF a, b
<1> QED
  BY <1>2, <1>3

\* No gesture takes a window over the right wall, and no window is smaller or
\* larger than windows may be.
THEOREM WallsStand == Spec => WallsHold
<1>1. Init => TypeOK /\ Screen
  BY TypeInit, ScreenInit
<1>2. TypeOK /\ Screen /\ [Next]_vars => (TypeOK /\ Screen)'
  BY TypeStep, ScreenStep
<1>3. TypeOK /\ TypeOK' /\ Screen /\ [Next]_vars => [WithinWalls]_vars
  BY WallStep
<1> QED
  BY <1>1, <1>2, <1>3, PTL DEF Spec, WallsHold
=============================================================================
