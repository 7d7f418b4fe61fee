------------------------- MODULE PluginImportProofs -------------------------
(***************************************************************************)
(* Imports, for any packages, closures, overlaps of imports and clicks:    *)
(* the capabilities of the host are those of its active node types         *)
(* (Owned), modules run once (ModulesRunOnce), the manager and the         *)
(* registries agree (ManagerAgrees), trust is earned (TrustIsEarned).      *)
(*                                                                         *)
(* CapabilitiesAreOwned is inductive as soon as owner is known to be a     *)
(* function on Capabilities: a package becomes active only in the step     *)
(* that gives it all of Registers, and leaves active only in a step that   *)
(* releases everything it owns.  The others rest on LoadInv, which says    *)
(* whose loads #installing holds and what they find when they end.         *)
(***************************************************************************)
EXTENDS PluginImport, TLAPS

OwnerMap == owner = [c \in Capabilities |-> owner[c]]

IInv == OwnerMap /\ CapabilitiesAreOwned

(* The packages of S go, and take with them what they registered: the      *)
(* common part of a rollback and of the buttons that disable and uninstall.*)
LEMMA ReleaseKeepsOwnership ==
    ASSUME NEW S, S \subseteq Plugins, IInv, active' = active \ S, owner' = Released(S)
    PROVE  IInv'
<1>1. None \notin Plugins
    BY PluginImportAssumption
<1>2. OwnerMap'
    BY DEF Released, OwnerMap
<1>3. ASSUME NEW c \in Capabilities, owner'[c] # None
      PROVE  owner'[c] \in active' /\ c \in Registers[owner'[c]]
    <2>1. owner[c] \notin S /\ owner'[c] = owner[c]
        BY <1>3 DEF Released
    <2>2. QED
        BY <1>3, <2>1 DEF IInv, CapabilitiesAreOwned
<1>4. ASSUME NEW t \in active' \cap NodeTypes, NEW c \in Registers[t]
      PROVE  owner'[c] = t
    <2>1. c \in Capabilities
        BY DEF Capabilities
    <2>2. owner[c] = t /\ t \notin S
        BY DEF IInv, CapabilitiesAreOwned
    <2>3. QED
        BY <2>1, <2>2 DEF Released
<1>5. QED
    BY <1>2, <1>3, <1>4 DEF IInv, CapabilitiesAreOwned

(* Enabling an element, which registers nothing, leaves capabilities alone.*)
LEMMA ElementsOwnNothing ==
    ASSUME NEW e \in Elements, IInv, active' = active \cup {e}, owner' = owner
    PROVE  IInv'
<1>1. e \notin NodeTypes
    BY PluginImportAssumption
<1>2. QED
    BY <1>1 DEF IInv, OwnerMap, CapabilitiesAreOwned

(* A node type whose capabilities were all free owns them once activated.  *)
LEMMA RegistrationGivesOwnership ==
    ASSUME NEW t \in NodeTypes, IInv,
           \A c \in Registers[t] : owner[c] = None,
           active' = active \cup {t},
           owner' = [c \in Capabilities |-> IF c \in Registers[t] THEN t ELSE owner[c]]
    PROVE  IInv'
<1>1. OwnerMap'
    BY DEF OwnerMap
<1>2. ASSUME NEW c \in Capabilities, owner'[c] # None
      PROVE  owner'[c] \in active' /\ c \in Registers[owner'[c]]
    <2>1. CASE c \in Registers[t]
        BY <2>1
    <2>2. CASE c \notin Registers[t]
        BY <1>2, <2>2 DEF IInv, CapabilitiesAreOwned
    <2>3. QED
        BY <2>1, <2>2
<1>3. ASSUME NEW u \in active' \cap NodeTypes, NEW c \in Registers[u]
      PROVE  owner'[c] = u
    <2>1. c \in Capabilities
        BY DEF Capabilities
    <2>2. CASE u = t
        BY <2>1, <2>2
    <2>3. CASE u # t
        <3>1. owner[c] = u
            BY <2>3 DEF IInv, CapabilitiesAreOwned
        <3>2. u # None
            BY PluginImportAssumption DEF Plugins
        <3>3. QED
            BY <2>1, <3>1, <3>2
    <2>4. QED
        BY <2>2, <2>3
<1>4. QED
    BY <1>1, <1>2, <1>3 DEF IInv, CapabilitiesAreOwned

(* Nothing else touches the two, so the rest of a step does not matter.    *)
LEMMA OwnershipStutters ==
    ASSUME IInv, active' = active, owner' = owner
    PROVE  IInv'
BY DEF IInv, OwnerMap, CapabilitiesAreOwned

-----------------------------------------------------------------------------
LEMMA InstallOnceKeepsOwnership ==
    ASSUME NEW i \in Imports, IInv, InstallOnce(i)
    PROVE  IInv'
<1>1. CASE Throw(i)
    BY <1>1, OwnershipStutters DEF Throw, registry
<1>2. CASE AlreadyActive(i)
    BY <1>2, OwnershipStutters DEF AlreadyActive, registry
<1>3. CASE ReactivateElement(i)
    <2>1. Current(i) \in Elements
        BY <1>3 DEF ReactivateElement
    <2>2. active' = active \cup {Current(i)} /\ owner' = owner
        BY <1>3 DEF ReactivateElement
    <2>3. QED
        BY <2>1, <2>2, ElementsOwnNothing
<1>4. CASE StartLoad(i)
    BY <1>4, OwnershipStutters DEF StartLoad
<1>5. QED
    BY <1>1, <1>2, <1>3, <1>4 DEF InstallOnce

LEMMA InstallKeepsOwnership ==
    ASSUME NEW i \in Imports, IInv, Install(i)
    PROVE  IInv'
<1>1. CASE Join(i)
    BY <1>1, OwnershipStutters DEF Join, registry
<1>2. CASE InstallOnce(i)
    BY <1>2, InstallOnceKeepsOwnership
<1>3. QED
    BY <1>1, <1>2 DEF Install

LEMMA RollbackKeepsOwnership ==
    ASSUME NEW i \in Imports, IInv, Rollback(i)
    PROVE  IInv'
<1> DEFINE throwing == {n \in installed[i] : Throws(Closure(i)[n])}
           undone == {n \in installed[i] : \A m \in throwing : n >= m}
           gone == UNION {SameId(Closure(i)[n]) : n \in undone}
<1>1. gone \subseteq Plugins
    BY DEF SameId
<1>2. active' = active \ gone /\ owner' = Released(gone)
    BY DEF Rollback
<1> HIDE DEF gone
<1>3. QED
    BY <1>1, <1>2, ReleaseKeepsOwnership

LEMMA StepKeepsOwnership ==
    ASSUME IInv, [Next]_vars
    PROVE  IInv'
<1>1. ASSUME NEW i \in Imports, Begin(i)
      PROVE  IInv'
    BY <1>1, OwnershipStutters DEF Begin, registry
<1>2. ASSUME NEW i \in Imports, InstallElement(i)
      PROVE  IInv'
    BY <1>2, InstallKeepsOwnership DEF InstallElement
<1>3. ASSUME NEW i \in Imports, InstallNodeType(i)
      PROVE  IInv'
    <2>1. CASE Install(i)
        BY <2>1, InstallKeepsOwnership
    <2>2. CASE Throw(i)
        BY <2>2, OwnershipStutters DEF Throw, registry
    <2>3. QED
        BY <1>3, <2>1, <2>2 DEF InstallNodeType
<1>4. ASSUME NEW i \in Imports, Resume(i)
      PROVE  IInv'
    BY <1>4, InstallOnceKeepsOwnership DEF Resume
<1>5. ASSUME NEW i \in Imports, ElementLoaded(i)
      PROVE  IInv'
    <2>1. Current(i) \in Elements
        BY <1>5 DEF ElementLoaded
    <2>2. CASE LoadSucceeds(i) /\ UNCHANGED owner
        BY <2>1, <2>2, ElementsOwnNothing DEF LoadSucceeds
    <2>3. CASE LoadFails(i)
        BY <2>3, OwnershipStutters DEF LoadFails
    <2>4. QED
        BY <1>5, <2>2, <2>3 DEF ElementLoaded
<1>6. ASSUME NEW i \in Imports, NodeTypeLoaded(i)
      PROVE  IInv'
    <2>1. Current(i) \in NodeTypes
        BY <1>6 DEF NodeTypeLoaded
    <2>2. CASE /\ \A c \in Registers[Current(i)] : owner[c] = None
               /\ owner' = [c \in Capabilities |->
                              IF c \in Registers[Current(i)] THEN Current(i) ELSE owner[c]]
               /\ LoadSucceeds(i)
        <3>1. active' = active \cup {Current(i)}
            BY <2>2 DEF LoadSucceeds
        <3>2. QED
            BY <2>1, <2>2, <3>1, RegistrationGivesOwnership
    <2>3. CASE LoadFails(i)
        BY <2>3, OwnershipStutters DEF LoadFails
    <2>4. QED
        BY <1>6, <2>2, <2>3 DEF NodeTypeLoaded
<1>7. ASSUME NEW i \in Imports, OpenNodeMap(i)
      PROVE  IInv'
    BY <1>7, OwnershipStutters DEF OpenNodeMap, Throw, registry
<1>8. ASSUME NEW i \in Imports, TrustHashes(i)
      PROVE  IInv'
    BY <1>8, OwnershipStutters DEF TrustHashes, registry
<1>9. ASSUME NEW i \in Imports, Rollback(i)
      PROVE  IInv'
    BY <1>9, RollbackKeepsOwnership
<1>10. ASSUME NEW p \in Plugins, Disable(p) \/ Uninstall(p)
       PROVE  IInv'
    <2>1. SameId(p) \subseteq Plugins
        BY DEF SameId
    <2>2. active' = active \ SameId(p) /\ owner' = Released(SameId(p))
        BY <1>10 DEF Disable, Uninstall
    <2>3. QED
        BY <2>1, <2>2, ReleaseKeepsOwnership
<1>11. ASSUME NEW i \in Imports, Catalogue(i)
       PROVE  IInv'
    BY <1>11, OwnershipStutters DEF Catalogue, registry
<1>12. CASE UNCHANGED vars
    BY <1>12, OwnershipStutters DEF vars, registry
<1>13. QED
    BY <1>1, <1>2, <1>3, <1>4, <1>5, <1>6, <1>7, <1>8, <1>9, <1>10, <1>11, <1>12 DEF Next, Step

(* The host offers exactly the capabilities of its active node types, in   *)
(* every run, however imports overlap, fail and roll back.                 *)
THEOREM Owned == Spec => []CapabilitiesAreOwned
<1>1. Init => IInv
    BY DEF Init, IInv, OwnerMap, CapabilitiesAreOwned
<1>2. IInv /\ [Next]_vars => IInv'
    BY StepKeepsOwnership
<1>3. IInv => CapabilitiesAreOwned
    BY DEF IInv
<1>4. QED
    BY <1>1, <1>2, <1>3, PTL DEF Spec

-----------------------------------------------------------------------------
(* Loads.  #installing holds exactly the imports that are loading, under   *)
(* the id of the package they load (Marked).  While a package is loaded    *)
(* nothing else is installed under its id (Unrivalled), and whoever        *)
(* resumes behind a load finds something active under the id (Found), so   *)
(* that it never starts a load of its own.                                 *)
Ids == {PackageId[p] : p \in Plugins}
Busy == Loading \cup {"waiting", "resumed"}

Registered ==
    /\ plugins \subseteq Plugins
    /\ active \subseteq plugins
    /\ \A p, q \in plugins : PackageId[p] = PackageId[q] => p = q

Walking ==
    /\ installing \in [Ids -> Imports \cup {None}]
    /\ pc \in [Imports -> PC]
    /\ position \in [Imports -> Nat \ {0}]
    /\ \A i \in Imports : pc[i] \in Busy => position[i] <= Len(Closure(i))

Marked ==
    /\ \A i \in Imports : pc[i] \in Loading => installing[PackageId[Current(i)]] = i
    /\ \A id \in Ids : installing[id] # None =>
          pc[installing[id]] \in Loading /\ PackageId[Current(installing[id])] = id
    /\ \A i \in Imports : pc[i] = "waiting" => installing[PackageId[Current(i)]] # None

Unrivalled ==
    \A i \in Imports : pc[i] \in Loading => plugins \cap (SameId(Current(i)) \ {Current(i)}) = {}

Found == \A i \in Imports : pc[i] = "resumed" => active \cap SameId(Current(i)) # {}

LoadInv == Registered /\ Walking /\ Marked /\ Unrivalled /\ Found

(* The package an import is at, when it is at one.                         *)
LEMMA CurrentIsPlugin ==
    ASSUME NEW i \in Imports, Walking, position[i] <= Len(Closure(i))
    PROVE  /\ Current(i) \in Plugins /\ PackageId[Current(i)] \in Ids
           /\ Current(i) \in SameId(Current(i))
<1>1. ElementPlugins[i] \in Seq(Plugins) /\ NodeTypePlugins[i] \in Seq(Plugins)
    <2>1. ElementPlugins[i] \in Seq(Elements) /\ NodeTypePlugins[i] \in Seq(NodeTypes)
        BY PluginImportAssumption
    <2>2. QED
        BY <2>1 DEF Plugins
<1>2. Closure(i) \in Seq(Plugins)
    BY <1>1 DEF Closure
<1>3. position[i] \in 1 .. Len(Closure(i))
    BY <1>2 DEF Walking
<1>4. Current(i) \in Plugins
    BY <1>2, <1>3 DEF Current
<1>5. QED
    BY <1>4 DEF Ids, SameId

(* A step that starts and ends no load, moves no import that is busy with  *)
(* one, installs nothing, and deactivates nothing others resume for.       *)
LEMMA CalmStep ==
    ASSUME LoadInv,
           pc' \in [Imports -> PC], position' \in [Imports -> Nat \ {0}],
           plugins' \subseteq plugins, active' \subseteq plugins', installing' = installing,
           active \subseteq active' \/ \A j \in Imports : pc[j] # "resumed",
           \A j \in Imports : /\ pc[j] \in Loading => pc'[j] = pc[j]
                              /\ pc'[j] \in Busy => pc'[j] = pc[j] /\ position'[j] = position[j]
    PROVE  LoadInv'
<1>1. \A j \in Imports : pc'[j] \in Busy => Current(j)' = Current(j)
    BY DEF Current, Closure
<1>2. \A j \in Imports : pc[j] \in Loading => Current(j)' = Current(j) /\ pc'[j] = pc[j]
    BY <1>1 DEF Busy
<1>3. Registered'
    BY DEF LoadInv, Registered
<1>4. Walking'
    BY DEF LoadInv, Walking, Closure
<1>5. Marked'
    <2>1. \A i \in Imports : pc'[i] \in Loading => installing[PackageId[Current(i)']] = i
        BY <1>1 DEF LoadInv, Marked, Busy
    <2>2. ASSUME NEW id \in Ids, installing[id] # None
          PROVE  pc'[installing[id]] \in Loading /\ PackageId[Current(installing[id])'] = id
        <3>1. installing[id] \in Imports /\ pc[installing[id]] \in Loading
              /\ PackageId[Current(installing[id])] = id
            BY <2>2 DEF LoadInv, Marked, Walking
        <3>2. QED
            BY <1>2, <3>1
    <2>3. \A i \in Imports : pc'[i] = "waiting" => installing[PackageId[Current(i)']] # None
        BY <1>1 DEF LoadInv, Marked, Busy
    <2>4. QED
        BY <2>1, <2>2, <2>3 DEF Marked
<1>6. Unrivalled'
    <2>1. ASSUME NEW i \in Imports, pc'[i] \in Loading
          PROVE  plugins' \cap (SameId(Current(i)') \ {Current(i)'}) = {}
        BY <1>1, <2>1 DEF LoadInv, Unrivalled, Busy
    <2>2. QED
        BY <2>1 DEF Unrivalled, SameId
<1>7. Found'
    <2>1. ASSUME NEW i \in Imports, pc'[i] = "resumed"
          PROVE  active' \cap SameId(Current(i)') # {}
        BY <1>1, <2>1 DEF LoadInv, Found, Busy
    <2>2. QED
        BY <2>1 DEF Found, SameId
<1>8. QED
    BY <1>3, <1>4, <1>5, <1>6, <1>7 DEF LoadInv

(* A load starts, under an id nothing is loaded or installed under but the *)
(* package itself.                                                         *)
LEMMA StartLoadStep ==
    ASSUME LoadInv, NEW i \in Imports, StartLoad(i), pc[i] = "next", ~AtEnd(i),
           installing[PackageId[Current(i)]] = None,
           plugins \cap (SameId(Current(i)) \ {Current(i)}) = {}
    PROVE  LoadInv'
<1> DEFINE p == Current(i)
<1>0. position[i] <= Len(Closure(i))
    <2>1. position[i] \in Nat /\ Len(Closure(i)) \in Nat
        BY PluginImportAssumption DEF LoadInv, Walking, Closure
    <2>2. QED
        BY <2>1 DEF AtEnd
<1>1. p \in Plugins /\ PackageId[p] \in Ids
    BY <1>0, CurrentIsPlugin DEF LoadInv
<1>2. /\ installing' = [installing EXCEPT ![PackageId[p]] = i]
      /\ pc'[i] \in Loading /\ \A j \in Imports \ {i} : pc'[j] = pc[j]
      /\ pc' \in [Imports -> PC]
      /\ UNCHANGED <<plugins, active, position>>
    BY DEF StartLoad, Goto, Loading, PC, LoadInv, Walking
<1>3. \A j \in Imports : Current(j)' = Current(j)
    BY <1>2 DEF Current, Closure
<1>4. None \notin Imports
    BY PluginImportAssumption
<1> HIDE DEF p
<1>5. Walking'
    BY <1>0, <1>1, <1>2 DEF LoadInv, Walking, Closure
<1>6. \A j \in Imports : pc[j] \in Busy => PackageId[Current(j)] \in Ids
    BY CurrentIsPlugin DEF LoadInv, Walking
<1>7. \A j \in Imports \ {i} : pc[j] \in Loading => PackageId[Current(j)] # PackageId[p]
    BY <1>4 DEF LoadInv, Marked, p
<1>8. Marked'
    <2>1. ASSUME NEW j \in Imports, pc'[j] \in Loading
          PROVE  installing'[PackageId[Current(j)]] = j
        <3>1. CASE j = i
            BY <1>1, <1>2, <3>1 DEF p, LoadInv, Walking
        <3>2. CASE j # i
            BY <1>2, <1>6, <1>7, <2>1, <3>2 DEF LoadInv, Marked, Walking, Busy
        <3>3. QED
            BY <3>1, <3>2
    <2>2. ASSUME NEW id \in Ids, installing'[id] # None
          PROVE  pc'[installing'[id]] \in Loading /\ PackageId[Current(installing'[id])] = id
                 /\ installing'[id] \in Imports
        <3>1. CASE id = PackageId[p]
            BY <1>1, <1>2, <3>1 DEF p, LoadInv, Walking
        <3>2. CASE id # PackageId[p]
            <4>1. installing'[id] = installing[id] /\ installing[id] \in Imports
                BY <1>2, <2>2, <3>2 DEF LoadInv, Walking
            <4>2. pc[installing[id]] \in Loading /\ PackageId[Current(installing[id])] = id
                BY <2>2, <4>1 DEF LoadInv, Marked
            <4>3. QED
                BY <1>2, <4>1, <4>2
        <3>3. QED
            BY <3>1, <3>2
    <2>3. ASSUME NEW j \in Imports, pc'[j] = "waiting"
          PROVE  installing'[PackageId[Current(j)]] # None
        <3>1. j # i /\ pc[j] = "waiting" /\ PackageId[Current(j)] \in Ids
            BY <1>2, <1>6, <2>3 DEF Loading, Busy
        <3>2. QED
            BY <1>2, <1>4, <3>1 DEF LoadInv, Marked, Walking
    <2>4. QED
        BY <1>3, <2>1, <2>2, <2>3 DEF Marked
<1>9. Unrivalled'
    BY <1>2, <1>3 DEF LoadInv, Unrivalled, SameId, p
<1>10. Found'
    BY <1>2, <1>3 DEF LoadInv, Found, SameId, Loading
<1>11. Registered'
    BY <1>2 DEF LoadInv, Registered
<1>12. QED
    BY <1>5, <1>8, <1>9, <1>10, <1>11 DEF LoadInv

(* #installOnce starts no load where the package is active or another has  *)
(* its place: then it only ends the import or takes it one package further.*)
LEMMA InstallOnceStep ==
    ASSUME LoadInv, NEW i \in Imports, InstallOnce(i),
           pc[i] \in {"next", "resumed"}, position[i] <= Len(Closure(i)),
           pc[i] = "next" => installing[PackageId[Current(i)]] = None
                             /\ \A j \in Imports : pc[j] # "resumed"
    PROVE  LoadInv'
<1>1. pc \in [Imports -> PC] /\ position \in [Imports -> Nat \ {0}] /\ pc[i] \notin Loading
    BY DEF LoadInv, Walking, Loading
<1>2. CASE Throw(i)
    <2>1. pc' \in [Imports -> PC] /\ pc'[i] \notin Busy /\ \A j \in Imports \ {i} : pc'[j] = pc[j]
        BY <1>1, <1>2 DEF Throw, Goto, PC, Micro, Busy, Loading
    <2>2. UNCHANGED <<plugins, active, installing, position>>
        BY <1>2 DEF Throw, registry
    <2>3. QED
        BY <1>1, <2>1, <2>2, CalmStep DEF LoadInv, Registered
<1>3. CASE AlreadyActive(i) \/ ReactivateElement(i)
    <2>1. /\ pc' \in [Imports -> PC] /\ pc'[i] \notin Busy
          /\ position' \in [Imports -> Nat \ {0}]
          /\ \A j \in Imports \ {i} : pc'[j] = pc[j] /\ position'[j] = position[j]
        BY <1>1, <1>3 DEF AlreadyActive, ReactivateElement, Goto, PC, Micro, Busy, Loading
    <2>2. plugins' = plugins /\ installing' = installing
          /\ active \subseteq active' /\ active' \subseteq plugins
        BY <1>3 DEF AlreadyActive, ReactivateElement, registry, LoadInv, Registered
    <2>3. QED
        BY <1>1, <2>1, <2>2, CalmStep
<1>4. CASE /\ plugins \cap (SameId(Current(i)) \ {Current(i)}) = {}
           /\ Current(i) \notin active /\ StartLoad(i)
    <2>1. pc[i] = "next"
        <3>1. pc[i] = "resumed" => active \cap SameId(Current(i)) # {}
            BY DEF LoadInv, Found
        <3>2. QED
            BY <1>4, <3>1 DEF LoadInv, Registered
    <2>2. ~AtEnd(i)
        BY <1>1, PluginImportAssumption DEF AtEnd, Closure
    <2>3. QED
        BY <1>4, <2>1, <2>2, StartLoadStep
<1>5. QED
    BY <1>2, <1>3, <1>4 DEF InstallOnce

(* A load settles: whoever had joined it resumes or is rejected with it.   *)
LEMMA SettleStep ==
    ASSUME LoadInv, NEW i \in Imports, pc[i] \in Loading,
           \A j \in Imports : pc[j] # "resumed",
           NEW own \in {"next", "rollback"}, NEW others \in {"resumed", "rollback"},
           Settle(i, own, others), active \subseteq active',
           position' \in [Imports -> Nat \ {0}],
           \A j \in Imports \ {i} : position'[j] = position[j],
           \/ plugins' = plugins /\ active' = active /\ others = "rollback"
           \/ plugins' = plugins \cup {Current(i)} /\ active' = active \cup {Current(i)}
    PROVE  LoadInv'
<1> DEFINE p == Current(i)
<1>0. None \notin Imports
    BY PluginImportAssumption
<1>1. p \in Plugins /\ PackageId[p] \in Ids /\ p \in SameId(p)
    BY CurrentIsPlugin DEF LoadInv, Walking, Busy
<1>2. /\ installing' = [installing EXCEPT ![PackageId[p]] = None]
      /\ pc' = [j \in Imports |-> IF j = i THEN own ELSE IF j \in Joined(i) THEN others ELSE pc[j]]
    BY DEF Settle
<1>3. pc' \in [Imports -> PC] /\ pc'[i] \notin Busy
    BY <1>2 DEF PC, Micro, Busy, Loading, LoadInv, Walking
<1>4. \A j \in Imports \ {i} : Current(j)' = Current(j)
    BY DEF Current, Closure
<1>5. \A j \in Imports : pc[j] \in Busy => PackageId[Current(j)] \in Ids
    BY CurrentIsPlugin DEF LoadInv, Walking
<1>6. Registered'
    <2>1. plugins \cap (SameId(p) \ {p}) = {}
        BY DEF LoadInv, Unrivalled
    <2>2. \A q \in plugins : PackageId[q] = PackageId[p] => q = p
        BY <2>1 DEF LoadInv, Registered, SameId
    <2>3. QED
        BY <1>1, <2>2 DEF LoadInv, Registered
<1>7. ASSUME NEW j \in Imports, pc'[j] \in Loading \cup {"waiting"}
      PROVE  j # i /\ pc[j] = pc'[j] /\ j \notin Joined(i)
    BY <1>2, <1>7 DEF Loading
<1>8. ASSUME NEW j \in Imports, pc'[j] = "resumed"
      PROVE  j # i /\ j \in Joined(i) /\ others = "resumed"
    BY <1>2, <1>8
<1> HIDE DEF p
<1>9. Walking'
    <2>1. installing' \in [Ids -> Imports \cup {None}]
        BY <1>1, <1>2 DEF LoadInv, Walking
    <2>2. ASSUME NEW j \in Imports, pc'[j] \in Busy
          PROVE  position'[j] <= Len(Closure(j))
        <3>1. j # i /\ pc[j] \in Busy
            BY <1>3, <1>7, <1>8, <2>2 DEF Busy, Joined
        <3>2. QED
            BY <3>1 DEF LoadInv, Walking
    <2>3. QED
        BY <1>3, <2>1, <2>2 DEF Walking, Closure
<1>10. \A j \in Imports \ {i} : pc[j] \in Loading => PackageId[Current(j)] # PackageId[p]
    BY <1>0 DEF LoadInv, Marked, p
<1>11. Marked'
    <2>1. ASSUME NEW j \in Imports, pc'[j] \in Loading
          PROVE  installing'[PackageId[Current(j)']] = j
        <3>1. j # i /\ pc[j] \in Loading /\ Current(j)' = Current(j)
            BY <1>4, <1>7, <2>1
        <3>2. installing[PackageId[Current(j)]] = j /\ PackageId[Current(j)] \in Ids
            BY <1>5, <3>1 DEF LoadInv, Marked, Busy
        <3>3. QED
            BY <1>2, <1>10, <3>1, <3>2 DEF LoadInv, Walking
    <2>2. ASSUME NEW id \in Ids, installing'[id] # None
          PROVE  pc'[installing'[id]] \in Loading /\ PackageId[Current(installing[id])'] = id
        <3>1. id # PackageId[p] /\ installing'[id] = installing[id] /\ installing[id] \in Imports
            BY <1>1, <1>2, <2>2 DEF LoadInv, Walking
        <3>2. pc[installing[id]] \in Loading /\ PackageId[Current(installing[id])] = id
            BY <2>2, <3>1 DEF LoadInv, Marked
        <3>3. installing[id] # i /\ installing[id] \notin Joined(i)
            BY <3>1, <3>2 DEF p, Joined, Loading
        <3>4. QED
            BY <1>2, <3>1, <3>2, <3>3 DEF Current, Closure
    <2>3. ASSUME NEW j \in Imports, pc'[j] = "waiting"
          PROVE  installing'[PackageId[Current(j)']] # None
        <3>1. j # i /\ pc[j] = "waiting" /\ PackageId[Current(j)] # PackageId[p]
            BY <1>7, <2>3 DEF Joined, p
        <3>2. installing[PackageId[Current(j)]] # None /\ PackageId[Current(j)] \in Ids
            BY <1>5, <3>1 DEF LoadInv, Marked, Busy
        <3>3. QED
            BY <1>2, <1>4, <3>1, <3>2 DEF LoadInv, Walking
    <2>4. QED
        BY <2>1, <2>2, <2>3 DEF Marked
<1>12. Unrivalled'
    <2>1. ASSUME NEW j \in Imports, pc'[j] \in Loading
          PROVE  plugins' \cap (SameId(Current(j)') \ {Current(j)'}) = {}
        <3>1. j # i /\ pc[j] \in Loading /\ Current(j)' = Current(j)
            BY <1>4, <1>7, <2>1
        <3>2. p \notin SameId(Current(j))
            BY <1>10, <3>1 DEF SameId
        <3>3. QED
            BY <3>1, <3>2 DEF LoadInv, Unrivalled, p
    <2>2. QED
        BY <2>1 DEF Unrivalled, SameId
<1>13. Found'
    <2>1. ASSUME NEW j \in Imports, pc'[j] = "resumed"
          PROVE  active' \cap SameId(Current(j)') # {}
        <3>1. j # i /\ j \in Joined(i) /\ others = "resumed"
            BY <1>8, <2>1
        <3>2. active' = active \cup {p} /\ p \in SameId(Current(j))
            BY <1>1, <3>1 DEF Joined, SameId, p
        <3>3. QED
            BY <1>4, <3>1, <3>2
    <2>2. QED
        BY <2>1 DEF Found, SameId
<1>14. QED
    BY <1>6, <1>9, <1>11, <1>12, <1>13 DEF LoadInv

(* A second install of an id waits for the import that loads it.           *)
LEMMA InstallStep ==
    ASSUME LoadInv, NEW i \in Imports, Install(i), Continues(i, "next"), ~AtEnd(i)
    PROVE  LoadInv'
<1>1. pc[i] = "next" /\ \A j \in Imports : pc[j] # "resumed"
    BY DEF Continues
<1>2. position[i] <= Len(Closure(i))
    <2>1. position[i] \in Nat /\ Len(Closure(i)) \in Nat
        BY PluginImportAssumption DEF LoadInv, Walking, Closure
    <2>2. QED
        BY <2>1 DEF AtEnd
<1>3. CASE installing[PackageId[Current(i)]] = None
    BY <1>1, <1>2, <1>3, InstallOnceStep DEF Install
<1>4. CASE installing[PackageId[Current(i)]] # None
    <2>1. pc' = [pc EXCEPT ![i] = "waiting"]
          /\ UNCHANGED <<plugins, active, installing, position>>
        BY <1>4 DEF Install, Join, Goto, registry
    <2>2. pc' \in [Imports -> PC] /\ pc'[i] = "waiting" /\ \A j \in Imports \ {i} : pc'[j] = pc[j]
        BY <2>1 DEF LoadInv, Walking, PC
    <2>3. \A j \in Imports : Current(j)' = Current(j)
        BY <2>1 DEF Current, Closure
    <2>4. \A j \in Imports : pc'[j] \in Loading \cup {"resumed"} <=> j # i /\ pc[j] \in Loading
        BY <1>1, <2>2 DEF Loading
    <2>5. Walking'
        BY <1>2, <2>1, <2>2 DEF LoadInv, Walking, Closure, Busy
    <2>6. Marked'
        <3>1. \A j \in Imports : pc[j] \in Loading => pc'[j] \in Loading
            BY <1>1, <2>2 DEF Loading
        <3>2. ASSUME NEW id \in Ids, installing[id] # None
              PROVE  pc'[installing[id]] \in Loading /\ PackageId[Current(installing[id])] = id
                     /\ installing[id] \in Imports
            BY <3>1, <3>2 DEF LoadInv, Marked, Walking
        <3>3. \A j \in Imports : pc'[j] = "waiting" => installing[PackageId[Current(j)]] # None
            BY <1>4, <2>2 DEF LoadInv, Marked
        <3>4. \A j \in Imports : pc'[j] \in Loading => installing[PackageId[Current(j)]] = j
            BY <2>4 DEF LoadInv, Marked
        <3>5. QED
            BY <2>1, <2>3, <3>2, <3>3, <3>4 DEF Marked
    <2>7. Unrivalled' /\ Found'
        <3>1. \A j \in Imports : pc'[j] # "resumed"
            BY <1>1, <2>2
        <3>2. QED
            BY <2>1, <2>3, <2>4, <3>1 DEF LoadInv, Unrivalled, Found, SameId
    <2>8. QED
        BY <2>1, <2>5, <2>6, <2>7 DEF LoadInv, Registered
<1>5. QED
    BY <1>3, <1>4

(* A load succeeds or fails. *)
LEMMA LoadEnds ==
    ASSUME LoadInv, NEW i \in Imports, Quiet, pc[i] \in Loading,
           LoadSucceeds(i) \/ LoadFails(i)
    PROVE  LoadInv'
<1>1. \A j \in Imports : pc[j] # "resumed"
    BY DEF Quiet, Micro
<1>2. position \in [Imports -> Nat \ {0}]
    BY DEF LoadInv, Walking
<1>3. CASE LoadSucceeds(i)
    <2>1. position' \in [Imports -> Nat \ {0}] /\ \A j \in Imports \ {i} : position'[j] = position[j]
        BY <1>2, <1>3 DEF LoadSucceeds, Advance
    <2>2. Settle(i, "next", "resumed") /\ plugins' = plugins \cup {Current(i)}
          /\ active' = active \cup {Current(i)}
        BY <1>3 DEF LoadSucceeds
    <2>3. QED
        BY <1>1, <2>1, <2>2, SettleStep
<1>4. CASE LoadFails(i)
    <2>1. Settle(i, "rollback", "rollback") /\ UNCHANGED <<plugins, active, position>>
        BY <1>4 DEF LoadFails
    <2>2. QED
        BY <1>1, <1>2, <2>1, SettleStep
<1>5. QED
    BY <1>3, <1>4

(* An import that is not loading and has no one resuming behind a load     *)
(* moves on by itself: it throws, begins, opens its map or answers.        *)
LEMMA MoveStep ==
    ASSUME LoadInv, NEW i \in Imports, pc[i] \notin Loading, NEW where \in PC \ Busy,
           Goto(i, where), UNCHANGED <<registry, position>>
    PROVE  LoadInv'
<1>1. pc' \in [Imports -> PC] /\ pc'[i] \notin Busy /\ \A j \in Imports \ {i} : pc'[j] = pc[j]
    BY DEF Goto, LoadInv, Walking
<1>2. position' \in [Imports -> Nat \ {0}] /\ UNCHANGED <<plugins, active, installing>>
    BY DEF registry, LoadInv, Walking
<1>3. QED
    BY <1>1, <1>2, CalmStep DEF LoadInv, Registered

LEMMA StepKeepsLoads ==
    ASSUME LoadInv, [Next]_vars
    PROVE  LoadInv'
<1>0. /\ {"next", "rollback", "trusting", "done", "failed"} \subseteq PC \ Busy
      /\ \A i \in Imports : pc[i] \in {"idle", "next", "rollback", "trusting"} => pc[i] \notin Loading
    BY DEF PC, Busy, Micro, Settled, Loading
<1>1. ASSUME NEW i \in Imports, Begin(i)
      PROVE  LoadInv'
    BY <1>0, <1>1, MoveStep DEF Begin
<1>2. ASSUME NEW i \in Imports, InstallElement(i)
      PROVE  LoadInv'
    BY <1>2, InstallStep DEF InstallElement
<1>3. ASSUME NEW i \in Imports, InstallNodeType(i)
      PROVE  LoadInv'
    <2>1. CASE Install(i)
        BY <1>3, <2>1, InstallStep DEF InstallNodeType
    <2>2. CASE Throw(i)
        BY <1>0, <1>3, <2>2, MoveStep DEF Throw, InstallNodeType, Continues
    <2>3. QED
        BY <1>3, <2>1, <2>2 DEF InstallNodeType
<1>4. ASSUME NEW i \in Imports, Resume(i)
      PROVE  LoadInv'
    <2>1. InstallOnce(i) /\ pc[i] = "resumed" /\ position[i] <= Len(Closure(i))
        BY <1>4 DEF Resume, LoadInv, Walking, Busy
    <2>2. QED
        BY <2>1, InstallOnceStep
<1>5. ASSUME NEW i \in Imports, ElementLoaded(i) \/ NodeTypeLoaded(i)
      PROVE  LoadInv'
    BY <1>5, LoadEnds DEF ElementLoaded, NodeTypeLoaded
<1>6. ASSUME NEW i \in Imports, OpenNodeMap(i)
      PROVE  LoadInv'
    BY <1>0, <1>6, MoveStep DEF OpenNodeMap, Throw, Continues
<1>7. ASSUME NEW i \in Imports, TrustHashes(i)
      PROVE  LoadInv'
    BY <1>0, <1>7, MoveStep DEF TrustHashes
<1>8. ASSUME NEW i \in Imports, Rollback(i)
      PROVE  LoadInv'
    <2>1. PICK gone : plugins' = plugins \ gone /\ active' = active \ gone
        BY <1>8 DEF Rollback
    <2>2. /\ pc[i] = "rollback" /\ pc' = [pc EXCEPT ![i] = "failed"]
          /\ \A j \in Imports : pc[j] # "resumed"
          /\ installing' = installing /\ position' = position
        BY <1>8 DEF Rollback, Continues, Goto
    <2>3. pc' \in [Imports -> PC] /\ pc'[i] \notin Busy /\ \A j \in Imports \ {i} : pc'[j] = pc[j]
        BY <1>0, <2>2 DEF LoadInv, Walking
    <2>4. plugins' \subseteq plugins /\ active' \subseteq plugins'
        BY <2>1 DEF LoadInv, Registered
    <2>5. QED
        BY <1>0, <2>2, <2>3, <2>4, CalmStep DEF LoadInv, Walking
<1>9. ASSUME NEW p \in Plugins, Disable(p) \/ Uninstall(p)
      PROVE  LoadInv'
    <2>1. /\ plugins' \subseteq plugins /\ active' \subseteq plugins'
          /\ UNCHANGED <<installing, pc, position>>
        BY <1>9 DEF Disable, Uninstall, Click, progress, LoadInv, Registered
    <2>2. \A j \in Imports : pc[j] # "resumed"
        BY <1>9 DEF Disable, Uninstall, Click, Quiet, Micro
    <2>3. QED
        BY <2>1, <2>2, CalmStep DEF LoadInv, Walking
<1>10. ASSUME NEW i \in Imports, Catalogue(i)
       PROVE  LoadInv'
    <2>1. /\ pc[i] = "answered" /\ pc' = [pc EXCEPT ![i] = "next"]
          /\ position' = [position EXCEPT ![i] = @ + 1]
          /\ UNCHANGED <<plugins, active, installing>>
        BY <1>10 DEF Catalogue, Continues, Advance, Goto, registry
    <2>2. pc' \in [Imports -> PC] /\ position' \in [Imports -> Nat \ {0}]
          /\ pc'[i] \notin Busy /\ pc[i] \notin Loading
          /\ \A j \in Imports \ {i} : pc'[j] = pc[j] /\ position'[j] = position[j]
        BY <1>0, <2>1 DEF LoadInv, Walking, Loading
    <2>3. QED
        BY <2>1, <2>2, CalmStep DEF LoadInv, Registered
<1>11. CASE UNCHANGED vars
    <2>1. UNCHANGED <<plugins, active, installing, pc, position>>
        BY <1>11 DEF vars, registry, progress
    <2>2. QED
        BY <2>1, CalmStep DEF LoadInv, Walking, Registered
<1>12. QED
    BY <1>1, <1>2, <1>3, <1>4, <1>5, <1>6, <1>7, <1>8, <1>9, <1>10, <1>11 DEF Next, Step

LEMMA LoadsAtInit == Init => LoadInv
<1>1. PC # {} /\ "idle" \in PC /\ "idle" \notin Busy /\ "idle" \notin Loading
    BY DEF PC, Busy, Loading
<1>2. QED
    BY <1>1 DEF Init, LoadInv, Registered, Walking, Marked, Unrivalled, Found, Ids, Busy, Loading

LEMMA LoadsHold == Spec => []LoadInv
BY LoadsAtInit, StepKeepsLoads, PTL DEF Spec

(* Two imports never execute the module of one package id at once, and     *)
(* whoever waits for a load waits for one that runs, for any closures.     *)
THEOREM ModulesRunOnce == Spec => []OneExecution
<1>1. LoadInv => OneExecution
    <2>1. ASSUME LoadInv, NEW i \in Imports, pc[i] = "waiting"
          PROVE  \E k \in Imports : pc[k] \in Loading /\ i \in Joined(k)
        <3>1. PackageId[Current(i)] \in Ids /\ installing[PackageId[Current(i)]] # None
            BY <2>1, CurrentIsPlugin DEF LoadInv, Walking, Marked, Busy
        <3>2. QED
            BY <2>1, <3>1 DEF LoadInv, Walking, Marked, Joined
    <2>2. QED
        BY <2>1 DEF OneExecution, LoadInv, Marked
<1>2. QED
    BY <1>1, LoadsHold, PTL

-----------------------------------------------------------------------------
(* The list of the manager.  Between an answer of the registry and its     *)
(* continuation in the catalog (Answering) nothing that is installed under *)
(* the id of the package is disabled: no click runs there, and a rollback  *)
(* only uninstalls.  So the continuation that takes the mark off is right, *)
(* and what it lists is installed or recorded as overtaken.                *)
Answering ==
    \A i \in Imports : pc[i] = "answered" =>
        position[i] <= Len(Closure(i)) /\ SameId(Current(i)) \cap plugins \subseteq active

ListInv ==
    /\ listed \subseteq Plugins /\ threw \cup overtaken \subseteq listed
    /\ Answering
    /\ ManagerShowsRegistry

(* The first three parts of ManagerShowsRegistry, for its next state.      *)
ShowsNext ==
    /\ \A q, r \in listed' : PackageId[q] = PackageId[r] => q = r
    /\ \A r \in plugins' : \E q \in listed' : q = r \/ q \in SameId(r) \cap (threw' \cup overtaken')
    /\ listed' \subseteq plugins' \cup threw' \cup overtaken'

(* A package is listed, beside or after its installation. *)
LEMMA ListingShows ==
    ASSUME ListInv, NEW p \in Plugins,
           plugins \subseteq plugins', plugins' \subseteq plugins \cup {p},
           p \in plugins' \ plugins => plugins \cap (SameId(p) \ {p}) = {},
           listed' = IF listed \cap SameId(p) # {} THEN listed ELSE listed \cup {p},
           threw' = threw,
           overtaken' = (overtaken \cup ({p} \ plugins')) \cap listed'
    PROVE  listed' \subseteq Plugins /\ threw' \cup overtaken' \subseteq listed' /\ ShowsNext
<1>1. p \in SameId(p) /\ \A q \in Plugins : q \in SameId(p) <=> PackageId[q] = PackageId[p]
    BY DEF SameId
<1>2. listed \subseteq listed' /\ listed' \subseteq Plugins
    BY DEF ListInv
<1>3. threw \subseteq threw' /\ overtaken \subseteq overtaken' /\ threw' \cup overtaken' \subseteq listed'
    BY <1>2 DEF ListInv
<1>4. \A q, r \in listed' : PackageId[q] = PackageId[r] => q = r
    BY <1>1 DEF ListInv, ManagerShowsRegistry
<1>5. ASSUME NEW q \in listed'
      PROVE  q \in plugins' \cup threw' \cup overtaken'
    <2>1. CASE q \in listed
        BY <1>3, <2>1 DEF ListInv, ManagerShowsRegistry
    <2>2. CASE q = p
        BY <1>5, <2>2
    <2>3. QED
        BY <1>5, <2>1, <2>2
<1>6. ASSUME NEW r \in plugins'
      PROVE  \E q \in listed' : q = r \/ q \in SameId(r) \cap (threw' \cup overtaken')
    <2>1. CASE r \in plugins
        <3>1. PICK q \in listed : q = r \/ q \in SameId(r) \cap (threw \cup overtaken)
            BY <2>1 DEF ListInv, ManagerShowsRegistry
        <3>2. QED
            BY <1>2, <1>3, <3>1
    <2>2. CASE r = p /\ r \notin plugins /\ listed \cap SameId(p) # {}
        <3>1. PICK q \in listed : q \in SameId(p)
            BY <2>2
        <3>2. q \notin plugins
            BY <1>6, <2>2, <3>1
        <3>3. q \in threw \cup overtaken
            BY <3>1, <3>2 DEF ListInv, ManagerShowsRegistry
        <3>4. QED
            BY <1>2, <1>3, <2>2, <3>1, <3>3
    <2>3. CASE r = p /\ listed \cap SameId(p) = {}
        BY <2>3
    <2>4. QED
        BY <1>6, <2>1, <2>2, <2>3
<1>7. QED
    BY <1>2, <1>3, <1>4, <1>5, <1>6 DEF ShowsNext

(* Steps that leave the list alone, and answer or activate no more than    *)
(* what they answer.                                                       *)
LEMMA AnswersKeepList ==
    ASSUME ListInv, UNCHANGED <<plugins, manager>>, active \subseteq active',
           \A j \in Imports : pc[j] = "answered" => pc'[j] = "answered" /\ position'[j] = position[j],
           \A j \in Imports : pc'[j] = "answered" /\ pc[j] # "answered" =>
               position'[j] <= Len(Closure(j)) /\ SameId(Current(j)') \cap plugins \subseteq active',
           \A r \in active' \ active : \E j \in Imports : pc'[j] = "answered" /\ Current(j)' = r
    PROVE  ListInv'
<1>1. UNCHANGED <<plugins, listed, disabled, threw, overtaken>>
    BY DEF manager
<1>2. \A j \in Imports : pc[j] = "answered" => pc'[j] = "answered" /\ Current(j)' = Current(j)
    BY DEF Current, Closure
<1>3. Answering'
    <2>1. ASSUME NEW j \in Imports, pc'[j] = "answered"
          PROVE  position'[j] <= Len(Closure(j)) /\ SameId(Current(j)') \cap plugins \subseteq active'
        <3>1. CASE pc[j] = "answered"
            <4>1. position'[j] = position[j] /\ Current(j)' = Current(j)
                BY <1>2, <3>1
            <4>2. position[j] <= Len(Closure(j)) /\ SameId(Current(j)) \cap plugins \subseteq active
                BY <3>1 DEF ListInv, Answering
            <4>3. QED
                BY <4>1, <4>2
        <3>2. QED
            BY <2>1, <3>1
    <2>2. QED
        BY <1>1, <2>1 DEF Answering, SameId, Closure
<1>4. ManagerShowsRegistry'
    <2>1. \A r \in plugins \ active' : PackageId[r] \in disabled
        BY DEF ListInv, ManagerShowsRegistry
    <2>2. ASSUME NEW r \in active', PackageId[r] \in disabled
          PROVE  \E j \in Imports : pc'[j] = "answered" /\ Current(j)' = r
        BY <1>2, <2>2 DEF ListInv, ManagerShowsRegistry
    <2>3. QED
        BY <1>1, <2>1, <2>2 DEF ListInv, ManagerShowsRegistry, SameId
<1>5. QED
    BY <1>1, <1>3, <1>4 DEF ListInv

(* One import moves on, without an answer. *)
LEMMA ListStutters ==
    ASSUME ListInv, LoadInv, UNCHANGED <<plugins, active, manager, position>>,
           NEW i \in Imports, pc[i] # "answered", NEW where, where # "answered", Goto(i, where)
    PROVE  ListInv'
<1>1. pc' = [pc EXCEPT ![i] = where] /\ pc \in [Imports -> PC]
    BY DEF Goto, LoadInv, Walking
<1>2. \A j \in Imports : (pc[j] = "answered" <=> pc'[j] = "answered") /\ position'[j] = position[j]
    BY <1>1
<1>3. QED
    BY <1>2, AnswersKeepList

LEMMA InstallKeepsList ==
    ASSUME ListInv, LoadInv, NEW i \in Imports, Current(i) \in Plugins,
           position[i] <= Len(Closure(i)), pc[i] # "answered",
           Install(i) \/ InstallOnce(i) \/ Throw(i)
    PROVE  ListInv'
<1>1. CASE Throw(i)
    BY <1>1, ListStutters DEF Throw, registry
<1>2. CASE Join(i)
    BY <1>2, ListStutters DEF Join, registry
<1>3. CASE StartLoad(i)
    <2>1. \E where : where # "answered" /\ Goto(i, where)
        BY <1>3 DEF StartLoad
    <2>2. UNCHANGED <<plugins, active, manager, position>>
        BY <1>3 DEF StartLoad
    <2>3. QED
        BY <2>1, <2>2, ListStutters
<1>4. CASE AlreadyActive(i) \/ ReactivateElement(i)
    <2>1. /\ plugins' = plugins /\ active' = active \cup {Current(i)} /\ Current(i) \in plugins
          /\ UNCHANGED <<manager, position>> /\ Goto(i, "answered")
        BY <1>4 DEF AlreadyActive, ReactivateElement, registry, LoadInv, Registered
    <2>2. pc' = [pc EXCEPT ![i] = "answered"] /\ pc \in [Imports -> PC]
        BY <2>1 DEF Goto, LoadInv, Walking
    <2>3. Current(i)' = Current(i)
        BY <2>1 DEF Current, Closure
    <2>4. SameId(Current(i)) \cap plugins \subseteq active'
        BY <2>1 DEF LoadInv, Registered, SameId
    <2>5. ASSUME NEW j \in Imports, pc'[j] = "answered", pc[j] # "answered"
          PROVE  position'[j] <= Len(Closure(j)) /\ SameId(Current(j)') \cap plugins \subseteq active'
        <3>1. j = i
            BY <2>2, <2>5
        <3>2. QED
            BY <2>1, <2>3, <2>4, <3>1
    <2>6. \A r \in active' \ active : \E j \in Imports : pc'[j] = "answered" /\ Current(j)' = r
        BY <2>1, <2>2, <2>3
    <2>7. \A j \in Imports : pc[j] = "answered" => pc'[j] = "answered" /\ position'[j] = position[j]
        BY <2>1, <2>2
    <2>8. QED
        BY <2>1, <2>5, <2>6, <2>7, AnswersKeepList
<1>5. QED
    BY <1>1, <1>2, <1>3, <1>4 DEF Install, InstallOnce

(* The continuation of an answer.  What is installed under the id by now   *)
(* is active, so that the mark may go.                                     *)
LEMMA CatalogueKeepsList ==
    ASSUME ListInv, LoadInv, NEW i \in Imports, Catalogue(i)
    PROVE  ListInv'
<1> DEFINE p == Current(i)
<1>1. /\ pc[i] = "answered" /\ pc' = [pc EXCEPT ![i] = "next"] /\ pc \in [Imports -> PC]
      /\ UNCHANGED <<plugins, active, threw>>
      /\ position' = [position EXCEPT ![i] = @ + 1] /\ disabled' = disabled \ {PackageId[p]}
      /\ listed' = IF listed \cap SameId(p) # {} THEN listed ELSE listed \cup {p}
      /\ overtaken' = (overtaken \cup ({p} \ plugins)) \cap listed'
    BY DEF Catalogue, Continues, Advance, Goto, registry, LoadInv, Walking
<1>2. p \in Plugins /\ SameId(p) \cap plugins \subseteq active
    BY <1>1, CurrentIsPlugin DEF LoadInv, ListInv, Answering
<1>3. \A j \in Imports \ {i} : /\ pc'[j] = pc[j] /\ position'[j] = position[j]
                               /\ Current(j)' = Current(j)
    BY <1>1 DEF LoadInv, Walking, Current, Closure
<1>4. pc'[i] # "answered"
    BY <1>1
<1> HIDE DEF p
<1>5. listed' \subseteq Plugins /\ threw' \cup overtaken' \subseteq listed' /\ ShowsNext
    <2>1. /\ plugins \subseteq plugins' /\ plugins' \subseteq plugins \cup {p}
          /\ p \notin plugins' \ plugins /\ threw' = threw
        BY <1>1
    <2>2. overtaken' = (overtaken \cup ({p} \ plugins')) \cap listed'
        BY <1>1
    <2>3. QED
        BY <1>1, <1>2, <2>1, <2>2, ListingShows
<1>6. Answering'
    <2>1. \A j \in Imports : pc'[j] = "answered" =>
             position'[j] <= Len(Closure(j)) /\ SameId(Current(j)') \cap plugins \subseteq active
        BY <1>3, <1>4 DEF ListInv, Answering
    <2>2. QED
        BY <1>1, <2>1 DEF Answering, SameId, Closure
<1>7. \A r \in plugins' \ active' : PackageId[r] \in disabled'
    <2>1. \A r \in plugins : PackageId[r] = PackageId[p] => r \in active
        BY <1>2 DEF SameId, LoadInv, Registered
    <2>2. QED
        BY <1>1, <2>1 DEF ListInv, ManagerShowsRegistry
<1>8. ASSUME NEW r \in active', PackageId[r] \in disabled'
      PROVE  \E j \in Imports : pc'[j] = "answered" /\ Current(j)' = r
    <2>1. PICK j \in Imports : pc[j] = "answered" /\ Current(j) = r
        BY <1>1, <1>8 DEF ListInv, ManagerShowsRegistry
    <2>2. j # i
        BY <1>1, <1>8, <2>1 DEF p
    <2>3. QED
        BY <1>3, <2>1, <2>2
<1>9. QED
    BY <1>5, <1>6, <1>7, <1>8 DEF ListInv, ManagerShowsRegistry, ShowsNext, SameId

(* A load ends while no answer is on its way. *)
LEMMA LoadKeepsList ==
    ASSUME ListInv, LoadInv, NEW i \in Imports, Quiet, pc[i] \in Loading,
           LoadSucceeds(i) \/ LoadFails(i)
    PROVE  ListInv'
<1> DEFINE p == Current(i)
<1>1. p \in Plugins /\ p \in SameId(p)
    BY CurrentIsPlugin DEF LoadInv, Walking, Busy
<1>2. \A j \in Imports : pc[j] # "answered"
    BY DEF Quiet, Micro
<1>3. \A j \in Imports : pc'[j] # "answered"
    BY <1>2 DEF LoadSucceeds, LoadFails, Settle
<1>4. Answering'
    BY <1>3 DEF Answering
<1>5. \A r \in active : PackageId[r] \notin disabled
    BY <1>2 DEF ListInv, ManagerShowsRegistry
<1>6. CASE LoadSucceeds(i)
    <2>1. /\ plugins' = plugins \cup {p} /\ active' = active \cup {p}
          /\ threw' = threw /\ overtaken' = overtaken /\ disabled' = disabled \ {PackageId[p]}
          /\ listed' = IF listed \cap SameId(p) # {} THEN listed ELSE listed \cup {p}
        BY <1>6 DEF LoadSucceeds, Advance
    <2>2. plugins \cap (SameId(p) \ {p}) = {}
        BY DEF LoadInv, Unrivalled
    <2> HIDE DEF p
    <2>3. overtaken' = (overtaken \cup ({p} \ plugins')) \cap listed'
        BY <2>1 DEF ListInv
    <2>4. listed' \subseteq Plugins /\ threw' \cup overtaken' \subseteq listed' /\ ShowsNext
        BY <1>1, <2>1, <2>2, <2>3, ListingShows
    <2>5. ASSUME NEW r \in plugins' \ active'
          PROVE  PackageId[r] \in disabled'
        <3>1. r \in plugins \ active /\ PackageId[r] # PackageId[p]
            BY <1>1, <2>1, <2>2 DEF SameId, LoadInv, Registered
        <3>2. QED
            BY <2>1, <3>1 DEF ListInv, ManagerShowsRegistry
    <2>6. \A r \in active' : PackageId[r] \notin disabled'
        BY <1>5, <2>1
    <2>7. QED
        BY <1>4, <2>4, <2>5, <2>6 DEF ListInv, ManagerShowsRegistry, ShowsNext, SameId
<1>7. CASE LoadFails(i)
    <2>1. UNCHANGED <<plugins, active, manager, position>>
        BY <1>7 DEF LoadFails
    <2>2. QED
        BY <1>2, <1>3, <2>1, AnswersKeepList
<1>8. QED
    BY <1>6, <1>7

(* Uninstalling whole ids takes them off the list, but for what threw.     *)
LEMMA UninstallKeepsList ==
    ASSUME ListInv, LoadInv, NEW gone, NEW unlisted,
           plugins' = plugins \ gone, active' = active \ gone,
           listed' = listed \ unlisted, disabled' = disabled, Leaves(gone),
           position' = position,
           \A j \in Imports : pc'[j] = "answered" <=> pc[j] = "answered",
           \A q \in unlisted : SameId(q) \subseteq gone,
           \A q \in (plugins \cap gone) \ unlisted : q \in ThrowingCleanup \cap active
    PROVE  ListInv'
<1>1. /\ threw' = (threw \cup (ThrowingCleanup \cap active \cap gone)) \cap listed'
      /\ overtaken' = overtaken \cap listed'
    BY DEF Leaves
<1>2. listed' \subseteq Plugins /\ threw' \cup overtaken' \subseteq listed'
    BY <1>1 DEF ListInv
<1>3. ASSUME NEW r \in plugins'
      PROVE  \E q \in listed' : q = r \/ q \in SameId(r) \cap (threw' \cup overtaken')
    <2>1. PICK q \in listed : q = r \/ q \in SameId(r) \cap (threw \cup overtaken)
        BY DEF ListInv, ManagerShowsRegistry
    <2>2. r \in SameId(q)
        BY <2>1 DEF SameId, LoadInv, Registered
    <2>3. q \in listed'
        BY <2>1, <2>2
    <2>4. QED
        BY <1>1, <2>1, <2>3
<1>4. listed' \subseteq plugins' \cup threw' \cup overtaken'
    BY <1>1 DEF ListInv, ManagerShowsRegistry
<1>5. \A j \in Imports : Current(j)' = Current(j)
    BY DEF Current, Closure
<1>6. Answering'
    <2>1. \A j \in Imports : pc'[j] = "answered" =>
             position'[j] <= Len(Closure(j)) /\ SameId(Current(j)') \cap plugins' \subseteq active'
        BY <1>5 DEF ListInv, Answering
    <2>2. QED
        BY <2>1 DEF Answering, SameId, Closure
<1>7. \A r \in plugins' \ active' : PackageId[r] \in disabled'
    BY DEF ListInv, ManagerShowsRegistry
<1>8. \A r \in active' : PackageId[r] \in disabled' =>
          \E j \in Imports : pc'[j] = "answered" /\ Current(j)' = r
    BY <1>5 DEF ListInv, ManagerShowsRegistry
<1>9. \A q, r \in listed' : PackageId[q] = PackageId[r] => q = r
    BY DEF ListInv, ManagerShowsRegistry
<1>10. QED
    BY <1>2, <1>3, <1>4, <1>6, <1>7, <1>8, <1>9 DEF ListInv, ManagerShowsRegistry, SameId

LEMMA RollbackKeepsList ==
    ASSUME ListInv, LoadInv, NEW i \in Imports, Rollback(i)
    PROVE  ListInv'
<1> DEFINE throwing == {n \in installed[i] : Throws(Closure(i)[n])}
           undone == {n \in installed[i] : \A m \in throwing : n >= m}
           gone == UNION {SameId(Closure(i)[n]) : n \in undone}
           unlisted == UNION {SameId(Closure(i)[n]) : n \in undone \ throwing}
<1>1. plugins' = plugins \ gone /\ active' = active \ gone
      /\ listed' = listed \ unlisted /\ disabled' = disabled /\ Leaves(gone)
      /\ position' = position
    BY DEF Rollback
<1>2. \A q \in unlisted : SameId(q) \subseteq gone
    BY DEF SameId
<1>3. ASSUME NEW q \in (plugins \cap gone) \ unlisted
      PROVE  q \in ThrowingCleanup \cap active
    <2>1. PICK n \in undone : q \in SameId(Closure(i)[n])
        OBVIOUS
    <2>2. n \in throwing
        BY <1>3, <2>1
    <2>3. PICK t \in ThrowingCleanup : t \in active /\ t \in SameId(Closure(i)[n])
        BY <2>2 DEF Throws
    <2>4. q = t
        BY <2>1, <2>3 DEF LoadInv, Registered, SameId
    <2>5. QED
        BY <2>3, <2>4
<1>4. \A j \in Imports : pc'[j] = "answered" <=> pc[j] = "answered"
    BY DEF Rollback, Continues, Goto, LoadInv, Walking
<1> HIDE DEF gone, unlisted
<1>5. QED
    BY <1>1, <1>2, <1>3, <1>4, UninstallKeepsList

LEMMA ClickKeepsList ==
    ASSUME ListInv, LoadInv, NEW p \in Plugins, Disable(p) \/ Uninstall(p)
    PROVE  ListInv'
<1>1. \A q \in SameId(p) : SameId(q) = SameId(p)
    BY DEF SameId
<1>2. UNCHANGED <<pc, position>> /\ \A j \in Imports : pc[j] # "answered"
    BY DEF Disable, Uninstall, Click, progress, Quiet, Micro
<1>3. CASE Disable(p)
    <2>1. UNCHANGED <<plugins, listed, threw, overtaken>> /\ active' = active \ SameId(p)
          /\ disabled' = disabled \cup {PackageId[p]}
        BY <1>3 DEF Disable
    <2>2. \A r \in plugins : r \in SameId(p) <=> PackageId[r] = PackageId[p]
        BY DEF SameId, LoadInv, Registered
    <2>3. \A r \in plugins' \ active' : PackageId[r] \in disabled'
        BY <2>1, <2>2 DEF ListInv, ManagerShowsRegistry
    <2>4. \A r \in active' : PackageId[r] \notin disabled'
        BY <1>2, <2>1, <2>2 DEF ListInv, ManagerShowsRegistry, LoadInv, Registered
    <2>5. Answering'
        BY <1>2 DEF Answering
    <2>6. QED
        BY <2>1, <2>3, <2>4, <2>5 DEF ListInv, ManagerShowsRegistry, SameId
<1>4. CASE Uninstall(p)
    <2> DEFINE unlisted == IF Throws(p) THEN {} ELSE SameId(p)
    <2>1. plugins' = plugins \ SameId(p) /\ active' = active \ SameId(p)
          /\ listed' = listed \ unlisted /\ disabled' = disabled /\ Leaves(SameId(p))
        BY <1>4 DEF Uninstall
    <2>2. ASSUME NEW q \in (plugins \cap SameId(p)) \ unlisted
          PROVE  q \in ThrowingCleanup \cap active
        <3>1. PICK t \in ThrowingCleanup : t \in active /\ t \in SameId(p)
            BY <2>2 DEF Throws
        <3>2. q = t
            BY <3>1 DEF LoadInv, Registered, SameId
        <3>3. QED
            BY <3>1, <3>2
    <2>3. \A q \in unlisted : SameId(q) \subseteq SameId(p)
        BY <1>1
    <2> HIDE DEF unlisted
    <2>4. QED
        BY <1>2, <2>1, <2>2, <2>3, UninstallKeepsList
<1>5. QED
    BY <1>3, <1>4

LEMMA StepKeepsList ==
    ASSUME ListInv, LoadInv, [Next]_vars
    PROVE  ListInv'
<1>1. ASSUME NEW i \in Imports, pc[i] \in Busy \/ ~AtEnd(i)
      PROVE  Current(i) \in Plugins /\ position[i] <= Len(Closure(i))
    <2>1. position[i] \in Nat /\ Len(Closure(i)) \in Nat
        BY PluginImportAssumption DEF LoadInv, Walking, Closure
    <2>2. position[i] <= Len(Closure(i))
        BY <1>1, <2>1 DEF AtEnd, LoadInv, Walking
    <2>3. QED
        BY <2>2, CurrentIsPlugin DEF LoadInv
<1>2. ASSUME NEW i \in Imports, Begin(i) \/ OpenNodeMap(i) \/ TrustHashes(i)
      PROVE  ListInv'
    <2>1. /\ \E where : where # "answered" /\ Goto(i, where)
          /\ pc[i] # "answered" /\ UNCHANGED <<plugins, active, manager, position>>
        BY <1>2 DEF Begin, OpenNodeMap, TrustHashes, Throw, Continues, registry
    <2>2. QED
        BY <2>1, ListStutters
<1>3. ASSUME NEW i \in Imports, InstallElement(i) \/ InstallNodeType(i)
      PROVE  ListInv'
    <2>1. pc[i] # "answered" /\ ~AtEnd(i) /\ (Install(i) \/ Throw(i))
        BY <1>3 DEF InstallElement, InstallNodeType, Continues
    <2>2. QED
        BY <1>1, <2>1, InstallKeepsList
<1>4. ASSUME NEW i \in Imports, Resume(i)
      PROVE  ListInv'
    BY <1>1, <1>4, InstallKeepsList DEF Resume, Busy
<1>5. ASSUME NEW i \in Imports, ElementLoaded(i) \/ NodeTypeLoaded(i)
      PROVE  ListInv'
    <2>1. Quiet /\ pc[i] \in Loading /\ (LoadSucceeds(i) \/ LoadFails(i))
        BY <1>5 DEF ElementLoaded, NodeTypeLoaded
    <2>2. QED
        BY <2>1, LoadKeepsList
<1>6. ASSUME NEW i \in Imports, Rollback(i)
      PROVE  ListInv'
    BY <1>6, RollbackKeepsList
<1>7. ASSUME NEW p \in Plugins, Disable(p) \/ Uninstall(p)
      PROVE  ListInv'
    BY <1>7, ClickKeepsList
<1>8. ASSUME NEW i \in Imports, Catalogue(i)
      PROVE  ListInv'
    BY <1>8, CatalogueKeepsList
<1>9. CASE UNCHANGED vars
    <2>1. UNCHANGED <<plugins, active, manager, pc, position>>
        BY <1>9 DEF vars, registry, progress
    <2>2. QED
        BY <2>1, AnswersKeepList
<1>10. QED
    BY <1>2, <1>3, <1>4, <1>5, <1>6, <1>7, <1>8, <1>9 DEF Next, Step

LEMMA ListAtInit == Init => ListInv
BY DEF Init, ListInv, Answering, ManagerShowsRegistry

(* The manager and the registries agree in every run of imports and        *)
(* clicks, whatever throws while it is uninstalled, and whatever answers   *)
(* a rollback overtakes.                                                   *)
THEOREM ManagerAgrees == Spec => []ManagerShowsRegistry
<1>1. ListInv /\ LoadInv /\ [Next]_vars => ListInv'
    BY StepKeepsList
<1>2. ListInv => ManagerShowsRegistry
    BY DEF ListInv
<1>3. QED
    BY <1>1, <1>2, ListAtInit, LoadsHold, PTL DEF Spec

-----------------------------------------------------------------------------
(* A step of an import never leaves "done", and only its last adds hashes. *)
Moves(i) ==
    /\ pc[i] # "done"
    /\ \A j \in Imports : pc[j] = "done" => j = i \/ pc'[j] = "done"
    /\ \/ trusted' = trusted
       \/ trusted' = trusted \cup Hashes(i) /\ pc'[i] = "done"

LEMMA GotoMoves ==
    ASSUME LoadInv, NEW i \in Imports, pc[i] # "done", NEW where, Goto(i, where),
           trusted' = trusted
    PROVE  Moves(i)
BY DEF Moves, Goto, LoadInv, Walking

LEMMA InstallMoves ==
    ASSUME LoadInv, NEW i \in Imports, pc[i] # "done",
           Install(i) \/ InstallOnce(i) \/ Throw(i)
    PROVE  Moves(i)
<1>1. (\E where : Goto(i, where)) /\ trusted' = trusted
    BY DEF Install, InstallOnce, Throw, Join, AlreadyActive, ReactivateElement, StartLoad
<1>2. QED
    BY <1>1, GotoMoves

LEMMA StepMoves ==
    ASSUME LoadInv, NEW i \in Imports, Begin(i) \/ Step(i)
    PROVE  Moves(i)
<1>1. CASE Begin(i) \/ OpenNodeMap(i) \/ Rollback(i) \/ Catalogue(i)
    <2>1. pc[i] # "done" /\ (\E where : Goto(i, where)) /\ trusted' = trusted
        BY <1>1 DEF Begin, OpenNodeMap, Rollback, Catalogue, Continues, Throw
    <2>2. QED
        BY <2>1, GotoMoves
<1>2. CASE InstallElement(i) \/ InstallNodeType(i) \/ Resume(i)
    <2>1. pc[i] # "done" /\ (Install(i) \/ InstallOnce(i) \/ Throw(i))
        BY <1>2 DEF InstallElement, InstallNodeType, Resume, Continues
    <2>2. QED
        BY <2>1, InstallMoves
<1>3. CASE ElementLoaded(i) \/ NodeTypeLoaded(i)
    <2>1. pc[i] \in Loading /\ (LoadSucceeds(i) \/ LoadFails(i))
        BY <1>3 DEF ElementLoaded, NodeTypeLoaded
    <2>2. trusted' = trusted /\ \E own, others : Settle(i, own, others)
        BY <2>1 DEF LoadSucceeds, LoadFails
    <2>3. \A j \in Imports : pc[j] = "done" => j # i /\ j \notin Joined(i)
        BY <2>1 DEF Joined, Loading
    <2>4. \A j \in Imports : pc[j] = "done" => pc'[j] = "done"
        BY <2>2, <2>3 DEF Settle
    <2>5. QED
        BY <2>1, <2>2, <2>4 DEF Moves, Loading
<1>4. CASE TrustHashes(i)
    BY <1>4 DEF TrustHashes, Goto, Moves, LoadInv, Walking
<1>5. QED
    BY <1>1, <1>2, <1>3, <1>4 DEF Step

(* The persisted hashes belong to imports all of whose steps succeeded: an *)
(* import that finished stays finished, and only its last step trusts.     *)
THEOREM TrustIsEarned == Spec => []TrustFollowsActivation
<1>1. Init => TrustFollowsActivation
    BY DEF Init, TrustFollowsActivation
<1>2. TrustFollowsActivation /\ LoadInv /\ [Next]_vars => TrustFollowsActivation'
    <2>1. SUFFICES ASSUME TrustFollowsActivation, LoadInv, [Next]_vars
                   PROVE  \A h \in trusted' : \E j \in Imports : h \in Hashes(j) /\ pc'[j] = "done"
        BY DEF TrustFollowsActivation, Hashes, Closure
    <2>2. CASE \E i \in Imports : Begin(i) \/ Step(i)
        BY <2>1, <2>2, StepMoves DEF Moves, TrustFollowsActivation
    <2>3. CASE UNCHANGED <<trusted, pc>>
        BY <2>1, <2>3 DEF TrustFollowsActivation
    <2>4. (\E p \in Plugins : Disable(p) \/ Uninstall(p)) \/ UNCHANGED vars
             => UNCHANGED <<trusted, pc>>
        BY DEF Disable, Uninstall, Click, progress, vars
    <2>5. QED
        BY <2>1, <2>2, <2>3, <2>4 DEF Next
<1>3. QED
    BY <1>1, <1>2, LoadsHold, PTL DEF Spec

-----------------------------------------------------------------------------
(* Types.  What is left of TypeOK once loads, list and owners are known: an *)
(* import walks its closure to just behind its end, and installed behind   *)
(* itself.                                                                 *)
Bounded ==
    /\ installed = [i \in Imports |-> installed[i]]
    /\ \A i \in Imports : position[i] \in 1..(Len(Closure(i)) + 1)
    /\ \A i \in Imports : installed[i] \subseteq 1..(position[i] - 1)

Typed ==
    /\ defined \subseteq {Tag[e] : e \in Elements}
    /\ owner \in [Capabilities -> NodeTypes \cup {None}]
    /\ disabled \subseteq Ids
    /\ workspaces \subseteq NodeMaps
    /\ trusted \subseteq Plugins \cup Imports
    /\ clicks \in 0..MaxClicks

LEMMA ClosureIsSeq ==
    ASSUME NEW i \in Imports
    PROVE  /\ Len(Closure(i)) \in Nat
           /\ \A n \in 1..Len(Closure(i)) : Closure(i)[n] \in Plugins
           /\ Hashes(i) \subseteq Plugins \cup Imports
<1>1. ElementPlugins[i] \in Seq(Plugins) /\ NodeTypePlugins[i] \in Seq(Plugins)
    <2>1. ElementPlugins[i] \in Seq(Elements) /\ NodeTypePlugins[i] \in Seq(NodeTypes)
        BY PluginImportAssumption
    <2>2. QED
        BY <2>1 DEF Plugins
<1>2. Closure(i) \in Seq(Plugins)
    BY <1>1 DEF Closure
<1>3. QED
    BY <1>2 DEF Hashes

LEMMA AdvanceIsTyped ==
    ASSUME Bounded, LoadInv, NEW i \in Imports, position[i] <= Len(Closure(i)), NEW p, NEW status,
           Advance(i, p, status)
    PROVE  Bounded' /\ disabled' \subseteq disabled
<1>1. Len(Closure(i)) \in Nat
    BY ClosureIsSeq
<1>2. position' = [position EXCEPT ![i] = @ + 1] /\ disabled' \subseteq disabled
      /\ installed' = [installed EXCEPT ![i] =
             IF status = "installed" THEN @ \cup {position[i]} ELSE @]
    BY DEF Advance
<1>3. ASSUME NEW j \in Imports
      PROVE  position'[j] \in 1..(Len(Closure(j)) + 1) /\ installed'[j] \subseteq 1..(position'[j] - 1)
    <2>1. CASE j = i
        BY <1>1, <1>2, <2>1 DEF LoadInv, Walking, Bounded
    <2>2. CASE j # i
        BY <1>2, <2>2 DEF LoadInv, Walking, Bounded
    <2>3. QED
        BY <2>1, <2>2
<1>4. installed' = [j \in Imports |-> installed'[j]]
    BY <1>2 DEF Bounded
<1>5. QED
    BY <1>2, <1>3, <1>4 DEF Bounded, Closure

LEMMA TypesStutter ==
    ASSUME Typed, Bounded, UNCHANGED <<defined, owner, disabled, workspaces, trusted, clicks>>,
           UNCHANGED <<position, installed>>
    PROVE  Typed' /\ Bounded'
BY DEF Typed, Bounded, Closure

LEMMA InstallIsTyped ==
    ASSUME Typed, Bounded, NEW i \in Imports, Install(i) \/ InstallOnce(i) \/ Throw(i)
    PROVE  Typed' /\ Bounded'
BY TypesStutter DEF Install, InstallOnce, Join, Throw, StartLoad, AlreadyActive, ReactivateElement,
                    registry, manager

LEMMA CatalogueIsTyped ==
    ASSUME Typed, Bounded, LoadInv, ListInv, NEW i \in Imports, Catalogue(i)
    PROVE  Typed' /\ Bounded'
<1>1. position[i] <= Len(Closure(i)) /\ Advance(i, Current(i), "already-active")
    BY DEF Catalogue, Continues, ListInv, Answering
<1>2. Bounded' /\ disabled' \subseteq disabled
    BY <1>1, AdvanceIsTyped
<1>3. UNCHANGED <<defined, owner, workspaces, trusted, clicks>>
    BY DEF Catalogue, registry
<1>4. QED
    BY <1>2, <1>3 DEF Typed

LEMMA LoadIsTyped ==
    ASSUME Typed, Bounded, LoadInv, NEW i \in Imports, ElementLoaded(i) \/ NodeTypeLoaded(i)
    PROVE  Typed' /\ Bounded'
<1>1. pc[i] \in Loading /\ position[i] <= Len(Closure(i)) /\ (LoadSucceeds(i) \/ LoadFails(i))
    BY DEF ElementLoaded, NodeTypeLoaded, LoadInv, Walking, Busy
<1>2. defined' \subseteq {Tag[e] : e \in Elements}
    BY DEF ElementLoaded, NodeTypeLoaded, Typed
<1>3. owner' \in [Capabilities -> NodeTypes \cup {None}]
    BY DEF ElementLoaded, NodeTypeLoaded, Typed, LoadFails
<1>4. CASE LoadSucceeds(i)
    <2>1. \E status : Advance(i, Current(i), status)
        BY <1>4 DEF LoadSucceeds
    <2>2. Bounded' /\ disabled' \subseteq disabled
        BY <1>1, <2>1, AdvanceIsTyped
    <2>3. UNCHANGED <<workspaces, trusted, clicks>>
        BY <1>4 DEF LoadSucceeds
    <2>4. QED
        BY <1>2, <1>3, <2>2, <2>3 DEF Typed
<1>5. CASE LoadFails(i)
    <2>1. UNCHANGED <<disabled, workspaces, trusted, clicks, position, installed>>
        BY <1>5 DEF LoadFails, manager
    <2>2. QED
        BY <1>2, <1>3, <2>1 DEF Typed, Bounded, Closure
<1>6. QED
    BY <1>1, <1>4, <1>5

LEMMA StepIsTyped ==
    ASSUME Typed, Bounded, LoadInv, ListInv, [Next]_vars
    PROVE  Typed' /\ Bounded'
<1>1. ASSUME NEW i \in Imports, InstallElement(i) \/ InstallNodeType(i) \/ Resume(i)
      PROVE  Typed' /\ Bounded'
    BY <1>1, InstallIsTyped DEF InstallElement, InstallNodeType, Resume
<1>2. ASSUME NEW i \in Imports, Begin(i) \/ OpenNodeMap(i) \/ TrustHashes(i)
      PROVE  Typed' /\ Bounded'
    <2>1. UNCHANGED <<registry, manager, position, installed, clicks>>
        BY <1>2 DEF Begin, OpenNodeMap, TrustHashes, Throw
    <2>2. workspaces' \subseteq NodeMaps
        BY <1>2 DEF Begin, OpenNodeMap, TrustHashes, Throw, Typed
    <2>3. trusted' \subseteq Plugins \cup Imports
        BY <1>2, ClosureIsSeq DEF Begin, OpenNodeMap, TrustHashes, Throw, Typed
    <2>4. QED
        BY <2>1, <2>2, <2>3 DEF registry, manager, Typed, Bounded, Closure
<1>3. ASSUME NEW i \in Imports, Rollback(i)
      PROVE  Typed' /\ Bounded'
    <2>1. UNCHANGED <<defined, disabled, position, installed, workspaces, trusted, clicks>>
        BY <1>3 DEF Rollback
    <2>2. \E S : owner' = Released(S)
        BY <1>3 DEF Rollback
    <2>3. QED
        BY <2>1, <2>2 DEF Released, Typed, Bounded, Closure
<1>4. ASSUME NEW p \in Plugins, Disable(p) \/ Uninstall(p)
      PROVE  Typed' /\ Bounded'
    <2>1. UNCHANGED <<defined, position, installed, workspaces, trusted>>
        BY <1>4 DEF Disable, Uninstall, Click, progress
    <2>2. owner' = Released(SameId(p)) /\ disabled' \subseteq disabled \cup {PackageId[p]}
        BY <1>4 DEF Disable, Uninstall
    <2>3. clicks' \in 0..MaxClicks
        BY <1>4, PluginImportAssumption DEF Disable, Uninstall, Click, Typed
    <2>4. QED
        BY <2>1, <2>2, <2>3 DEF Released, Typed, Ids, Bounded, Closure
<1>5. ASSUME NEW i \in Imports, ElementLoaded(i) \/ NodeTypeLoaded(i)
      PROVE  Typed' /\ Bounded'
    BY <1>5, LoadIsTyped
<1>6. ASSUME NEW i \in Imports, Catalogue(i)
      PROVE  Typed' /\ Bounded'
    BY <1>6, CatalogueIsTyped
<1>7. CASE UNCHANGED vars
    BY <1>7, TypesStutter DEF vars, registry, manager, progress
<1>8. QED
    BY <1>1, <1>2, <1>3, <1>4, <1>5, <1>6, <1>7 DEF Next, Step

(* Every state of every run has the types of TypeOK. *)
THEOREM TypeCorrect == Spec => []TypeOK
<1>1. Init => Typed /\ Bounded
    BY ClosureIsSeq, PluginImportAssumption DEF Init, Typed, Bounded
<1>2. Typed /\ Bounded /\ LoadInv /\ ListInv /\ [Next]_vars => (Typed /\ Bounded)'
    BY StepIsTyped
<1>3. ListInv /\ LoadInv /\ [Next]_vars => ListInv'
    BY StepKeepsList
<1>4. Typed /\ Bounded /\ ListInv /\ LoadInv => TypeOK
    <2>1. SUFFICES ASSUME Typed, Bounded, ListInv, LoadInv
                   PROVE  TypeOK
        OBVIOUS
    <2>2. ASSUME NEW i \in Imports, pc[i] \in Loading \cup {"waiting", "resumed", "answered"}
          PROVE  ~AtEnd(i)
        BY <2>1, <2>2, ClosureIsSeq DEF AtEnd, LoadInv, Walking, Busy, ListInv, Answering
    <2>3. \A i \in Imports : /\ position[i] \in 1..(Len(Closure(i)) + 1)
                              /\ installed[i] \subseteq 1..(position[i] - 1)
        BY <2>1 DEF Bounded
    <2>4. /\ plugins \subseteq Plugins /\ active \subseteq plugins /\ listed \subseteq Plugins
          /\ \A p, q \in plugins : PackageId[p] = PackageId[q] => p = q
          /\ installing \in [{PackageId[p] : p \in Plugins} -> Imports \cup {None}]
          /\ pc \in [Imports -> PC] /\ threw \cup overtaken \subseteq listed
        BY <2>1 DEF ListInv, LoadInv, Registered, Walking, Ids
    <2>5. QED
        BY <2>1, <2>2, <2>3, <2>4 DEF TypeOK, Typed, Ids
<1>5. QED
    BY <1>1, <1>2, <1>3, <1>4, ListAtInit, LoadsHold, PTL DEF Spec
=============================================================================
