------------------------ MODULE TriggerRuntimeProofs ------------------------
(***************************************************************************)
(* Proofs about TriggerRuntime, for any triggers, sessions and firings and *)
(* any number of revisions.                                                *)
(*                                                                         *)
(* Both properties except the tangled triggers.  Of the others the         *)
(* invariant says that one firing at most is on its way (Alone), with the  *)
(* graph the trigger is activated with (Current), and that a firing only   *)
(* starts a session when the registered one takes no frames (Replaced);    *)
(* of all triggers, that no two share a session (Owned) and that they are  *)
(* activated with the revision the last effects saw (Synced).              *)
(***************************************************************************)
EXTENDS TriggerRuntime, TLAPS

OnItsWay(f) == firing[f].phase \in {"mapping", "starting"}

Owned ==
  /\ \A f \in Firings : firing[f].phase \in {"idle", "mapping"} => firing[f].session = None
  /\ \A f \in Firings : firing[f].phase = "starting" => firing[f].session # None
  /\ \A f \in Firings : firing[f].session # None => session[firing[f].session].status # "unused"
  /\ \A f, g \in Firings :
       firing[f].session = firing[g].session /\ firing[f].session # None =>
         firing[f].of = firing[g].of
  /\ \A t \in Triggers : registered[t] # None =>
       \E f \in Firings : firing[f].of = t /\ firing[f].session = registered[t]

Alone ==
  \A f, g \in Firings :
    OnItsWay(f) /\ OnItsWay(g) /\ firing[f].of = firing[g].of /\ firing[f].of \notin tangled => f = g

Current ==
  \A f \in Firings : OnItsWay(f) /\ firing[f].of \notin tangled =>
    active[firing[f].of] # None /\ firing[f].revision = active[firing[f].of]

Replaced ==
  \A f \in Firings : firing[f].phase = "starting" /\ firing[f].of \notin tangled =>
    ~Usable(registered[firing[f].of])

Synced == seen <= revision /\ \A t \in Triggers : active[t] \in {None, seen}

\* The properties, said of one firing: a session is started by a trigger when a
\* firing of the trigger has it.
Reachable(f) ==
  LET s == firing[f].session
  IN  s # None /\ firing[f].of \notin tangled /\ session[s].status = "running" /\ ~session[s].closed =>
        \/ registered[firing[f].of] = s
        \/ \E g \in Firings : firing[g].session = s /\ firing[g].phase = "starting"

UpToDate(f) ==
  LET s == firing[f].session
  IN  s # None /\ firing[f].of \notin tangled /\ open /\ seen = revision /\ session[s].status = "running" =>
        session[s].revision = revision

OneByOne == \A f \in Firings : Reachable(f) /\ UpToDate(f)

Inv == TypeOK /\ Owned /\ Alone /\ Current /\ Replaced /\ Synced /\ OneByOne
-----------------------------------------------------------------------------
\* The two ways to say the properties are the same.
LEMMA SaidOfFirings ==
  ASSUME TypeOK
  PROVE  SessionsAreReachable /\ RunningIsCurrent <=> OneByOne
<1>1. ASSUME SessionsAreReachable, RunningIsCurrent PROVE OneByOne
  BY <1>1 DEF TypeOK, SessionsAreReachable, RunningIsCurrent, OneByOne, Reachable, UpToDate, StartedBy
<1>2. ASSUME OneByOne PROVE SessionsAreReachable
  <2> SUFFICES ASSUME NEW t \in Triggers \ tangled, NEW s \in StartedBy(t),
                      session[s].status = "running", ~session[s].closed
               PROVE  \/ registered[t] = s
                      \/ \E f \in Firings : firing[f].session = s /\ firing[f].phase = "starting"
    BY DEF SessionsAreReachable
  <2>1. PICK f \in Firings : firing[f].of = t /\ firing[f].session = s /\ s # None
    BY DEF StartedBy
  <2> QED
    BY <1>2, <2>1 DEF OneByOne, Reachable
<1>3. ASSUME OneByOne PROVE RunningIsCurrent
  <2> SUFFICES ASSUME NEW t \in Triggers \ tangled, NEW s \in StartedBy(t),
                      open, seen = revision, session[s].status = "running"
               PROVE  session[s].revision = revision
    BY DEF RunningIsCurrent
  <2>1. PICK f \in Firings : firing[f].of = t /\ firing[f].session = s /\ s # None
    BY DEF StartedBy
  <2> QED
    BY <1>3, <2>1 DEF OneByOne, UpToDate
<1> QED
  BY <1>1, <1>2, <1>3
-----------------------------------------------------------------------------
\* The initial states satisfy the invariant.
LEMMA InitInv == Init => Inv
<1> SUFFICES ASSUME Init PROVE Inv
  OBVIOUS
<1> USE TriggerAssumption DEF Init
<1>1. PICK t \in Triggers :
        firing = [f \in Firings |-> [phase |-> "idle", of |-> t, revision |-> 0, session |-> None]]
  OBVIOUS
<1>2. TypeOK
  <2>1. 0 \in 0 .. MaxRevision /\ Unused \in [status : Statuses, closed : BOOLEAN, revision : 0 .. MaxRevision]
    BY DEF Unused, Statuses
  <2>2. firing \in [Firings -> [phase : Phases, of : Triggers, revision : 0 .. MaxRevision,
                               session : Sessions \cup {None}]]
    BY <1>1, <2>1 DEF Phases
  <2> QED
    BY <2>1, <2>2 DEF TypeOK
<1>3. Owned /\ Alone /\ Current /\ Replaced /\ Synced
  BY <1>1 DEF Owned, Alone, Current, Replaced, Synced, OnItsWay
<1>4. OneByOne
  BY <1>1 DEF OneByOne, Reachable, UpToDate
<1> QED
  BY <1>2, <1>3, <1>4 DEF Inv

\* The records of #sessions and of the firings, and the rest of TypeOK.
Item == [status : Statuses, closed : BOOLEAN, revision : 0 .. MaxRevision]

Call == [phase : Phases, of : Triggers, revision : 0 .. MaxRevision, session : Sessions \cup {None}]

OthersTyped ==
  /\ open \in BOOLEAN
  /\ revision \in 0 .. MaxRevision
  /\ declared \subseteq Triggers
  /\ active \in [Triggers -> (0 .. MaxRevision) \cup {None}]
  /\ registered \in [Triggers -> Sessions \cup {None}]
  /\ seen \in 0 .. MaxRevision
  /\ tangled \subseteq Triggers
  /\ \A t, u \in Triggers : registered[t] = registered[u] /\ registered[t] # None => t = u

LEMMA Typed ==
  TypeOK <=> session \in [Sessions -> Item] /\ firing \in [Firings -> Call] /\ OthersTyped
  BY DEF TypeOK, Item, Call, OthersTyped

\* Closing, cancelling, completing or marking a session leaves it one.
LEMMA ItemChanges ==
  ASSUME NEW x \in Item
  PROVE  /\ Marked(x) \in Item
         /\ Closed(x) \in Item
         /\ [x EXCEPT !.status = "cancelled", !.closed = TRUE] \in Item
         /\ [x EXCEPT !.status = "completed"] \in Item
  BY DEF Item, Marked, Closed, Statuses

\* A firing that goes on stays one.
LEMMA CallChanges ==
  ASSUME NEW x \in Call, NEW p \in Phases, NEW s \in Sessions \cup {None}
  PROVE  /\ [x EXCEPT !.phase = p] \in Call
         /\ [x EXCEPT !.phase = p, !.session = s] \in Call
  BY DEF Call

\* Every step keeps the types, and registers no session for two triggers.
LEMMA TypeStep == TypeOK /\ Owned /\ [Next]_vars => TypeOK'
<1> SUFFICES ASSUME TypeOK, Owned, [Next]_vars
             PROVE  session' \in [Sessions -> Item] /\ firing' \in [Firings -> Call] /\ OthersTyped'
  BY Typed DEF TypeOK, Item, Call, OthersTyped
<1>0. session \in [Sessions -> Item] /\ firing \in [Firings -> Call] /\ OthersTyped
  BY Typed
<1> USE <1>0, TriggerAssumption
<1>1. ASSUME NEW triggers \in SUBSET Triggers, Publish(triggers)
      PROVE  session' \in [Sessions -> Item] /\ firing' \in [Firings -> Call] /\ OthersTyped'
  BY <1>1 DEF Publish, OthersTyped
<1>2. ASSUME CloseWorkspace
      PROVE  session' \in [Sessions -> Item] /\ firing' \in [Firings -> Call] /\ OthersTyped'
  BY <1>2 DEF CloseWorkspace, OthersTyped
<1>3. ASSUME Sync
      PROVE  session' \in [Sessions -> Item] /\ firing' \in [Firings -> Call] /\ OthersTyped'
  <2>1. session' \in [Sessions -> Item]
    BY <1>3, ItemChanges DEF Sync
  <2>2. firing' = firing
    BY <1>3 DEF Sync
  <2>3. OthersTyped'
    BY <1>3 DEF Sync, OthersTyped
  <2> QED
    BY <2>1, <2>2, <2>3
<1>4. ASSUME NEW f \in Firings, NEW t \in Triggers, Fire(f, t)
      PROVE  session' \in [Sessions -> Item] /\ firing' \in [Firings -> Call] /\ OthersTyped'
  <2>1. [phase |-> "mapping", of |-> t, revision |-> active[t], session |-> None] \in Call
    BY <1>4 DEF Fire, OthersTyped, Call, Phases
  <2> QED
    BY <1>4, <2>1 DEF Fire, OthersTyped
<1>5. ASSUME NEW f \in Firings, Reject(f)
      PROVE  session' \in [Sessions -> Item] /\ firing' \in [Firings -> Call] /\ OthersTyped'
  <2>1. [firing[f] EXCEPT !.phase = "failed"] \in Call
    BY CallChanges DEF Phases
  <2> QED
    BY <1>5, <2>1 DEF Reject, OthersTyped
<1>6. ASSUME NEW f \in Firings, Continue(f)
      PROVE  session' \in [Sessions -> Item] /\ firing' \in [Firings -> Call] /\ OthersTyped'
  <2>1. registered[firing[f].of] \in Sessions \cup {None}
    BY DEF OthersTyped, Call
  <2>2. [firing[f] EXCEPT !.phase = "pushing", !.session = registered[firing[f].of]] \in Call
    BY <2>1, CallChanges DEF Phases
  <2> QED
    BY <1>6, <2>2 DEF Continue, OthersTyped
<1>7. ASSUME NEW f \in Firings, Start(f)
      PROVE  session' \in [Sessions -> Item] /\ firing' \in [Firings -> Call] /\ OthersTyped'
  <2>1. PICK s \in Sessions :
          /\ session' = [session EXCEPT ![s] = [status |-> "running", closed |-> FALSE,
                                                revision |-> firing[f].revision]]
          /\ firing' = [firing EXCEPT ![f].phase = "starting", ![f].session = s]
    BY <1>7 DEF Start
  <2>2. [status |-> "running", closed |-> FALSE, revision |-> firing[f].revision] \in Item
    BY DEF Item, Call, Statuses
  <2>3. [firing[f] EXCEPT !.phase = "starting", !.session = s] \in Call
    BY CallChanges DEF Phases
  <2> QED
    BY <1>7, <2>1, <2>2, <2>3 DEF Start, OthersTyped
<1>8. ASSUME NEW f \in Firings, Pushed(f)
      PROVE  session' \in [Sessions -> Item] /\ firing' \in [Firings -> Call] /\ OthersTyped'
  <2>1. \A p \in {"done", "failed"} : [firing[f] EXCEPT !.phase = p] \in Call
    BY CallChanges DEF Phases
  <2> QED
    BY <1>8, <2>1 DEF Pushed, OthersTyped
<1>9. ASSUME NEW f \in Firings, Register(f)
      PROVE  session' \in [Sessions -> Item] /\ firing' \in [Firings -> Call] /\ OthersTyped'
  <2> DEFINE s == firing[f].session
             t == firing[f].of
  <2>1. [firing[f] EXCEPT !.phase = "done"] \in Call
    BY CallChanges DEF Phases
  <2>2. t \in Triggers /\ s \in Sessions
    BY <1>9 DEF Register, Owned, Call
  <2>3. registered' = [registered EXCEPT ![t] = s]
        /\ UNCHANGED <<open, revision, declared, active, session, seen, tangled>>
    BY <1>9 DEF Register, SessionOf
  <2>4. \A u \in Triggers : registered[u] = s => u = t
    BY <2>2 DEF Owned
  <2>5. firing' \in [Firings -> Call]
    BY <1>9, <2>1 DEF Register
  <2> HIDE DEF s, t
  <2> QED
    BY <2>2, <2>3, <2>4, <2>5 DEF OthersTyped
<1>10. ASSUME NEW s \in Sessions, UserCloses(s) \/ UserCancels(s) \/ Complete(s)
       PROVE  session' \in [Sessions -> Item] /\ firing' \in [Firings -> Call] /\ OthersTyped'
  <2>1. Closed(session[s]) \in Item
        /\ [session[s] EXCEPT !.status = "cancelled", !.closed = TRUE] \in Item
        /\ [session[s] EXCEPT !.status = "completed"] \in Item
    BY ItemChanges
  <2> QED
    BY <1>10, <2>1 DEF UserCloses, UserCancels, Complete, OthersTyped
<1>11. ASSUME UNCHANGED vars
       PROVE  session' \in [Sessions -> Item] /\ firing' \in [Firings -> Call] /\ OthersTyped'
  BY <1>11 DEF vars, OthersTyped
<1> QED
  BY <1>1, <1>2, <1>3, <1>4, <1>5, <1>6, <1>7, <1>8, <1>9, <1>10, <1>11 DEF Next

\* The parts of the invariant beside the types.
Rest == Owned /\ Alone /\ Current /\ Replaced /\ Synced /\ OneByOne

\* The effects.  A trigger whose activation is replaced has no firing on its
\* way or becomes tangled, and its registered session is closed.
LEMMA SyncStep ==
  ASSUME Inv, Sync
  PROVE  Rest'
<1>0. session \in [Sessions -> Item] /\ firing \in [Firings -> Call] /\ OthersTyped
  BY Typed DEF Inv
<1> DEFINE closing == {registered[t] : t \in {t \in Triggers : Outdated(t)}}
<1>1. /\ firing' = firing /\ open' = open /\ revision' = revision /\ seen' = revision
      /\ tangled \subseteq tangled'
      /\ \A t \in Triggers : Outdated(t) /\ InFlight(t) => t \in tangled'
      /\ \A t \in Triggers : registered'[t] = IF Outdated(t) THEN None ELSE registered[t]
      /\ \A t \in Triggers :
           active'[t] = IF Desired(t) /\ (Outdated(t) \/ active[t] = None) THEN revision
                        ELSE IF Outdated(t) THEN None ELSE active[t]
  BY DEF Sync
<1>2. \A s \in Sessions :
        session'[s] = IF s \in closing THEN Closed(Marked(session[s])) ELSE Marked(session[s])
  BY DEF Sync
<1>3. \A s \in Sessions :
        /\ session'[s].status = "running" => /\ session[s].status = "running"
                                             /\ open => session[s].revision = revision
        /\ session'[s].revision = session[s].revision
        /\ session[s].closed => session'[s].closed
        /\ s \in closing => session'[s].closed
        /\ session'[s].status = "unused" => session[s].status = "unused"
  BY <1>0, <1>2 DEF Closed, Marked, Item
<1> HIDE DEF closing
<1>4. \A f \in Firings : firing[f].of \in Triggers /\ firing[f].session \in Sessions \cup {None}
  BY <1>0 DEF Call
<1>5. Owned'
  BY <1>1, <1>3, <1>4 DEF Inv, Owned
<1>6. Alone'
  BY <1>1 DEF Inv, Alone, OnItsWay
<1>7. \A f \in Firings : OnItsWay(f) /\ firing[f].of \notin tangled' =>
        ~Outdated(firing[f].of) /\ firing[f].of \notin tangled
  BY <1>1, <1>4 DEF InFlight, OnItsWay
<1>8. Current'
  BY <1>1, <1>4, <1>7 DEF Inv, Current, OnItsWay
<1>9. Replaced'
  <2> SUFFICES ASSUME NEW f \in Firings, firing[f].phase = "starting", firing[f].of \notin tangled'
               PROVE  ~Usable(registered[firing[f].of])'
    BY <1>1 DEF Replaced
  <2> DEFINE r == registered[firing[f].of]
  <2>1. ~Outdated(firing[f].of) /\ firing[f].of \notin tangled
    BY <1>7 DEF OnItsWay
  <2>2. registered'[firing'[f].of] = r /\ ~Usable(r) /\ r \in Sessions \cup {None}
    BY <1>0, <1>1, <1>4, <2>1 DEF Inv, Replaced, OthersTyped
  <2> HIDE DEF r
  <2>3. r # None => ~(session'[r].status = "running" /\ ~session'[r].closed)
    BY <1>3, <2>2 DEF Usable
  <2> QED
    BY <2>2, <2>3 DEF Usable
<1>10. Synced'
  BY <1>0, <1>1 DEF Synced, Outdated, OthersTyped
<1>11. ASSUME NEW f \in Firings PROVE Reachable(f)'
  <2> DEFINE s == firing[f].session
             t == firing[f].of
  <2> SUFFICES ASSUME s # None, t \notin tangled', session'[s].status = "running", ~session'[s].closed
               PROVE  \/ registered'[t] = s
                      \/ \E g \in Firings : firing[g].session = s /\ firing[g].phase = "starting"
    BY <1>1 DEF Reachable
  <2>1. s \in Sessions /\ t \in Triggers /\ session[s].status = "running" /\ ~session[s].closed
        /\ s \notin closing
    BY <1>3, <1>4
  <2>2. \/ registered[t] = s
        \/ \E g \in Firings : firing[g].session = s /\ firing[g].phase = "starting"
    BY <1>1, <2>1 DEF Inv, OneByOne, Reachable
  <2>3. registered[t] = s => ~Outdated(t)
    BY <2>1 DEF closing
  <2> QED
    BY <1>1, <2>1, <2>2, <2>3
<1>12. ASSUME NEW f \in Firings PROVE UpToDate(f)'
  BY <1>1, <1>3, <1>4 DEF UpToDate
<1> QED
  BY <1>5, <1>6, <1>8, <1>9, <1>10, <1>11, <1>12 DEF Rest, OneByOne

\* A trigger fires: with the graph it is activated with, and tangled when a
\* firing of it is on its way.
LEMMA FireStep ==
  ASSUME Inv, NEW f \in Firings, NEW t \in Triggers, Fire(f, t)
  PROVE  Rest'
<1>0. session \in [Sessions -> Item] /\ firing \in [Firings -> Call] /\ OthersTyped
  BY Typed DEF Inv
<1>1. /\ firing[f].phase = "idle" /\ active[t] # None
      /\ firing'[f] = [phase |-> "mapping", of |-> t, revision |-> active[t], session |-> None]
      /\ \A g \in Firings \ {f} : firing'[g] = firing[g]
      /\ tangled' = IF InFlight(t) THEN tangled \cup {t} ELSE tangled
      /\ UNCHANGED <<open, revision, declared, active, registered, session, seen>>
  BY <1>0 DEF Fire
<1>2. firing[f].session = None
  BY <1>1 DEF Inv, Owned
<1>3. Owned'
  BY <1>1, <1>2 DEF Inv, Owned
<1>4. Alone'
  BY <1>1 DEF Inv, Alone, OnItsWay, InFlight
<1>5. Current'
  BY <1>1 DEF Inv, Current, OnItsWay
<1>6. Replaced'
  <2>1. \A s : Usable(s)' <=> Usable(s)
    BY <1>1 DEF Usable
  <2> QED
    BY <1>1, <2>1 DEF Inv, Replaced, Usable
<1>7. Synced'
  BY <1>1 DEF Inv, Synced
<1>8. OneByOne'
  <2> SUFFICES ASSUME NEW g \in Firings PROVE Reachable(g)' /\ UpToDate(g)'
    BY DEF OneByOne
  <2>1. CASE g = f
    BY <1>1, <2>1 DEF Reachable, UpToDate
  <2>2. CASE g # f
    <3>1. firing'[g] = firing[g] /\ Reachable(g) /\ UpToDate(g)
      BY <1>1, <2>2 DEF Inv, OneByOne
    <3>2. \A h \in Firings : firing[h].session = firing[g].session /\ firing[h].phase = "starting" =>
            firing'[h] = firing[h]
      BY <1>1
    <3> QED
      BY <1>1, <3>1, <3>2 DEF Reachable, UpToDate
  <2> QED
    BY <2>1, <2>2
<1> QED
  BY <1>3, <1>4, <1>5, <1>6, <1>7, <1>8 DEF Rest

\* A new graph, the end of the workspace, and what the user or the drain loop
\* does to a session: no session runs that did not, none is opened again.
LEMMA QuietStep ==
  ASSUME Inv, UNCHANGED <<firing, registered, active, tangled, seen>>,
         open' => open,
         revision' = revision \/ (revision' \in Nat /\ revision' > revision),
         \A s \in Sessions :
           /\ session'[s].status = "running" => session[s].status = "running"
           /\ session'[s].revision = session[s].revision
           /\ session[s].closed => session'[s].closed
           /\ session'[s].status = "unused" => session[s].status = "unused"
  PROVE  Rest'
<1>0. session \in [Sessions -> Item] /\ firing \in [Firings -> Call] /\ OthersTyped
  BY Typed DEF Inv
<1>1. \A f \in Firings : firing[f].of \in Triggers /\ firing[f].session \in Sessions \cup {None}
  BY <1>0 DEF Call
<1>2. Owned'
  BY <1>1 DEF Inv, Owned
<1>3. Alone' /\ Current'
  BY DEF Inv, Alone, Current, OnItsWay
<1>4. Replaced'
  <2>1. \A s \in Sessions \cup {None} : Usable(s)' => Usable(s)
    BY DEF Usable
  <2>2. \A f \in Firings : registered[firing[f].of] \in Sessions \cup {None}
    BY <1>0, <1>1 DEF OthersTyped
  <2> QED
    BY <2>1, <2>2 DEF Inv, Replaced, Usable
<1>5. seen \in Nat /\ revision \in Nat
  BY <1>0, TriggerAssumption DEF OthersTyped
<1>6. Synced'
  BY <1>5 DEF Inv, Synced
<1>7. OneByOne'
  <2> SUFFICES ASSUME NEW f \in Firings PROVE Reachable(f)' /\ UpToDate(f)'
    BY DEF OneByOne
  <2>1. Reachable(f) /\ UpToDate(f)
    BY DEF Inv, OneByOne
  <2>2. Reachable(f)'
    BY <1>1, <2>1 DEF Reachable
  <2>3. seen = revision' => revision' = revision
    BY <1>5 DEF Inv, Synced
  <2>4. UpToDate(f)'
    BY <1>1, <2>1, <2>3 DEF UpToDate
  <2> QED
    BY <2>2, <2>4
<1> QED
  BY <1>2, <1>3, <1>4, <1>6, <1>7 DEF Rest

\* A firing ends that had registered its session, or had none.
LEMMA EndStep ==
  ASSUME Inv, NEW f \in Firings, Reject(f) \/ Pushed(f)
  PROVE  Rest'
<1>0. session \in [Sessions -> Item] /\ firing \in [Firings -> Call] /\ OthersTyped
  BY Typed DEF Inv
<1>1. /\ firing[f].phase \in {"mapping", "pushing"}
      /\ firing'[f].phase \in {"done", "failed"}
      /\ firing'[f].of = firing[f].of /\ firing'[f].session = firing[f].session
      /\ \A g \in Firings \ {f} : firing'[g] = firing[g]
      /\ UNCHANGED <<open, revision, declared, active, registered, session, seen, tangled>>
  BY <1>0 DEF Reject, Pushed, Call
<1>2. Owned'
  <2>1. \A g \in Firings : firing'[g].of = firing[g].of /\ firing'[g].session = firing[g].session
    BY <1>1
  <2> QED
    BY <1>1, <2>1 DEF Inv, Owned
<1>3. Alone' /\ Current'
  BY <1>1 DEF Inv, Alone, Current, OnItsWay
<1>4. Replaced'
  BY <1>1 DEF Inv, Replaced, Usable
<1>5. Synced'
  BY <1>1 DEF Inv, Synced
<1>6. OneByOne'
  <2> SUFFICES ASSUME NEW g \in Firings PROVE Reachable(g)' /\ UpToDate(g)'
    BY DEF OneByOne
  <2>1. Reachable(g) /\ UpToDate(g) /\ firing'[g].of = firing[g].of /\ firing'[g].session = firing[g].session
    BY <1>1 DEF Inv, OneByOne
  <2>2. \A h \in Firings : firing[h].phase = "starting" => firing'[h] = firing[h]
    BY <1>1
  <2> QED
    BY <1>1, <2>1, <2>2 DEF Reachable, UpToDate
<1> QED
  BY <1>2, <1>3, <1>4, <1>5, <1>6 DEF Rest

\* A firing goes on with the session that is registered.
LEMMA ContinueStep ==
  ASSUME Inv, NEW f \in Firings, Continue(f)
  PROVE  Rest'
<1>0. session \in [Sessions -> Item] /\ firing \in [Firings -> Call] /\ OthersTyped
  BY Typed DEF Inv
<1> DEFINE t == firing[f].of
           s == registered[t]
<1>1. /\ firing[f].phase = "mapping" /\ Usable(s) /\ t \in Triggers
      /\ firing'[f].phase = "pushing" /\ firing'[f].of = t /\ firing'[f].session = s
      /\ \A g \in Firings \ {f} : firing'[g] = firing[g]
      /\ UNCHANGED <<open, revision, declared, active, registered, session, seen, tangled>>
  BY <1>0 DEF Continue, Call
<1>2. s # None /\ session[s].status = "running" /\ \E g \in Firings : firing[g].of = t /\ firing[g].session = s
  BY <1>1 DEF Inv, Owned, Usable
<1>3. firing[f].session = None
  BY <1>1 DEF Inv, Owned
<1>4. Owned'
  <2>1. PICK g \in Firings : firing[g].of = t /\ firing[g].session = s /\ g # f
    BY <1>2, <1>3
  <2>2. \A h, k \in Firings :
          firing'[h].session = firing'[k].session /\ firing'[h].session # None =>
            firing'[h].of = firing'[k].of
    BY <1>1, <2>1 DEF Inv, Owned
  <2>3. \A u \in Triggers : registered'[u] # None =>
          \E h \in Firings : firing'[h].of = u /\ firing'[h].session = registered'[u]
    BY <1>1, <1>3 DEF Inv, Owned
  <2> QED
    BY <1>1, <1>2, <2>2, <2>3 DEF Inv, Owned
<1>5. Alone' /\ Current'
  BY <1>1 DEF Inv, Alone, Current, OnItsWay
<1>6. Replaced'
  BY <1>1 DEF Inv, Replaced, Usable
<1>7. Synced'
  BY <1>1 DEF Inv, Synced
<1>8. OneByOne'
  <2> SUFFICES ASSUME NEW g \in Firings PROVE Reachable(g)' /\ UpToDate(g)'
    BY DEF OneByOne
  <2>1. CASE g = f
    <3>1. PICK h \in Firings : firing[h].of = t /\ firing[h].session = s
      BY <1>2
    <3>2. UpToDate(h)
      BY DEF Inv, OneByOne
    <3> QED
      BY <1>1, <2>1, <3>1, <3>2 DEF Reachable, UpToDate
  <2>2. CASE g # f
    <3>1. Reachable(g) /\ UpToDate(g) /\ firing'[g] = firing[g]
      BY <1>1, <2>2 DEF Inv, OneByOne
    <3>2. \A h \in Firings : firing[h].phase = "starting" => firing'[h] = firing[h]
      BY <1>1
    <3> QED
      BY <1>1, <3>1, <3>2 DEF Reachable, UpToDate
  <2> QED
    BY <2>1, <2>2
<1> QED
  BY <1>4, <1>5, <1>6, <1>7, <1>8 DEF Rest

\* A firing starts a session nobody has, with the graph the trigger is activated
\* with, which is the one the last effects saw.
LEMMA StartStep ==
  ASSUME Inv, NEW f \in Firings, Start(f)
  PROVE  Rest'
<1>0. session \in [Sessions -> Item] /\ firing \in [Firings -> Call] /\ OthersTyped
  BY Typed DEF Inv
<1> DEFINE t == firing[f].of
<1>1. PICK s \in Sessions :
        /\ session[s] = Unused
        /\ session' = [session EXCEPT ![s] = [status |-> "running", closed |-> FALSE,
                                              revision |-> firing[f].revision]]
        /\ firing' = [firing EXCEPT ![f].phase = "starting", ![f].session = s]
  BY DEF Start
<1>2. /\ firing[f].phase = "mapping" /\ ~Usable(registered[t]) /\ t \in Triggers
      /\ firing'[f].phase = "starting" /\ firing'[f].of = t /\ firing'[f].session = s
      /\ firing'[f].revision = firing[f].revision
      /\ \A g \in Firings \ {f} : firing'[g] = firing[g]
      /\ session'[s].status = "running" /\ session'[s].revision = firing[f].revision
      /\ \A r \in Sessions \ {s} : session'[r] = session[r]
      /\ UNCHANGED <<open, revision, declared, active, registered, seen, tangled>>
  BY <1>0, <1>1 DEF Start, Call
<1>3. firing[f].session = None /\ \A g \in Firings : firing[g].session # s
  BY <1>1, <1>2, TriggerAssumption DEF Inv, Owned, Unused
<1>4. \A g \in Firings : firing[g].session \in Sessions \cup {None} /\ firing[g].of \in Triggers
  BY <1>0 DEF Call
<1>5. \A u \in Triggers : registered[u] # s /\ registered[u] \in Sessions \cup {None}
  BY <1>0, <1>3, TriggerAssumption DEF Inv, Owned, OthersTyped
<1>6. Owned'
  <2>1. \A h \in Firings : firing'[h].session # None => session'[firing'[h].session].status # "unused"
    BY <1>2, <1>3, <1>4 DEF Inv, Owned
  <2>2. \A h, k \in Firings :
          firing'[h].session = firing'[k].session /\ firing'[h].session # None =>
            firing'[h].of = firing'[k].of
    BY <1>2, <1>3 DEF Inv, Owned
  <2>3. \A u \in Triggers : registered'[u] # None =>
          \E h \in Firings : firing'[h].of = u /\ firing'[h].session = registered'[u]
    BY <1>2, <1>3 DEF Inv, Owned
  <2>4. \A h \in Firings : firing'[h].phase \in {"idle", "mapping"} => firing'[h].session = None
    BY <1>2 DEF Inv, Owned
  <2>5. \A h \in Firings : firing'[h].phase = "starting" => firing'[h].session # None
    BY <1>2, TriggerAssumption DEF Inv, Owned
  <2> QED
    BY <2>1, <2>2, <2>3, <2>4, <2>5 DEF Owned
<1>7. Alone' /\ Current'
  BY <1>2 DEF Inv, Alone, Current, OnItsWay
<1>8. Replaced'
  <2>1. \A u \in Triggers : Usable(registered[u])' <=> Usable(registered[u])
    BY <1>2, <1>5 DEF Usable
  <2>2. \A h \in Firings : firing'[h].of = firing[h].of
    BY <1>2
  <2> QED
    BY <1>2, <1>4, <2>1, <2>2 DEF Inv, Replaced, Usable
<1>9. Synced'
  BY <1>2 DEF Inv, Synced
<1>10. OneByOne'
  <2> SUFFICES ASSUME NEW g \in Firings PROVE Reachable(g)' /\ UpToDate(g)'
    BY DEF OneByOne
  <2>1. CASE g = f
    <3>1. t \notin tangled => firing[f].revision = seen
      BY <1>2 DEF Inv, Current, Synced, OnItsWay
    <3> QED
      BY <1>2, <2>1, <3>1 DEF Reachable, UpToDate
  <2>2. CASE g # f
    <3>1. Reachable(g) /\ UpToDate(g) /\ firing'[g] = firing[g] /\ firing[g].session # s
      BY <1>2, <1>3, <2>2 DEF Inv, OneByOne
    <3>2. \A h \in Firings : firing[h].phase = "starting" => firing'[h] = firing[h]
      BY <1>2
    <3> QED
      BY <1>2, <1>4, <3>1, <3>2 DEF Reachable, UpToDate
  <2> QED
    BY <2>1, <2>2
<1> QED
  BY <1>6, <1>7, <1>8, <1>9, <1>10 DEF Rest

\* The session of a firing is registered, in the place of one that takes no
\* frames.
LEMMA RegisterStep ==
  ASSUME Inv, NEW f \in Firings, Register(f)
  PROVE  Rest'
<1>0. session \in [Sessions -> Item] /\ firing \in [Firings -> Call] /\ OthersTyped
  BY Typed DEF Inv
<1> DEFINE t == firing[f].of
           s == firing[f].session
<1>1. /\ firing[f].phase = "starting" /\ t \in Triggers /\ s # None
      /\ firing'[f].phase = "done" /\ firing'[f].of = t /\ firing'[f].session = s
      /\ \A g \in Firings \ {f} : firing'[g] = firing[g]
      /\ registered'[t] = s /\ \A u \in Triggers \ {t} : registered'[u] = registered[u]
      /\ UNCHANGED <<open, revision, declared, active, session, seen, tangled>>
  BY <1>0 DEF Register, SessionOf, Call, OthersTyped, Inv, Owned
<1>2. \A g \in Firings : firing'[g].of = firing[g].of /\ firing'[g].session = firing[g].session
                         /\ firing[g].of \in Triggers
  BY <1>0, <1>1 DEF Call
<1>3. Owned'
  BY <1>1, <1>2 DEF Inv, Owned
<1>4. Alone' /\ Current'
  BY <1>1 DEF Inv, Alone, Current, OnItsWay
<1>5. \A g \in Firings \ {f} : firing[g].phase = "starting" /\ t \notin tangled => firing[g].of # t
  BY <1>1 DEF Inv, Alone, OnItsWay
<1>6. Replaced'
  <2> SUFFICES ASSUME NEW g \in Firings, firing'[g].phase = "starting", firing'[g].of \notin tangled
               PROVE  ~Usable(registered[firing[g].of])'
    BY <1>1, <1>2 DEF Replaced
  <2>1. g # f /\ firing[g].phase = "starting" /\ firing[g].of # t
    BY <1>1, <1>2, <1>5
  <2> QED
    BY <1>1, <1>2, <2>1 DEF Inv, Replaced, Usable
<1>7. Synced'
  BY <1>1 DEF Inv, Synced
<1>8. OneByOne'
  <2> SUFFICES ASSUME NEW g \in Firings PROVE Reachable(g)' /\ UpToDate(g)'
    BY DEF OneByOne
  <2>1. UpToDate(g)'
    BY <1>1, <1>2 DEF Inv, OneByOne, UpToDate
  <2>2. Reachable(g)'
    <3> DEFINE r == firing[g].session
    <3> SUFFICES ASSUME r # None, firing[g].of \notin tangled, session[r].status = "running", ~session[r].closed
                 PROVE  \/ registered'[firing[g].of] = r
                        \/ \E h \in Firings : firing'[h].session = r /\ firing'[h].phase = "starting"
      BY <1>1, <1>2 DEF Reachable
    <3>1. \/ registered[firing[g].of] = r
          \/ \E h \in Firings : firing[h].session = r /\ firing[h].phase = "starting"
      BY DEF Inv, OneByOne, Reachable
    <3>2. CASE registered[firing[g].of] = r
      <4>1. Usable(r)
        BY DEF Usable
      <4>2. firing[g].of # t
        BY <1>1, <3>2, <4>1 DEF Inv, Replaced
      <4> QED
        BY <1>1, <1>2, <3>2, <4>2
    <3>3. ASSUME NEW h \in Firings, firing[h].session = r, firing[h].phase = "starting"
          PROVE  \/ registered'[firing[g].of] = r
                 \/ \E k \in Firings : firing'[k].session = r /\ firing'[k].phase = "starting"
      <4>1. CASE h = f
        BY <1>1, <3>3, <4>1 DEF Inv, Owned
      <4>2. CASE h # f
        BY <1>1, <3>3, <4>2
      <4> QED
        BY <4>1, <4>2
    <3> QED
      BY <3>1, <3>2, <3>3
  <2> QED
    BY <2>1, <2>2
<1> QED
  BY <1>3, <1>4, <1>6, <1>7, <1>8 DEF Rest
-----------------------------------------------------------------------------
\* Every step keeps the invariant.
LEMMA Step == Inv /\ [Next]_vars => Inv'
<1> SUFFICES ASSUME Inv, [Next]_vars PROVE Rest'
  BY TypeStep DEF Inv, Rest
<1>0. session \in [Sessions -> Item] /\ firing \in [Firings -> Call] /\ OthersTyped
  BY Typed DEF Inv
<1>1. ASSUME NEW triggers \in SUBSET Triggers, Publish(triggers) PROVE Rest'
  <2>1. revision' \in Nat /\ revision' > revision
    BY <1>0, <1>1, TriggerAssumption DEF Publish, OthersTyped
  <2> QED
    BY <1>1, <2>1, QuietStep DEF Publish
<1>2. CASE CloseWorkspace
  BY <1>2, QuietStep DEF CloseWorkspace
<1>3. ASSUME NEW s \in Sessions, UserCloses(s) \/ UserCancels(s) \/ Complete(s) PROVE Rest'
  <2>1. /\ UNCHANGED <<open, revision, firing, registered, active, tangled, seen>>
        /\ \A r \in Sessions \ {s} : session'[r] = session[r]
        /\ session'[s].revision = session[s].revision
        /\ session'[s].status \in {"draining", "cancelled", "completed"}
           \/ (session'[s].status = session[s].status /\ session[s].status # "running")
        /\ session[s].closed => session'[s].closed
        /\ session'[s].status # "unused"
    BY <1>0, <1>3 DEF UserCloses, UserCancels, Complete, Closed, Item
  <2>2. \A r \in Sessions :
          /\ session'[r].status = "running" => session[r].status = "running"
          /\ session'[r].revision = session[r].revision
          /\ session[r].closed => session'[r].closed
          /\ session'[r].status = "unused" => session[r].status = "unused"
    BY <2>1
  <2> QED
    BY <2>1, <2>2, QuietStep
<1>4. CASE UNCHANGED vars
  BY <1>4, QuietStep DEF vars
<1> QED
  BY <1>1, <1>2, <1>3, <1>4, SyncStep, FireStep, EndStep, ContinueStep, StartStep, RegisterStep DEF Next

\* The invariant holds in every reachable state.
LEMMA Invariance == Spec => []Inv
  BY InitInv, Step, PTL DEF Spec

\* A session of a trigger that takes frames can be closed through its trigger
\* unless firings overlapped or outlived their activation
\* (session-manager.ts:83-86, trigger-runtime.ts:56-60).
THEOREM RunningSessionsAreReachable == Spec => []SessionsAreReachable
<1>1. Inv => SessionsAreReachable
  BY SaidOfFirings DEF Inv
<1> QED
  BY <1>1, Invariance, PTL

\* After the effects no session runs an older graph, under the same exception
\* (session-manager.ts:94-97, trigger-runtime.ts:38).
THEOREM RunningSessionsAreCurrent == Spec => []RunningIsCurrent
<1>1. Inv => RunningIsCurrent
  BY SaidOfFirings DEF Inv
<1> QED
  BY <1>1, Invariance, PTL
=============================================================================
