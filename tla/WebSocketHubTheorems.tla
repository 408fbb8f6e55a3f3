------------------------ MODULE WebSocketHubTheorems ------------------------
(***************************************************************************)
(* The safety of the hub, for every number of lots, connections,           *)
(* goroutines and broadcasts, whichever clients stall or leave and         *)
(* whatever concurrent writes do.                                          *)
(***************************************************************************)
EXTENDS WebSocketHub, TLAPS

USE HubAssumption

-----------------------------------------------------------------------------
(* The map and the lock. *)

Registered == {"reading", "leaving"}

Shapes ==
  /\ DOMAIN subscriptions \subseteq Lots
  /\ writer \in Conns \cup {None}
  /\ handler \in [Conns -> {"none", "subscribing", "reading", "leaving", "returned"}]
  /\ lotID \in [Conns -> Lots \cup {None}]
  /\ pc \in [Broadcasters -> {"idle", "writing", "dead"}]
  /\ todo \in [Broadcasters -> SUBSET Conns]
  /\ target \in [Broadcasters -> Conns \cup {None}]

\* A connection that is served has a lot.
Lotted ==
  \A c \in Conns : handler[c] \in {"subscribing", "reading", "leaving"} => lotID[c] \in Lots

\* The read lock is held by who is in the loop, and only he has work left.
LoopInv ==
  /\ readers = {b \in Broadcasters : pc[b] = "writing"}
  /\ \A b \in Broadcasters : pc[b] # "writing" => todo[b] = {} /\ target[b] = None

LockInv == Shapes /\ Lotted /\ LoopInv /\ RegistryIsExact /\ NoWriteAfterReturn

LEMMA LockInit == Init => LockInv
  <1> SUFFICES ASSUME Init PROVE LockInv
    OBVIOUS
  <1>1. subscriptions = <<>> /\ DOMAIN subscriptions = {}
    <2>1. DOMAIN <<>> = {}
      OBVIOUS
    <2> QED
      BY <2>1 DEF Init
  <1>2. Shapes
    BY <1>1 DEF Init, Shapes
  <1>3. Lotted
    BY DEF Init, Lotted
  <1>4. LoopInv
    BY DEF Init, LoopInv
  <1>5. RegistryIsExact
    <2>1. \A l \in Lots : Subscribers(l) = {}
      BY <1>1 DEF Subscribers
    <2>2. \A c \in Conns : handler[c] \notin {"reading", "leaving"}
      BY DEF Init
    <2> QED
      BY <1>1, <2>1, <2>2 DEF RegistryIsExact
  <1>6. NoWriteAfterReturn
    BY DEF Init, NoWriteAfterReturn
  <1> QED
    BY <1>2, <1>3, <1>4, <1>5, <1>6 DEF LockInv

\* A step that leaves the map alone and takes nobody out of Registered, nor in.
LEMMA SameRegistry ==
  ASSUME LockInv, subscriptions' = subscriptions,
         \A c \in Conns : /\ handler'[c] \in Registered <=> handler[c] \in Registered
                          /\ handler[c] \in Registered => lotID'[c] = lotID[c]
  PROVE  RegistryIsExact'
  <1>1. \A l \in Lots : Subscribers(l)' = Subscribers(l)
    BY DEF Subscribers
  <1>2. \A l \in Lots :
          {c \in Conns : lotID'[c] = l /\ handler'[c] \in {"reading", "leaving"}}
            = {c \in Conns : lotID[c] = l /\ handler[c] \in {"reading", "leaving"}}
    BY DEF Registered
  <1>3. /\ \A l \in Lots :
             Subscribers(l) = {c \in Conns : lotID[c] = l /\ handler[c] \in {"reading", "leaving"}}
        /\ \A l \in DOMAIN subscriptions : subscriptions[l] # {}
    BY DEF LockInv, RegistryIsExact
  <1>4. \A l \in Lots : Subscribers(l)'
          = {c \in Conns : lotID'[c] = l /\ handler'[c] \in {"reading", "leaving"}}
    BY <1>1, <1>2, <1>3
  <1> QED
    BY <1>3, <1>4 DEF RegistryIsExact

\* Nor does a goroutine then write to a connection that was released.
LEMMA SameWrites ==
  ASSUME LockInv,
         \A c \in Conns : handler[c] \in Registered => handler'[c] \in Registered,
         \A b \in Broadcasters :
           /\ todo'[b] \subseteq todo[b]
           /\ target'[b] \in todo[b] \cup {target[b], None}
  PROVE  NoWriteAfterReturn'
  <1> SUFFICES ASSUME NEW b \in Broadcasters, NEW c \in todo'[b] \cup ({target'[b]} \ {None})
      PROVE handler'[c] \in Registered
    BY DEF NoWriteAfterReturn, Registered
  <1>1. c \in todo[b] \/ (c = target[b] /\ c # None)
    <2>1. todo'[b] \subseteq todo[b] /\ target'[b] \in todo[b] \cup {target[b], None}
      OBVIOUS
    <2>2. c \in todo'[b] \/ (c = target'[b] /\ c # None)
      OBVIOUS
    <2> QED
      BY <2>1, <2>2
  <1>2. todo[b] \subseteq Conns /\ target[b] \in Conns \cup {None} /\ None \notin Conns
    BY DEF LockInv, Shapes
  <1>3. CASE c \in todo[b] \cup ({target[b]} \ {None})
    <2>1. handler[c] \in Registered
      BY <1>3 DEF LockInv, NoWriteAfterReturn, Registered
    <2> QED
      BY <1>2, <1>3, <2>1
  <1> QED
    BY <1>1, <1>2, <1>3

LEMMA LockUpgrade ==
  ASSUME LockInv, NEW c \in Conns, Upgrade(c)
  PROVE  LockInv'
  <1> USE DEF LockInv
  <1>1. /\ UNCHANGED <<subscriptions, writer, readers, pc, todo, target>>
        /\ handler[c] = "none"
        /\ \/ /\ handler' = [handler EXCEPT ![c] = "subscribing"]
              /\ \E l \in Lots : lotID' = [lotID EXCEPT ![c] = l]
           \/ handler' = [handler EXCEPT ![c] = "returned"] /\ lotID' = lotID
    BY DEF Upgrade, lockVars, callVars
  <1>2. Shapes'
    BY <1>1 DEF Shapes
  <1>3. Lotted'
    BY <1>1 DEF Shapes, Lotted
  <1>4. LoopInv'
    BY <1>1 DEF LoopInv
  <1>5. \A d \in Conns : /\ handler'[d] \in Registered <=> handler[d] \in Registered
                         /\ handler[d] \in Registered => lotID'[d] = lotID[d]
    BY <1>1 DEF Shapes, Registered
  <1>6. RegistryIsExact'
    BY <1>1, <1>5, SameRegistry
  <1>7. NoWriteAfterReturn'
    BY <1>1, <1>5, SameWrites
  <1> QED
    BY <1>2, <1>3, <1>4, <1>6, <1>7

LEMMA LockAsk ==
  ASSUME LockInv, NEW c \in Conns, AskLock(c)
  PROVE  LockInv'
  <1> USE DEF LockInv
  <1>1. /\ UNCHANGED <<subscriptions, readers, handler, lotID, pc, todo, target>> /\ writer' = c
    BY DEF AskLock, connVars, callVars
  <1>2. Shapes' /\ Lotted' /\ LoopInv'
    BY <1>1 DEF Shapes, Lotted, LoopInv
  <1>3. RegistryIsExact'
    BY <1>1, SameRegistry
  <1>4. NoWriteAfterReturn'
    BY <1>1, SameWrites
  <1> QED
    BY <1>2, <1>3, <1>4

LEMMA LockSubscribe ==
  ASSUME LockInv, NEW c \in Conns, Subscribe(c)
  PROVE  LockInv'
  <1> USE DEF LockInv
  <1> DEFINE k == lotID[c]
  <1>1. /\ UNCHANGED <<readers, lotID, pc, todo, target>> /\ writer' = None
        /\ handler[c] = "subscribing" /\ handler' = [handler EXCEPT ![c] = "reading"]
        /\ subscriptions' = [l \in DOMAIN subscriptions \cup {k} |->
                               Subscribers(l) \cup (IF l = k THEN {c} ELSE {})]
    BY DEF Subscribe, callVars
  <1>2. k \in Lots
    BY <1>1 DEF Lotted
  <1>3. Shapes'
    BY <1>1, <1>2 DEF Shapes
  <1>4. Lotted'
    BY <1>1, <1>2 DEF Shapes, Lotted
  <1>5. LoopInv'
    BY <1>1 DEF LoopInv
  <1>6. RegistryIsExact'
    <2>1. \A l \in Lots : Subscribers(l)' = IF l = k THEN Subscribers(l) \cup {c} ELSE Subscribers(l)
      BY <1>1, <1>2 DEF Subscribers
    <2>2. \A d \in Conns : handler'[d] = IF d = c THEN "reading" ELSE handler[d]
      BY <1>1 DEF Shapes
    <2>3. \A l \in Lots :
            {d \in Conns : lotID'[d] = l /\ handler'[d] \in {"reading", "leaving"}}
              = {d \in Conns : lotID[d] = l /\ handler[d] \in {"reading", "leaving"}}
                  \cup (IF l = k THEN {c} ELSE {})
      BY <1>1, <2>2
    <2>4. \A l \in Lots : Subscribers(l)'
            = {d \in Conns : lotID'[d] = l /\ handler'[d] \in {"reading", "leaving"}}
      BY <2>1, <2>3 DEF RegistryIsExact
    <2>5. \A l \in DOMAIN subscriptions' : subscriptions'[l] # {}
      BY <1>1 DEF RegistryIsExact, Subscribers
    <2> QED
      BY <2>4, <2>5 DEF RegistryIsExact
  <1>7. NoWriteAfterReturn'
    <2>1. \A d \in Conns : handler[d] \in Registered => handler'[d] \in Registered
      BY <1>1 DEF Shapes, Registered
    <2> QED
      BY <1>1, <2>1, SameWrites
  <1> QED
    BY <1>3, <1>4, <1>5, <1>6, <1>7

LEMMA LockReadFails ==
  ASSUME LockInv, NEW c \in Conns, ReadFails(c)
  PROVE  LockInv'
  <1> USE DEF LockInv
  <1>1. /\ UNCHANGED <<subscriptions, writer, readers, lotID, pc, todo, target>>
        /\ handler[c] = "reading" /\ handler' = [handler EXCEPT ![c] = "leaving"]
    BY DEF ReadFails, lockVars, callVars
  <1>2. Shapes' /\ Lotted' /\ LoopInv'
    BY <1>1 DEF Shapes, Lotted, LoopInv
  <1>3. \A d \in Conns : handler'[d] \in Registered <=> handler[d] \in Registered
    BY <1>1 DEF Shapes, Registered
  <1>4. RegistryIsExact'
    BY <1>1, <1>3, SameRegistry
  <1>5. NoWriteAfterReturn'
    BY <1>1, <1>3, SameWrites
  <1> QED
    BY <1>2, <1>4, <1>5

LEMMA LockUnsubscribe ==
  ASSUME LockInv, NEW c \in Conns, Unsubscribe(c)
  PROVE  LockInv'
  <1> USE DEF LockInv
  <1>1. /\ UNCHANGED <<readers, lotID, pc, todo, target>> /\ writer' = None /\ readers = {}
        /\ handler[c] = "leaving" /\ handler' = [handler EXCEPT ![c] = "returned"]
        /\ subscriptions' = [l \in Remaining(c) |-> subscriptions[l] \ {c}]
    BY DEF Unsubscribe, HasLock, callVars
  <1>2. Shapes'
    BY <1>1 DEF Shapes, Remaining
  <1>3. Lotted' /\ LoopInv'
    BY <1>1 DEF Shapes, Lotted, LoopInv
  <1>4. RegistryIsExact'
    <2>1. \A l \in Lots : Subscribers(l)' = Subscribers(l) \ {c}
      BY <1>1 DEF Subscribers, Remaining
    <2>2. \A d \in Conns : handler'[d] = IF d = c THEN "returned" ELSE handler[d]
      BY <1>1 DEF Shapes
    <2>3. \A l \in Lots :
            {d \in Conns : lotID'[d] = l /\ handler'[d] \in {"reading", "leaving"}}
              = {d \in Conns : lotID[d] = l /\ handler[d] \in {"reading", "leaving"}} \ {c}
      BY <1>1, <2>2
    <2>4. \A l \in Lots : Subscribers(l)'
            = {d \in Conns : lotID'[d] = l /\ handler'[d] \in {"reading", "leaving"}}
      BY <2>1, <2>3 DEF RegistryIsExact
    <2>5. \A l \in DOMAIN subscriptions' : subscriptions'[l] # {}
      BY <1>1 DEF Remaining
    <2> QED
      BY <2>4, <2>5 DEF RegistryIsExact
  <1>5. NoWriteAfterReturn'
    <2>1. \A b \in Broadcasters : todo[b] = {} /\ target[b] = None
      BY <1>1 DEF LoopInv
    <2> QED
      BY <1>1, <2>1 DEF NoWriteAfterReturn
  <1> QED
    BY <1>2, <1>3, <1>4, <1>5

\* A broadcast starts with the connections in the map, none of which is released.
LEMMA LockBroadcast ==
  ASSUME LockInv, NEW b \in Broadcasters, NEW l \in Lots, Broadcast(b, l)
  PROVE  LockInv'
  <1> USE DEF LockInv
  <1>1. UNCHANGED <<subscriptions, writer, handler, lotID, target>> /\ pc[b] = "idle"
    BY DEF Broadcast, connVars
  <1>2. RegistryIsExact'
    BY <1>1, SameRegistry
  <1>3. CASE UNCHANGED <<readers, pc, todo>>
    <2>1. Shapes' /\ Lotted' /\ LoopInv'
      BY <1>1, <1>3 DEF Shapes, Lotted, LoopInv
    <2>2. NoWriteAfterReturn'
      BY <1>1, <1>3, SameWrites
    <2> QED
      BY <1>2, <2>1, <2>2
  <1>4. CASE /\ readers' = readers \cup {b}
             /\ pc' = [pc EXCEPT ![b] = "writing"]
             /\ todo' = [todo EXCEPT ![b] = Subscribers(l)]
    <2>1. Subscribers(l) = {c \in Conns : lotID[c] = l /\ handler[c] \in Registered}
      BY DEF RegistryIsExact, Registered
    <2>2. Shapes' /\ Lotted'
      BY <1>1, <1>4, <2>1 DEF Shapes, Lotted
    <2>3. LoopInv'
      BY <1>1, <1>4 DEF Shapes, LoopInv
    <2>4. NoWriteAfterReturn'
      <3> SUFFICES ASSUME NEW d \in Broadcasters, NEW c \in todo'[d] \cup ({target'[d]} \ {None})
          PROVE handler'[c] \in Registered
        BY DEF NoWriteAfterReturn, Registered
      <3>1. todo'[d] = IF d = b THEN Subscribers(l) ELSE todo[d]
        BY <1>4 DEF Shapes
      <3>2. c \in todo[d] \cup ({target[d]} \ {None}) => handler[c] \in Registered
        BY DEF NoWriteAfterReturn, Registered
      <3>3. c \in Subscribers(l) => handler[c] \in Registered
        BY <2>1
      <3> QED
        BY <1>1, <3>1, <3>2, <3>3
    <2> QED
      BY <1>2, <2>2, <2>3, <2>4
  <1> QED
    BY <1>3, <1>4 DEF Broadcast

LEMMA LockBeginWrite ==
  ASSUME LockInv, NEW b \in Broadcasters, NEW c \in Conns, BeginWrite(b, c)
  PROVE  LockInv'
  <1> USE DEF LockInv
  <1>1. /\ UNCHANGED <<subscriptions, writer, readers, handler, lotID, pc>>
        /\ pc[b] = "writing" /\ c \in todo[b]
        /\ todo' = [todo EXCEPT ![b] = todo[b] \ {c}]
        /\ target' = [target EXCEPT ![b] = c]
    BY DEF BeginWrite, lockVars, connVars
  <1>2. Shapes' /\ Lotted'
    BY <1>1 DEF Shapes, Lotted
  <1>3. LoopInv'
    BY <1>1 DEF Shapes, LoopInv
  <1>4. RegistryIsExact'
    BY <1>1, SameRegistry
  <1>5. NoWriteAfterReturn'
    <2>1. \A d \in Broadcasters : /\ todo'[d] \subseteq todo[d]
                                 /\ target'[d] \in todo[d] \cup {target[d], None}
      BY <1>1 DEF Shapes
    <2> QED
      BY <1>1, <2>1, SameWrites
  <1> QED
    BY <1>2, <1>3, <1>4, <1>5

\* The end of a write, and the end of a loop, good or bad.
LEMMA LockEndWrite ==
  ASSUME LockInv, NEW b \in Broadcasters, NextConn(b)
  PROVE  LockInv'
  <1> USE DEF LockInv
  <1>1. /\ UNCHANGED <<subscriptions, writer, readers, handler, lotID, pc, todo>>
        /\ target' = [target EXCEPT ![b] = None]
    BY DEF NextConn, lockVars
  <1>2. Shapes' /\ Lotted'
    BY <1>1 DEF Shapes, Lotted
  <1>3. LoopInv'
    BY <1>1 DEF Shapes, LoopInv
  <1>4. RegistryIsExact'
    BY <1>1, SameRegistry
  <1>5. NoWriteAfterReturn'
    <2>1. \A d \in Broadcasters : /\ todo'[d] \subseteq todo[d]
                                 /\ target'[d] \in todo[d] \cup {target[d], None}
      BY <1>1 DEF Shapes
    <2> QED
      BY <1>1, <2>1, SameWrites
  <1> QED
    BY <1>2, <1>3, <1>4, <1>5

LEMMA LockReturn ==
  ASSUME LockInv, NEW b \in Broadcasters, Return(b) \/ HandlerPanics(b)
  PROVE  LockInv'
  <1> USE DEF LockInv
  <1>1. /\ UNCHANGED <<subscriptions, writer, handler, lotID>>
        /\ readers' = readers \ {b}
        /\ todo' = [todo EXCEPT ![b] = {}] /\ target' = [target EXCEPT ![b] = None]
        /\ \E to \in {"idle", "dead"} : pc' = [pc EXCEPT ![b] = to]
    BY DEF Return, HandlerPanics, Unlocked, connVars
  <1>2. Shapes' /\ Lotted'
    BY <1>1 DEF Shapes, Lotted
  <1>3. LoopInv'
    BY <1>1 DEF Shapes, LoopInv
  <1>4. RegistryIsExact'
    BY <1>1, SameRegistry
  <1>5. NoWriteAfterReturn'
    <2>1. \A d \in Broadcasters : /\ todo'[d] \subseteq todo[d]
                                 /\ target'[d] \in todo[d] \cup {target[d], None}
      BY <1>1 DEF Shapes
    <2> QED
      BY <1>1, <2>1, SameWrites
  <1> QED
    BY <1>2, <1>3, <1>4, <1>5

LEMMA LockProcessEnds ==
  ASSUME LockInv, NEW b \in Broadcasters, CloserPanics(b)
  PROVE  LockInv'
  <1> USE DEF LockInv
  <1>1. /\ subscriptions' = <<>> /\ writer' = None /\ readers' = {}
        /\ pc' = [d \in Broadcasters |-> "dead"] /\ todo' = [d \in Broadcasters |-> {}]
        /\ target' = [d \in Broadcasters |-> None]
        /\ handler' = [c \in Conns |-> "returned"] /\ lotID' = lotID
    BY DEF CloserPanics
  <1>2. DOMAIN subscriptions' = {}
    <2>1. DOMAIN <<>> = {}
      OBVIOUS
    <2> QED
      BY <1>1, <2>1
  <1>3. Shapes' /\ Lotted' /\ LoopInv' /\ NoWriteAfterReturn'
    BY <1>1, <1>2 DEF Shapes, Lotted, LoopInv, NoWriteAfterReturn
  <1>4. RegistryIsExact'
    <2>1. \A l \in Lots : Subscribers(l)' = {}
      BY <1>2 DEF Subscribers
    <2>2. \A c \in Conns : handler'[c] \notin {"reading", "leaving"}
      BY <1>1
    <2> QED
      BY <1>2, <2>1, <2>2 DEF RegistryIsExact
  <1> QED
    BY <1>3, <1>4

\* What the lock and the map are indifferent to.
LEMMA LockQuiet ==
  ASSUME LockInv, UNCHANGED <<subscriptions, writer, readers, handler, lotID, pc, todo, target>>
  PROVE  LockInv'
  <1> USE DEF LockInv
  <1>1. Shapes' /\ Lotted' /\ LoopInv'
    BY DEF Shapes, Lotted, LoopInv
  <1>2. RegistryIsExact'
    BY SameRegistry
  <1>3. NoWriteAfterReturn'
    BY SameWrites
  <1> QED
    BY <1>1, <1>2, <1>3

LEMMA LockStep == LockInv /\ [Next]_vars => LockInv'
  <1> SUFFICES ASSUME LockInv, [Next]_vars PROVE LockInv'
    OBVIOUS
  <1>1. CASE UNCHANGED vars
    BY <1>1, LockQuiet DEF vars, lockVars, connVars, callVars
  <1>2. ASSUME NEW c \in Conns, Upgrade(c) PROVE LockInv'
    BY <1>2, LockUpgrade
  <1>3. ASSUME NEW c \in Conns, HandlerStep(c) PROVE LockInv'
    BY <1>3, LockAsk, LockSubscribe, LockReadFails, LockUnsubscribe DEF HandlerStep
  <1>4. ASSUME NEW c \in Conns, Leave(c) \/ Stall(c) PROVE LockInv'
    BY <1>4, LockQuiet DEF Leave, Stall, ClientMoves, lockVars, callVars
  <1>5. ASSUME NEW b \in Broadcasters, CallStep(b) PROVE LockInv'
    <2>1. CASE \E c \in Conns : BeginWrite(b, c)
      BY <2>1, LockBeginWrite
    <2>2. CASE WriteSucceeds(b) \/ WriteFails(b)
      BY <2>2, LockEndWrite DEF WriteSucceeds, WriteFails
    <2>3. CASE Return(b) \/ HandlerPanics(b)
      BY <2>3, LockReturn
    <2>4. CASE CloserPanics(b)
      BY <2>4, LockProcessEnds
    <2> QED
      BY <1>5, <2>1, <2>2, <2>3, <2>4 DEF CallStep
  <1>6. ASSUME NEW b \in Broadcasters, NEW l \in Lots, Broadcast(b, l) PROVE LockInv'
    BY <1>6, LockBroadcast
  <1> QED
    BY <1>1, <1>2, <1>3, <1>4, <1>5, <1>6 DEF Next

LEMMA LockInvariant == Spec => []LockInv
  BY LockInit, LockStep, PTL DEF Spec

\* The map holds exactly the connections that are served, and nothing leaks
\* (websocket.go:45-63).
THEOREM RegistryExact == Spec => []RegistryIsExact
  BY LockInvariant, PTL DEF LockInv

\* No broadcast writes to a connection whose handler has released it
\* (websocket.go:67-80).
THEOREM NoLateWrite == Spec => []NoWriteAfterReturn
  BY LockInvariant, PTL DEF LockInv

-----------------------------------------------------------------------------
(* What clients receive. *)

Sent == [by : Broadcasters, lot : Lots, n : Nat]

EventTypes ==
  /\ event \in [Broadcasters -> [lot : Lots \cup {None}, n : Nat]]
  /\ received \in [Conns -> Seq(Sent)]
  /\ \A c \in Conns : handler[c] = "none" => received[c] = <<>>

\* A broadcast has work with connections of its lot only, and is done with the
\* one it writes to.
WorkInv ==
  \A b \in Broadcasters :
    /\ \A c \in Conns : c \in todo[b] \/ c = target[b] => event[b].lot = lotID[c]
    /\ target[b] \notin todo[b]

\* An event a client has is of its lot, and older than what is still to come
\* from the same goroutine.
Past(c, e) ==
  /\ e.lot = lotID[c] /\ e.n <= event[e.by].n
  /\ (c \in todo[e.by] \/ c = target[e.by]) => e.n < event[e.by].n

PastInv == \A c \in Conns : \A i \in DOMAIN received[c] : Past(c, received[c][i])

EventInv == LockInv /\ EventTypes /\ WorkInv /\ PastInv /\ EventsInOrder

LEMMA EventInit == Init => EventInv
  <1> SUFFICES ASSUME Init PROVE EventInv
    OBVIOUS
  <1>1. /\ \A c \in Conns : received[c] = <<>> /\ lotID[c] = None
        /\ \A b \in Broadcasters : todo[b] = {} /\ target[b] = None
    BY DEF Init
  <1>2. EventTypes
    <2>1. <<>> \in Seq(Sent)
      OBVIOUS
    <2> QED
      BY <2>1 DEF Init, EventTypes
  <1>3. WorkInv
    BY <1>1 DEF WorkInv
  <1>4. PastInv /\ EventsInOrder
    <2>1. \A c \in Conns : DOMAIN received[c] = {}
      BY <1>1
    <2> QED
      BY <2>1 DEF PastInv, EventsInOrder
  <1> QED
    BY <1>2, <1>3, <1>4, LockInit DEF EventInv

\* Steps that neither send nor deliver.
LEMMA EventQuiet ==
  ASSUME EventInv, LockInv', event' = event, received' = received,
         \A c \in Conns : handler'[c] = "none" => handler[c] = "none",
         \A c \in Conns : lotID'[c] = lotID[c] \/ handler[c] = "none",
         \A b \in Broadcasters :
           /\ todo'[b] \subseteq todo[b]
           /\ target'[b] \in todo[b] \cup {target[b], None} /\ target'[b] \notin todo'[b]
  PROVE  EventInv'
  <1> USE DEF EventInv
  <1>1. EventTypes'
    BY DEF EventTypes
  <1>2. ASSUME NEW b \in Broadcasters, NEW c \in Conns, c \in todo'[b] \/ c = target'[b]
        PROVE  c \in todo[b] \/ c = target[b]
    <2>1. c # None
      OBVIOUS
    <2>2. todo'[b] \subseteq todo[b] /\ target'[b] \in todo[b] \cup {target[b], None}
      OBVIOUS
    <2> QED
      BY <1>2, <2>1, <2>2
  <1>3. ASSUME NEW b \in Broadcasters, NEW c \in Conns, c \in todo[b] \/ c = target[b]
        PROVE  handler[c] # "none"
    <2>1. c # None
      OBVIOUS
    <2> QED
      BY <1>3, <2>1 DEF LockInv, NoWriteAfterReturn
  <1>4. WorkInv'
    BY <1>2, <1>3 DEF WorkInv
  <1>5. ASSUME NEW c \in Conns, NEW i \in DOMAIN received[c]
        PROVE  /\ lotID'[c] = lotID[c] /\ Past(c, received[c][i]) /\ received[c][i].by \in Broadcasters
    <2>1. received[c] # <<>>
      OBVIOUS
    <2>2. lotID'[c] = lotID[c]
      BY <2>1 DEF EventTypes
    <2>3. received[c][i] \in Sent
      BY DEF EventTypes
    <2> QED
      BY <2>2, <2>3 DEF PastInv, Sent
  <1>6. PastInv'
    <2> SUFFICES ASSUME NEW c \in Conns, NEW i \in DOMAIN received[c]
        PROVE Past(c, received[c][i])'
      BY DEF PastInv
    <2>1. PICK e : e = received[c][i]
      OBVIOUS
    <2>2. Past(c, e) /\ lotID'[c] = lotID[c] /\ e.by \in Broadcasters
      BY <1>5, <2>1 DEF Past
    <2>3. Past(c, e)'
      BY <1>2, <2>2 DEF Past
    <2> QED
      BY <2>1, <2>3 DEF Past
  <1>7. EventsInOrder'
    BY <1>5 DEF EventsInOrder
  <1> QED
    BY <1>1, <1>4, <1>6, <1>7

LEMMA EventBroadcast ==
  ASSUME EventInv, NEW b \in Broadcasters, NEW l \in Lots, Broadcast(b, l)
  PROVE  EventInv'
  <1> USE DEF EventInv
  <1> DEFINE v == [lot |-> l, n |-> event[b].n + 1]
  <1>1. /\ UNCHANGED <<handler, lotID, received, target>> /\ pc[b] = "idle"
        /\ event' = [event EXCEPT ![b] = v]
    BY DEF Broadcast, connVars
  <1>2. todo' = todo \/ todo' = [todo EXCEPT ![b] = Subscribers(l)]
    BY DEF Broadcast
  <1>3. LockInv'
    BY LockBroadcast
  <1>4. todo[b] = {} /\ target[b] = None
    BY <1>1 DEF LockInv, LoopInv
  <1>5. Subscribers(l) = {c \in Conns : lotID[c] = l /\ handler[c] \in Registered}
    BY DEF LockInv, RegistryIsExact, Registered
  <1>6. v.lot = l /\ v.n = event[b].n + 1 /\ v \in [lot : Lots \cup {None}, n : Nat] /\ event[b].n \in Nat
    BY DEF EventTypes
  <1>7. \A d \in Broadcasters : event'[d] = IF d = b THEN v ELSE event[d]
    BY <1>1 DEF EventTypes
  <1>8. \A d \in Broadcasters : d # b => todo'[d] = todo[d]
    BY <1>2 DEF LockInv, Shapes
  <1>9. todo'[b] \subseteq Subscribers(l)
    BY <1>2, <1>4 DEF LockInv, Shapes
  <1> HIDE DEF v
  <1>10. EventTypes'
    BY <1>1, <1>6 DEF EventTypes
  <1>11. WorkInv'
    <2> SUFFICES ASSUME NEW d \in Broadcasters
        PROVE  /\ \A c \in Conns : c \in todo'[d] \/ c = target'[d] => event'[d].lot = lotID'[c]
               /\ target'[d] \notin todo'[d]
      BY DEF WorkInv
    <2>1. CASE d = b
      BY <1>1, <1>4, <1>5, <1>6, <1>7, <1>9, <2>1
    <2>2. CASE d # b
      BY <1>1, <1>7, <1>8, <2>2 DEF WorkInv
    <2> QED
      BY <2>1, <2>2
  <1>12. PastInv'
    <2> SUFFICES ASSUME NEW c \in Conns, NEW i \in DOMAIN received[c]
        PROVE Past(c, received[c][i])'
      BY <1>1 DEF PastInv
    <2>1. PICK e : e = received[c][i]
      OBVIOUS
    <2>2. e \in Sent /\ Past(c, e)
      BY <2>1 DEF EventTypes, PastInv
    <2>3. e.by \in Broadcasters /\ e.n \in Nat
      BY <2>2 DEF Sent
    <2>4. Past(c, e)'
      <3>1. CASE e.by = b
        <4>1. e.n <= event[b].n /\ event'[b].n = event[b].n + 1
          BY <1>6, <1>7, <2>2, <3>1 DEF Past
        <4>2. e.n < event'[b].n
          BY <1>6, <2>3, <4>1
        <4> QED
          BY <1>1, <2>2, <2>3, <3>1, <4>1, <4>2, <1>6 DEF Past
      <3>2. CASE e.by # b
        BY <1>1, <1>7, <1>8, <2>2, <2>3, <3>2 DEF Past
      <3> QED
        BY <3>1, <3>2
    <2> QED
      BY <1>1, <2>1, <2>4 DEF Past
  <1>13. EventsInOrder'
    BY <1>1 DEF EventsInOrder
  <1> QED
    BY <1>3, <1>10, <1>11, <1>12, <1>13

\* The only step that hands a client an event.
LEMMA EventDeliver ==
  ASSUME EventInv, NEW b \in Broadcasters, NextConn(b), LockInv',
         NEW c \in Conns, c = target[b],
         received' = [received EXCEPT ![c] = Append(received[c], Message(b))]
  PROVE  EventInv'
  <1> USE DEF EventInv
  <1>1. PICK m : m = Message(b)
    OBVIOUS
  <1>2. /\ UNCHANGED <<handler, lotID, event, todo>>
        /\ target' = [target EXCEPT ![b] = None]
    BY DEF NextConn
  <1>3. \A d \in Broadcasters : target'[d] = IF d = b THEN None ELSE target[d]
    BY <1>2 DEF LockInv, Shapes
  <1>4. handler[c] \in Registered /\ lotID[c] \in Lots /\ event[b].lot = lotID[c]
    <2>1. c # None
      OBVIOUS
    <2> QED
      BY <2>1 DEF LockInv, NoWriteAfterReturn, Lotted, WorkInv, Registered
  <1>5. m \in Sent /\ m.by = b /\ m.lot = lotID[c] /\ m.n = event[b].n
    BY <1>1, <1>4 DEF Message, Sent, EventTypes
  <1> DEFINE len == Len(received[c])
  <1>7. /\ received[c] \in Seq(Sent) /\ len \in Nat /\ DOMAIN received[c] = 1..len
        /\ received'[c] = Append(received[c], m) /\ received'[c] \in Seq(Sent)
        /\ DOMAIN received'[c] = 1..(len + 1) /\ received'[c][len + 1] = m
        /\ \A i \in 1..len : received'[c][i] = received[c][i]
        /\ \A d \in Conns : d # c => received'[d] = received[d]
    BY <1>1, <1>5 DEF EventTypes
  <1> HIDE DEF len
  <1>8. EventTypes'
    <2>1. received' \in [Conns -> Seq(Sent)]
      BY <1>1, <1>7 DEF EventTypes
    <2> QED
      BY <1>2, <1>4, <1>7, <2>1 DEF EventTypes, Registered
  <1>9. WorkInv'
    BY <1>2, <1>3 DEF WorkInv, LockInv, Shapes
  <1>10. ASSUME NEW d \in Conns, NEW e \in Sent, Past(d, e) PROVE Past(d, e)'
    BY <1>2, <1>3, <1>10 DEF Past, Sent
  <1>11. Past(c, m)'
    <2>1. c \notin todo[b] /\ target'[b] = None /\ c # None /\ event[b].n \in Nat
      BY <1>3 DEF WorkInv, EventTypes
    <2> QED
      BY <1>2, <1>5, <2>1 DEF Past
  <1>12. PastInv'
    <2> SUFFICES ASSUME NEW d \in Conns, NEW i \in DOMAIN received'[d]
        PROVE Past(d, received[d][i])'
      BY DEF PastInv
    <2>1. CASE d = c /\ i = len + 1
      BY <1>7, <1>11, <2>1 DEF Past
    <2>2. CASE ~(d = c /\ i = len + 1)
      <3>1. i \in DOMAIN received[d] /\ received'[d][i] = received[d][i]
        BY <1>7, <2>2
      <3>2. PICK e : e = received[d][i]
        OBVIOUS
      <3>3. e \in Sent /\ Past(d, e)
        BY <3>1, <3>2 DEF EventTypes, PastInv
      <3>4. Past(d, e)'
        BY <1>10, <3>3
      <3> QED
        BY <3>1, <3>2, <3>4 DEF Past
    <2> QED
      BY <2>1, <2>2
  <1>13. EventsInOrder'
    <2> SUFFICES ASSUME NEW d \in Conns, NEW i \in DOMAIN received'[d]
        PROVE  /\ received'[d][i].lot = lotID'[d]
               /\ \A j \in 1..(i - 1) :
                    received'[d][j].by = received'[d][i].by => received'[d][j].n < received'[d][i].n
      BY DEF EventsInOrder
    <2>1. CASE d # c
      BY <1>2, <1>7, <2>1 DEF EventsInOrder
    <2>2. CASE d = c /\ i \in 1..len
      <3>1. received'[c][i] = received[c][i] /\ \A j \in 1..(i - 1) : received'[c][j] = received[c][j]
        BY <1>7, <2>2
      <3>2. /\ received[c][i].lot = lotID[c]
            /\ \A j \in 1..(i - 1) :
                 received[c][j].by = received[c][i].by => received[c][j].n < received[c][i].n
        BY <1>7, <2>2 DEF EventsInOrder
      <3> QED
        BY <1>2, <2>2, <3>1, <3>2
    <2>3. CASE d = c /\ i = len + 1
      <3>1. received'[c][i] = m
        BY <1>7, <2>3
      <3>2. ASSUME NEW j \in 1..(i - 1), received'[c][j].by = b
            PROVE  received'[c][j].n < m.n
        <4>1. PICK e : e = received[c][j]
          OBVIOUS
        <4>2. j \in DOMAIN received[c] /\ received'[c][j] = e
          BY <1>7, <2>3, <4>1
        <4>3. Past(c, e) /\ e.by = b
          BY <3>2, <4>1, <4>2 DEF PastInv
        <4>4. e.n < event[b].n
          BY <4>3 DEF Past
        <4> QED
          BY <1>5, <4>2, <4>4
      <3> QED
        BY <1>2, <1>5, <2>3, <3>1, <3>2
    <2> QED
      BY <1>7, <2>1, <2>2, <2>3
  <1> QED
    BY <1>8, <1>9, <1>12, <1>13

LEMMA EventStep == EventInv /\ [Next]_vars => EventInv'
  <1> SUFFICES ASSUME EventInv, [Next]_vars PROVE EventInv'
    OBVIOUS
  <1> USE DEF EventInv
  <1>1. LockInv'
    BY LockStep
  <1>2. /\ \A b \in Broadcasters : target[b] \notin todo[b]
        /\ handler \in [Conns -> {"none", "subscribing", "reading", "leaving", "returned"}]
        /\ todo \in [Broadcasters -> SUBSET Conns]
        /\ target \in [Broadcasters -> Conns \cup {None}] /\ None \notin Conns
    BY DEF WorkInv, LockInv, Shapes
  <1>3. ASSUME UNCHANGED <<event, received, todo, target>>,
               \A c \in Conns : handler'[c] = "none" => handler[c] = "none",
               \A c \in Conns : lotID'[c] = lotID[c] \/ handler[c] = "none"
        PROVE  EventInv'
    BY <1>1, <1>2, <1>3, EventQuiet
  <1>4. CASE UNCHANGED vars
    BY <1>3, <1>4 DEF vars, connVars, callVars
  <1>5. ASSUME NEW c \in Conns, Upgrade(c) PROVE EventInv'
    <2>1. /\ UNCHANGED <<event, received, todo, target>> /\ handler[c] = "none"
          /\ \A d \in Conns : handler'[d] = "none" => handler[d] = "none"
      BY <1>2, <1>5 DEF Upgrade, callVars
    <2>2. \A d \in Conns : lotID'[d] = lotID[d] \/ handler[d] = "none"
      <3>1. lotID' = lotID \/ \E l \in Lots : lotID' = [lotID EXCEPT ![c] = l]
        BY <1>5 DEF Upgrade
      <3> QED
        BY <2>1, <3>1 DEF LockInv, Shapes
    <2> QED
      BY <1>3, <2>1, <2>2
  <1>6. ASSUME NEW c \in Conns, HandlerStep(c) \/ Leave(c) \/ Stall(c) PROVE EventInv'
    <2>1. UNCHANGED <<event, received, todo, target, lotID>>
      BY <1>6 DEF HandlerStep, AskLock, Subscribe, ReadFails, Unsubscribe, Leave, Stall, ClientMoves,
                  connVars, callVars
    <2>2. \A d \in Conns : handler'[d] = "none" => handler[d] = "none"
      BY <1>2, <1>6 DEF HandlerStep, AskLock, Subscribe, ReadFails, Unsubscribe, Leave, Stall,
                        ClientMoves, connVars
    <2> QED
      BY <1>3, <2>1, <2>2
  <1>7. ASSUME NEW b \in Broadcasters, NEW c \in Conns, BeginWrite(b, c) PROVE EventInv'
    <2>1. /\ UNCHANGED <<event, received, handler, lotID>> /\ c \in todo[b]
          /\ todo' = [todo EXCEPT ![b] = todo[b] \ {c}] /\ target' = [target EXCEPT ![b] = c]
      BY <1>7 DEF BeginWrite, connVars
    <2>2. \A d \in Broadcasters :
            /\ todo'[d] \subseteq todo[d]
            /\ target'[d] \in todo[d] \cup {target[d], None} /\ target'[d] \notin todo'[d]
      BY <1>2, <2>1
    <2> QED
      BY <1>1, <2>1, <2>2, EventQuiet
  <1>8. ASSUME NEW b \in Broadcasters, NextConn(b), received' = received PROVE EventInv'
    <2>1. /\ UNCHANGED <<event, handler, lotID, todo>> /\ target' = [target EXCEPT ![b] = None]
      BY <1>8 DEF NextConn
    <2>2. \A d \in Broadcasters :
            /\ todo'[d] \subseteq todo[d]
            /\ target'[d] \in todo[d] \cup {target[d], None} /\ target'[d] \notin todo'[d]
      BY <1>2, <2>1
    <2> QED
      BY <1>1, <1>8, <2>1, <2>2, EventQuiet
  <1>9. ASSUME NEW b \in Broadcasters, WriteSucceeds(b) PROVE EventInv'
    <2>1. PICK c \in Conns : c = target[b]
      BY <1>2, <1>9 DEF WriteSucceeds
    <2>2. CASE received' = received
      BY <1>8, <1>9, <2>2 DEF WriteSucceeds
    <2>3. CASE received' = [received EXCEPT ![c] = Append(received[c], Message(b))]
      BY <1>1, <1>9, <2>1, <2>3, EventDeliver DEF WriteSucceeds
    <2> QED
      BY <1>9, <2>1, <2>2, <2>3 DEF WriteSucceeds
  <1>10. ASSUME NEW b \in Broadcasters, WriteFails(b) PROVE EventInv'
    BY <1>8, <1>10 DEF WriteFails
  <1>11. ASSUME NEW b \in Broadcasters, Return(b) \/ HandlerPanics(b) PROVE EventInv'
    <2>1. /\ UNCHANGED <<event, received, handler, lotID>>
          /\ todo' = [todo EXCEPT ![b] = {}] /\ target' = [target EXCEPT ![b] = None]
      BY <1>11 DEF Return, HandlerPanics, Unlocked, connVars
    <2>2. \A d \in Broadcasters :
            /\ todo'[d] \subseteq todo[d]
            /\ target'[d] \in todo[d] \cup {target[d], None} /\ target'[d] \notin todo'[d]
      BY <1>2, <2>1
    <2> QED
      BY <1>1, <2>1, <2>2, EventQuiet
  <1>12. ASSUME NEW b \in Broadcasters, CloserPanics(b) PROVE EventInv'
    <2>1. /\ UNCHANGED <<event, received, lotID>>
          /\ \A c \in Conns : handler'[c] = "returned"
          /\ \A d \in Broadcasters : todo'[d] = {} /\ target'[d] = None
      BY <1>12 DEF CloserPanics
    <2> QED
      BY <1>1, <2>1, EventQuiet
  <1>13. ASSUME NEW b \in Broadcasters, NEW l \in Lots, Broadcast(b, l) PROVE EventInv'
    BY <1>13, EventBroadcast
  <1> QED
    BY <1>4, <1>5, <1>6, <1>7, <1>9, <1>10, <1>11, <1>12, <1>13 DEF Next, CallStep

LEMMA EventInvariant == Spec => []EventInv
  BY EventInit, EventStep, PTL DEF Spec

\* No client gets an event of another lot, an event twice, or the two events of
\* a bid in the wrong order (engine.go:131-147, websocket.go:66-81).
THEOREM InOrder == Spec => []EventsInOrder
  BY EventInvariant, PTL DEF EventInv

-----------------------------------------------------------------------------
(* What clients do not miss. *)

\* Why a connection may be behind its broadcast, or that it is not.
Served(b, c) ==
  \/ client[c] = "left" \/ ~open[c] \/ c \in spoiled
  \/ \E i \in DOMAIN received[c] : received[c][i] = Message(b)

Passed(b) == Subscribers(event[b].lot) \ (todo[b] \cup {target[b]})

DeliveredInv ==
  /\ client \in [Conns -> {"reading", "stalled", "left"}] /\ open \in [Conns -> BOOLEAN]
  /\ \A b \in Broadcasters : b \in clashing => target[b] \in spoiled \ {None}
  /\ \A b \in Broadcasters : pc[b] = "writing" => \A c \in Passed(b) : Served(b, c)

HubInv == EventInv /\ DeliveredInv

LEMMA DeliveredInit == Init => DeliveredInv
  BY DEF Init, DeliveredInv

\* The map stands still while a broadcast is in its loop; what was served stays so.
LEMMA DeliveredQuiet ==
  ASSUME HubInv, NEW b \in Broadcasters, pc[b] = "writing",
         subscriptions' = subscriptions, event'[b] = event[b],
         NEW c \in Passed(b),
         client[c] = "left" => client'[c] = "left", ~open[c] => ~open'[c],
         spoiled \subseteq spoiled',
         \/ received'[c] = received[c]
         \/ \E m : received'[c] = Append(received[c], m) /\ received[c] \in Seq(Sent) /\ m \in Sent
  PROVE  Served(b, c)'
  <1>1. Served(b, c)
    BY DEF HubInv, DeliveredInv
  <1>2. CASE client[c] = "left" \/ ~open[c] \/ c \in spoiled
    BY <1>2 DEF Served
  <1>3. ASSUME NEW i \in DOMAIN received[c], received[c][i] = Message(b)
        PROVE  Served(b, c)'
    <2>1. Message(b)' = Message(b)
      BY DEF Message
    <2>2. i \in DOMAIN received'[c] /\ received'[c][i] = received[c][i]
      <3>1. CASE received'[c] = received[c]
        BY <3>1
      <3>2. ASSUME NEW m, received'[c] = Append(received[c], m), received[c] \in Seq(Sent), m \in Sent
            PROVE  i \in DOMAIN received'[c] /\ received'[c][i] = received[c][i]
        BY <3>2
      <3> QED
        BY <3>1, <3>2
    <2> QED
      BY <1>3, <2>1, <2>2 DEF Served
  <1> QED
    BY <1>1, <1>2, <1>3 DEF Served

\* The same for all broadcasts at once, of a step that passes no connection.
LEMMA DeliveredKept ==
  ASSUME HubInv, subscriptions' = subscriptions,
         client' \in [Conns -> {"reading", "stalled", "left"}], open' \in [Conns -> BOOLEAN],
         \A c \in Conns : client[c] = "left" => client'[c] = "left",
         \A c \in Conns : handler[c] \in Registered /\ ~open[c] => ~open'[c],
         spoiled \subseteq spoiled', received' = received,
         \A b \in Broadcasters : b \in clashing' => target'[b] \in spoiled' \ {None},
         \A b \in Broadcasters : pc'[b] = "writing" =>
           /\ pc[b] = "writing" /\ event'[b] = event[b]
           /\ todo[b] \cup {target[b]} \subseteq todo'[b] \cup {target'[b], None}
  PROVE  DeliveredInv'
  <1> SUFFICES ASSUME NEW b \in Broadcasters, pc'[b] = "writing", NEW c \in Passed(b)'
      PROVE Served(b, c)'
    BY DEF DeliveredInv
  <1>1. pc[b] = "writing" /\ event'[b] = event[b]
    OBVIOUS
  <1>2. event[b].lot \in Lots \cup {None} /\ None \notin Conns
    BY DEF HubInv, EventInv, EventTypes
  <1>3. c \in Subscribers(event[b].lot)
    BY <1>1 DEF Passed, Subscribers
  <1>4. c \in Conns /\ handler[c] \in Registered
    BY <1>2, <1>3 DEF HubInv, EventInv, LockInv, Shapes, RegistryIsExact, Registered, Subscribers
  <1>5. c \in Passed(b)
    <2>1. c \notin todo'[b] /\ c # target'[b] /\ c # None
      BY <1>2, <1>4 DEF Passed
    <2>2. todo[b] \cup {target[b]} \subseteq todo'[b] \cup {target'[b], None}
      OBVIOUS
    <2> QED
      BY <1>3, <2>1, <2>2 DEF Passed
  <1> QED
    BY <1>1, <1>4, <1>5, DeliveredQuiet

LEMMA DeliveredWrite ==
  ASSUME HubInv, NEW b \in Broadcasters, WriteSucceeds(b) \/ WriteFails(b)
  PROVE  DeliveredInv'
  <1> USE DEF HubInv
  <1>1. /\ UNCHANGED <<subscriptions, client, event, pc, todo, spoiled, handler>>
        /\ target' = [target EXCEPT ![b] = None] /\ clashing' = clashing \ {b}
        /\ target[b] # None
    BY DEF WriteSucceeds, WriteFails, NextConn
  <1>2. /\ target \in [Broadcasters -> Conns \cup {None}] /\ None \notin Conns
        /\ event[b].lot \in Lots \cup {None}
        /\ client \in [Conns -> {"reading", "stalled", "left"}] /\ open \in [Conns -> BOOLEAN]
        /\ received \in [Conns -> Seq(Sent)]
    BY DEF EventInv, LockInv, Shapes, EventTypes, DeliveredInv
  <1>3. PICK a \in Conns : a = target[b]
    BY <1>1, <1>2
  <1>4. PICK m : m = Message(b)
    OBVIOUS
  <1>5. /\ handler[a] \in Registered /\ event[b].lot = lotID[a] /\ lotID[a] \in Lots
    BY <1>1, <1>3 DEF EventInv, LockInv, NoWriteAfterReturn, Lotted, WorkInv, Registered
  <1>6. m \in Sent
    BY <1>4, <1>5 DEF Message, Sent, EventInv, EventTypes
  <1>7. \/ open' = open /\ received' = [received EXCEPT ![a] = Append(received[a], m)]
        \/ open' = open /\ received' = received /\ (client[a] = "left" \/ b \in clashing)
        \/ open' = [open EXCEPT ![a] = FALSE] /\ received' = received
    BY <1>3, <1>4 DEF WriteSucceeds, WriteFails
  <1>8. Served(b, a)'
    <2>1. CASE received' = [received EXCEPT ![a] = Append(received[a], m)]
      <3>1. received'[a] = Append(received[a], m) /\ received[a] \in Seq(Sent)
        BY <1>2, <2>1
      <3>2. \E i \in DOMAIN received'[a] : received'[a][i] = m
        <4>1. Len(received[a]) + 1 \in DOMAIN received'[a] /\ received'[a][Len(received[a]) + 1] = m
          BY <1>6, <3>1
        <4> QED
          BY <4>1
      <3>3. Message(b)' = m
        BY <1>1, <1>4 DEF Message
      <3> QED
        BY <3>2, <3>3 DEF Served
    <2>2. CASE open' = [open EXCEPT ![a] = FALSE]
      BY <1>2, <2>2 DEF Served
    <2>3. CASE client[a] = "left" \/ b \in clashing
      BY <1>1, <1>3, <2>3 DEF Served, DeliveredInv
    <2> QED
      BY <1>7, <2>1, <2>2, <2>3
  <1>9. /\ client' \in [Conns -> {"reading", "stalled", "left"}] /\ open' \in [Conns -> BOOLEAN]
        /\ \A d \in Broadcasters : d \in clashing' => target'[d] \in spoiled' \ {None}
    BY <1>1, <1>2, <1>7 DEF DeliveredInv
  <1>10. ASSUME NEW d \in Broadcasters, pc'[d] = "writing", NEW c \in Passed(d)'
         PROVE  Served(d, c)'
    <2>1. pc[d] = "writing" /\ event'[d] = event[d] /\ event[d].lot \in Lots \cup {None}
      BY <1>1, <1>10 DEF EventInv, EventTypes
    <2>2. c \in Subscribers(event[d].lot) /\ c \notin todo[d] /\ c # target'[d]
      BY <1>1 DEF Passed, Subscribers
    <2>3. c \in Conns
      BY <2>1, <2>2 DEF EventInv, LockInv, Shapes, RegistryIsExact, Subscribers
    <2>4. CASE d = b /\ c = a
      BY <1>8, <2>4
    <2>5. CASE ~(d = b /\ c = a)
      <3>1. c # target[d]
        BY <1>1, <1>2, <1>3, <2>2, <2>5
      <3>2. c \in Passed(d)
        BY <2>2, <3>1 DEF Passed
      <3>3. ~open[c] => ~open'[c]
        BY <1>2, <1>7, <2>3
      <3>4. \/ received'[c] = received[c]
            \/ \E e : received'[c] = Append(received[c], e) /\ received[c] \in Seq(Sent) /\ e \in Sent
        BY <1>2, <1>6, <1>7, <2>3
      <3>5. client[c] = "left" => client'[c] = "left"
        BY <1>1
      <3> QED
        BY <1>1, <2>1, <3>2, <3>3, <3>4, <3>5, DeliveredQuiet
    <2> QED
      BY <2>4, <2>5
  <1> QED
    BY <1>9, <1>10 DEF DeliveredInv

\* A broadcast that begins has everybody on its list still to come.
LEMMA DeliveredBroadcast ==
  ASSUME HubInv, NEW b \in Broadcasters, NEW l \in Lots, Broadcast(b, l)
  PROVE  DeliveredInv'
  <1> USE DEF HubInv
  <1>1. /\ UNCHANGED <<subscriptions, client, open, received, target, clashing, spoiled>>
        /\ pc[b] = "idle" /\ event' = [event EXCEPT ![b] = [lot |-> l, n |-> event[b].n + 1]]
        /\ \/ pc' = pc /\ todo' = todo
           \/ /\ pc' = [pc EXCEPT ![b] = "writing"]
              /\ todo' = [todo EXCEPT ![b] = Subscribers(l)]
    BY DEF Broadcast, connVars, clashVars
  <1>2. /\ DOMAIN event = Broadcasters
        /\ pc \in [Broadcasters -> {"idle", "writing", "dead"}]
        /\ todo \in [Broadcasters -> SUBSET Conns]
    BY DEF EventInv, LockInv, Shapes, EventTypes
  <1>3. ASSUME NEW d \in Broadcasters, pc'[d] = "writing", NEW c \in Passed(d)'
        PROVE  Served(d, c)'
    <2>1. CASE d = b
      <3>1. todo'[b] = Subscribers(l) /\ event'[b].lot = l
        BY <1>1, <1>2, <1>3, <2>1
      <3>2. c \in Subscribers(l) /\ c \notin todo'[b]
        BY <1>1, <2>1, <3>1 DEF Passed, Subscribers
      <3> QED
        BY <3>1, <3>2
    <2>2. CASE d # b
      <3>1. pc[d] = "writing" /\ event'[d] = event[d] /\ todo'[d] = todo[d]
        BY <1>1, <1>2, <1>3, <2>2
      <3>2. c \in Passed(d)
        BY <1>1, <3>1 DEF Passed, Subscribers
      <3> QED
        BY <1>1, <3>1, <3>2, DeliveredQuiet
    <2> QED
      BY <2>1, <2>2
  <1> QED
    BY <1>1, <1>3 DEF DeliveredInv

LEMMA DeliveredBeginWrite ==
  ASSUME HubInv, NEW b \in Broadcasters, NEW c \in Conns, BeginWrite(b, c)
  PROVE  DeliveredInv'
  <1>1. /\ UNCHANGED <<subscriptions, handler, client, open, received, pc, event>>
        /\ target[b] = None
        /\ todo' = [todo EXCEPT ![b] = todo[b] \ {c}] /\ target' = [target EXCEPT ![b] = c]
        /\ \/ clashing' = clashing /\ spoiled' = spoiled
           \/ /\ clashing' = clashing \cup {b} \cup OthersWriting(b, c)
              /\ spoiled' = spoiled \cup {c}
    BY DEF BeginWrite, connVars, clashVars
  <1>2. /\ todo \in [Broadcasters -> SUBSET Conns]
        /\ target \in [Broadcasters -> Conns \cup {None}] /\ None \notin Conns
    BY DEF HubInv, EventInv, LockInv, Shapes
  <1>3. \A d \in Broadcasters : d \in clashing => target[d] \in spoiled \ {None}
    BY DEF HubInv, DeliveredInv
  <1>4. \A d \in Broadcasters : d \in clashing' => target'[d] \in spoiled' \ {None}
    BY <1>1, <1>2, <1>3 DEF OthersWriting
  <1>5. \A d \in Broadcasters :
          todo[d] \cup {target[d]} \subseteq todo'[d] \cup {target'[d], None}
    BY <1>1, <1>2
  <1>6. spoiled \subseteq spoiled'
    BY <1>1
  <1>7. /\ client' \in [Conns -> {"reading", "stalled", "left"}] /\ open' \in [Conns -> BOOLEAN]
    BY <1>1 DEF HubInv, DeliveredInv
  <1> QED
    BY <1>1, <1>4, <1>5, <1>6, <1>7, DeliveredKept

LEMMA DeliveredReturn ==
  ASSUME HubInv, NEW b \in Broadcasters, Return(b) \/ HandlerPanics(b)
  PROVE  DeliveredInv'
  <1>1. /\ UNCHANGED <<subscriptions, handler, client, open, received, event, spoiled>>
        /\ todo' = [todo EXCEPT ![b] = {}] /\ target' = [target EXCEPT ![b] = None]
        /\ \/ pc' = [pc EXCEPT ![b] = "idle"] /\ clashing' = clashing /\ target[b] = None
           \/ pc' = [pc EXCEPT ![b] = "dead"] /\ clashing' = clashing \ {b}
    BY DEF Return, HandlerPanics, Unlocked, connVars, clashVars
  <1>2. /\ todo \in [Broadcasters -> SUBSET Conns]
        /\ target \in [Broadcasters -> Conns \cup {None}] /\ None \notin Conns
        /\ pc \in [Broadcasters -> {"idle", "writing", "dead"}]
    BY DEF HubInv, EventInv, LockInv, Shapes
  <1>3. \A d \in Broadcasters : d \in clashing => target[d] \in spoiled \ {None}
    BY DEF HubInv, DeliveredInv
  <1>4. \A d \in Broadcasters : d \in clashing' => target'[d] \in spoiled' \ {None}
    BY <1>1, <1>2, <1>3
  <1>5. \A d \in Broadcasters : pc'[d] = "writing" =>
          /\ pc[d] = "writing"
          /\ todo[d] \cup {target[d]} \subseteq todo'[d] \cup {target'[d], None}
    BY <1>1, <1>2
  <1>6. /\ client' \in [Conns -> {"reading", "stalled", "left"}] /\ open' \in [Conns -> BOOLEAN]
    BY <1>1 DEF HubInv, DeliveredInv
  <1> QED
    BY <1>1, <1>4, <1>5, <1>6, DeliveredKept

\* The map changes only while nobody is in the loop.
LEMMA DeliveredNobodyWrites ==
  ASSUME HubInv, UNCHANGED <<client, pc, target, clashing, spoiled>>, readers = {},
         open' \in [Conns -> BOOLEAN]
  PROVE  DeliveredInv'
  <1>1. \A b \in Broadcasters : pc'[b] # "writing"
    BY DEF HubInv, EventInv, LockInv, LoopInv
  <1> QED
    BY <1>1 DEF HubInv, DeliveredInv

LEMMA DeliveredStep == HubInv /\ [Next]_vars => DeliveredInv'
  <1> SUFFICES ASSUME HubInv, [Next]_vars PROVE DeliveredInv'
    OBVIOUS
  <1>1. /\ client \in [Conns -> {"reading", "stalled", "left"}] /\ open \in [Conns -> BOOLEAN]
        /\ handler \in [Conns -> {"none", "subscribing", "reading", "leaving", "returned"}]
        /\ \A b \in Broadcasters : b \in clashing => target[b] \in spoiled \ {None}
    BY DEF HubInv, EventInv, LockInv, Shapes, DeliveredInv
  <1>2. ASSUME UNCHANGED <<subscriptions, received, pc, event, todo, target, clashing, spoiled>>,
               client' \in [Conns -> {"reading", "stalled", "left"}],
               open' \in [Conns -> BOOLEAN],
               \A c \in Conns : client[c] = "left" => client'[c] = "left",
               \A c \in Conns : handler[c] \in Registered /\ ~open[c] => ~open'[c]
        PROVE  DeliveredInv'
    BY <1>1, <1>2, DeliveredKept
  <1>3. CASE UNCHANGED vars
    BY <1>1, <1>2, <1>3 DEF vars, connVars, callVars, clashVars
  <1>4. ASSUME NEW c \in Conns, Upgrade(c) PROVE DeliveredInv'
    <2>1. /\ UNCHANGED <<subscriptions, received, pc, event, todo, target, clashing, spoiled, client>>
          /\ handler[c] = "none"
          /\ open' = open \/ open' = [open EXCEPT ![c] = TRUE]
      BY <1>4 DEF Upgrade, callVars, clashVars
    <2>2. /\ open' \in [Conns -> BOOLEAN]
          /\ \A d \in Conns : handler[d] \in Registered /\ ~open[d] => ~open'[d]
      BY <1>1, <2>1 DEF Registered
    <2> QED
      BY <1>1, <1>2, <2>1, <2>2
  <1>5. ASSUME NEW c \in Conns, AskLock(c) \/ ReadFails(c) PROVE DeliveredInv'
    <2>1. UNCHANGED <<subscriptions, received, pc, event, todo, target, clashing, spoiled, client, open>>
      BY <1>5 DEF AskLock, ReadFails, connVars, callVars, clashVars
    <2> QED
      BY <1>1, <1>2, <2>1
  <1>6. ASSUME NEW c \in Conns, Leave(c) \/ Stall(c) PROVE DeliveredInv'
    <2>1. /\ UNCHANGED <<subscriptions, received, pc, event, todo, target, clashing, spoiled, open>>
          /\ \/ client' = [client EXCEPT ![c] = "left"]
             \/ client[c] = "reading" /\ client' = [client EXCEPT ![c] = "stalled"]
      BY <1>6 DEF Leave, Stall, ClientMoves, callVars, clashVars
    <2>2. /\ client' \in [Conns -> {"reading", "stalled", "left"}]
          /\ \A d \in Conns : client[d] = "left" => client'[d] = "left"
      BY <1>1, <2>1
    <2> QED
      BY <1>1, <1>2, <2>1, <2>2
  <1>7. ASSUME NEW c \in Conns, Subscribe(c) \/ Unsubscribe(c) PROVE DeliveredInv'
    <2>1. /\ UNCHANGED <<client, pc, target, clashing, spoiled>> /\ readers = {}
          /\ open' = open \/ open' = [open EXCEPT ![c] = FALSE]
      BY <1>7 DEF Subscribe, Unsubscribe, HasLock, callVars, clashVars
    <2> QED
      BY <1>1, <2>1, DeliveredNobodyWrites
  <1>8. ASSUME NEW b \in Broadcasters, CloserPanics(b) PROVE DeliveredInv'
    <2>1. /\ client' = client /\ open' = [c \in Conns |-> FALSE] /\ clashing' = {}
          /\ \A d \in Broadcasters : pc'[d] = "dead"
      BY <1>8 DEF CloserPanics
    <2> QED
      BY <1>1, <2>1 DEF DeliveredInv
  <1> QED
    BY <1>3, <1>4, <1>5, <1>6, <1>7, <1>8, DeliveredWrite, DeliveredReturn, DeliveredBeginWrite,
       DeliveredBroadcast DEF Next, HandlerStep, CallStep

LEMMA HubInvariant == Spec => []HubInv
  BY EventInit, EventStep, DeliveredInit, DeliveredStep, PTL DEF Spec, HubInv

LEMMA PassedIsServed == HubInv => PassedMeansDelivered
  BY DEF HubInv, DeliveredInv, PassedMeansDelivered, Passed, Served

\* Whom a broadcast has passed got its event, unless the connection failed by
\* itself: no failure stops the loop before the others (websocket.go:73-80).
THEOREM Delivered == Spec => []PassedMeansDelivered
  BY HubInvariant, PassedIsServed, PTL

-----------------------------------------------------------------------------
(* Types. *)

\* Events are numbered from one, and no number is beyond the broadcasts made.
CountInv ==
  /\ calls \in 0..MaxCalls
  /\ \A b \in Broadcasters : event[b].n <= calls /\ (pc[b] = "writing" => event[b].n >= 1)
  /\ \A c \in Conns : \A i \in DOMAIN received[c] : received[c][i].n >= 1
  /\ clashing \subseteq Broadcasters /\ spoiled \subseteq Conns

LEMMA CountInit == Init => CountInv
  BY DEF Init, CountInv

\* Who broadcasts, who delivers, and that the others leave the events alone.
LEMMA CountQuiet ==
  ASSUME CountInv, event' = event, calls' = calls, received' = received,
         \A b \in Broadcasters : pc'[b] = "writing" => pc[b] = "writing",
         clashing' \subseteq Broadcasters, spoiled' \subseteq Conns
  PROVE  CountInv'
  BY DEF CountInv

LEMMA CountBroadcast ==
  ASSUME EventInv, CountInv, NEW b \in Broadcasters, NEW l \in Lots, Broadcast(b, l)
  PROVE  CountInv'
  <1>1. /\ event \in [Broadcasters -> [lot : Lots \cup {None}, n : Nat]]
        /\ pc \in [Broadcasters -> {"idle", "writing", "dead"}]
        /\ calls \in Nat /\ calls < MaxCalls /\ MaxCalls \in Nat /\ calls' = calls + 1
        /\ received' = received /\ clashing' = clashing /\ spoiled' = spoiled
        /\ event' = [event EXCEPT ![b] = [lot |-> l, n |-> event[b].n + 1]]
        /\ \/ pc' = pc
           \/ pc' = [pc EXCEPT ![b] = "writing"]
    BY DEF Broadcast, EventInv, LockInv, Shapes, EventTypes, CountInv, connVars, clashVars
  <1>2. ASSUME NEW d \in Broadcasters
        PROVE  event'[d].n <= calls' /\ (pc'[d] = "writing" => event'[d].n >= 1)
    <2>1. /\ event[d].n \in Nat /\ event[d].n <= calls
          /\ event[b].n \in Nat /\ event[b].n <= calls
          /\ pc[d] = "writing" => event[d].n >= 1
      BY <1>1 DEF CountInv
    <2>2. CASE d = b
      BY <1>1, <2>1, <2>2
    <2>3. CASE d # b
      <3>1. event'[d] = event[d] /\ pc'[d] = pc[d]
        BY <1>1, <2>3
      <3> QED
        BY <1>1, <2>1, <3>1
    <2> QED
      BY <2>2, <2>3
  <1> QED
    BY <1>1, <1>2 DEF CountInv

LEMMA CountDeliver ==
  ASSUME EventInv, CountInv, NEW b \in Broadcasters, WriteSucceeds(b)
  PROVE  CountInv'
  <1>1. /\ UNCHANGED <<event, calls, pc, spoiled>> /\ clashing' \subseteq Broadcasters
        /\ spoiled' \subseteq Conns
    BY DEF WriteSucceeds, NextConn, CountInv
  <1>2. PICK c \in Conns : c = target[b]
    BY DEF WriteSucceeds, EventInv, LockInv, Shapes
  <1>3. CASE received' = received
    BY <1>1, <1>3, CountQuiet
  <1>4. CASE received' = [received EXCEPT ![c] = Append(received[c], Message(b))]
    <2>1. received[c] \in Seq(Sent) /\ received \in [Conns -> Seq(Sent)]
      BY DEF EventInv, EventTypes
    <2>2. Message(b).n >= 1
      <3>1. pc[b] = "writing"
        BY DEF WriteSucceeds, EventInv, LockInv, LoopInv
      <3> QED
        BY <3>1 DEF Message, CountInv
    <2>3. ASSUME NEW d \in Conns, NEW i \in DOMAIN received'[d] PROVE received'[d][i].n >= 1
      <3>1. CASE d = c
        <4>1. received'[d] = Append(received[c], Message(b))
          BY <1>4, <2>1, <3>1
        <4>2. /\ DOMAIN Append(received[c], Message(b)) = 1..(Len(received[c]) + 1)
              /\ DOMAIN received[c] = 1..Len(received[c])
              /\ Append(received[c], Message(b))[Len(received[c]) + 1] = Message(b)
              /\ \A j \in 1..Len(received[c]) :
                   Append(received[c], Message(b))[j] = received[c][j]
          BY <2>1
        <4>3. Len(received[c]) \in Nat
          BY <2>1
        <4>4. i \in 1..Len(received[c]) \/ i = Len(received[c]) + 1
          BY <2>3, <4>1, <4>2, <4>3
        <4> QED
          BY <2>2, <4>1, <4>2, <4>4 DEF CountInv
      <3>2. CASE d # c
        BY <1>4, <2>1, <2>3, <3>2 DEF CountInv
      <3> QED
        BY <3>1, <3>2
    <2> QED
      BY <1>1, <2>3 DEF CountInv
  <1> QED
    BY <1>2, <1>3, <1>4 DEF WriteSucceeds

LEMMA CountStep == EventInv /\ CountInv /\ [Next]_vars => CountInv'
  <1> SUFFICES ASSUME EventInv, CountInv, [Next]_vars PROVE CountInv'
    OBVIOUS
  <1>1. /\ clashing \subseteq Broadcasters /\ spoiled \subseteq Conns
        /\ pc \in [Broadcasters -> {"idle", "writing", "dead"}]
    BY DEF CountInv, EventInv, LockInv, Shapes
  <1>2. CASE UNCHANGED vars
    BY <1>1, <1>2, CountQuiet DEF vars, callVars, clashVars
  <1>3. ASSUME NEW c \in Conns, Upgrade(c) \/ HandlerStep(c) \/ Leave(c) \/ Stall(c)
        PROVE  CountInv'
    <2>1. UNCHANGED <<event, calls, received, pc, clashing, spoiled>>
      BY <1>3, Zenon DEF Upgrade, HandlerStep, AskLock, Subscribe, ReadFails, Unsubscribe, Leave,
         Stall, ClientMoves, callVars, clashVars
    <2> QED
      BY <1>1, <2>1, CountQuiet
  <1>4. ASSUME NEW b \in Broadcasters, NEW c \in Conns, BeginWrite(b, c)
        PROVE  CountInv'
    <2>1. /\ UNCHANGED <<event, calls, received, pc>>
          /\ clashing' \subseteq clashing \cup {b} \cup OthersWriting(b, c)
          /\ spoiled' \subseteq spoiled \cup {c}
      BY <1>4 DEF BeginWrite, clashVars
    <2> QED
      BY <1>1, <2>1, CountQuiet DEF OthersWriting
  <1>5. ASSUME NEW b \in Broadcasters,
               WriteFails(b) \/ Return(b) \/ HandlerPanics(b) \/ CloserPanics(b)
        PROVE  CountInv'
    <2>1. /\ UNCHANGED <<event, calls, received>> /\ clashing' \subseteq clashing
          /\ spoiled' = spoiled
      BY <1>5 DEF WriteFails, NextConn, Return, HandlerPanics, CloserPanics, clashVars
    <2>2. \A d \in Broadcasters : pc'[d] = "writing" => pc[d] = "writing"
      BY <1>1, <1>5 DEF WriteFails, NextConn, Return, HandlerPanics, CloserPanics
    <2> QED
      BY <1>1, <2>1, <2>2, CountQuiet
  <1> QED
    BY <1>2, <1>3, <1>4, <1>5, CountBroadcast, CountDeliver DEF Next, CallStep

\* Every variable keeps its type; the read lock is held by exactly the
\* goroutines in the loop of BroadcastToLot (websocket.go:67-68).
THEOREM HubTypes == Spec => []TypeOK
  <1>1. ASSUME HubInv, CountInv PROVE TypeOK
    <2>1. EventInv /\ LockInv /\ Shapes /\ LoopInv /\ RegistryIsExact /\ EventTypes
      BY <1>1 DEF HubInv, EventInv, LockInv
    <2>2. \A l \in DOMAIN subscriptions : subscriptions[l] \subseteq Conns
      <3>1. ASSUME NEW l \in DOMAIN subscriptions PROVE subscriptions[l] \subseteq Conns
        <4>1. l \in Lots /\ subscriptions[l] = Subscribers(l)
          BY <2>1 DEF Shapes, Subscribers
        <4> QED
          BY <2>1, <4>1 DEF RegistryIsExact
      <3> QED
        BY <3>1
    <2>3. ASSUME NEW c \in Conns, NEW i \in DOMAIN received[c] PROVE received[c][i] \in Event
      <3>1. received[c] \in Seq(Sent)
        BY <2>1 DEF EventTypes
      <3>2. received[c][i] \in Sent
        BY <2>3, <3>1
      <3>3. received[c][i].n <= event[received[c][i].by].n
        BY <2>1 DEF EventInv, PastInv, Past
      <3>4. /\ received[c][i].n \in Nat /\ received[c][i].by \in Broadcasters
            /\ received[c][i].lot \in Lots
        BY <3>2 DEF Sent
      <3>5. /\ event[received[c][i].by].n \in Nat /\ event[received[c][i].by].n <= calls
            /\ calls \in 0..MaxCalls /\ received[c][i].n >= 1
        BY <1>1, <2>1, <3>4 DEF CountInv, EventTypes
      <3>6. received[c][i].n \in 1..MaxCalls
        BY <3>3, <3>4, <3>5
      <3> QED
        BY <3>2, <3>4, <3>6 DEF Sent, Event
    <2>4. event \in [Broadcasters -> [lot : Lots \cup {None}, n : 0..MaxCalls]]
      <3>1. ASSUME NEW b \in Broadcasters
            PROVE  event[b] \in [lot : Lots \cup {None}, n : 0..MaxCalls]
        <4>1. /\ event[b] \in [lot : Lots \cup {None}, n : Nat] /\ event[b].n <= calls
              /\ calls \in 0..MaxCalls
          BY <1>1, <2>1 DEF CountInv, EventTypes
        <4>2. event[b].n \in 0..MaxCalls
          BY <4>1
        <4> QED
          BY <4>1, <4>2
      <3> QED
        BY <2>1, <3>1 DEF EventTypes
    <2> QED
      BY <1>1, <2>1, <2>2, <2>3, <2>4 DEF TypeOK, Shapes, LoopInv, HubInv, DeliveredInv, CountInv
  <1> QED
    BY <1>1, CountInit, CountStep, HubInvariant, PTL DEF Spec, HubInv
=============================================================================
