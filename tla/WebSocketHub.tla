---------------------------- MODULE WebSocketHub ----------------------------
(***************************************************************************)
(* WebSocketManager: one HandleWebSocket goroutine per connection, which   *)
(* registers it under its lot, reads until the socket fails and takes it   *)
(* out again, and the goroutines of the engine that call BroadcastToLot.   *)
(* All share one sync.RWMutex.  A write to a connection is two steps, so   *)
(* that two broadcasts, which both hold the read lock, can be writing to   *)
(* the same connection: gorilla/websocket allows one writer at a time, and *)
(* what it then does (deliver, garble, fail, panic) is left open.          *)
(***************************************************************************)
EXTENDS Integers, Sequences

CONSTANTS
  Lots, Conns,
  Broadcasters,   \* goroutines of the engine
  Closers,        \* those started by a timer: a panic there ends the process
  MaxCalls,       \* bound: broadcasts of all goroutines together
  Stalling,       \* connections whose client may stop reading
  None

ASSUME HubAssumption ==
  /\ Closers \subseteq Broadcasters
  /\ Stalling \subseteq Conns
  /\ MaxCalls \in Nat
  /\ None \notin Lots \cup Conns \cup Broadcasters

VARIABLES
  subscriptions,  \* lot id -> set of connections, for the lots that have any
  writer,         \* who holds or has asked for the write lock; readers wait for it
  readers,        \* goroutines that hold the read lock
  handler,        \* where HandleWebSocket is, per connection
  lotID,          \* the lot in the URL of a connection
  open,           \* not closed by the server, per connection
  client,         \* "reading", "stalled" or "left", per connection
  received,       \* what each client got
  pc,             \* "idle", "writing" or "dead", per goroutine
  event,          \* the call a goroutine is in: lot and number
  todo,           \* connections its loop has not reached
  target,         \* the connection it is writing to
  clashing,       \* goroutines whose write overlaps another to the same connection
  spoiled,        \* connections that ever had two writers
  calls           \* broadcasts so far, at most MaxCalls

lockVars   == <<writer, readers>>
connVars   == <<handler, lotID, open, client>>
callVars   == <<pc, event, todo, target, calls>>
clashVars  == <<clashing, spoiled>>
vars == <<subscriptions, lockVars, connVars, received, callVars, clashVars>>

Event == [by : Broadcasters, lot : Lots, n : 1..MaxCalls]

\* Mutant: a broadcast goes to the connections of every lot.
EverySubscriber(l) == UNION {subscriptions[k] : k \in DOMAIN subscriptions}

Subscribers(l) == IF l \in DOMAIN subscriptions THEN subscriptions[l] ELSE {}

Init ==
  /\ subscriptions = <<>>
  /\ writer = None /\ readers = {}
  /\ handler  = [c \in Conns |-> "none"]
  /\ lotID    = [c \in Conns |-> None]
  /\ open     = [c \in Conns |-> FALSE]
  /\ client   = [c \in Conns |-> "reading"]
  /\ received = [c \in Conns |-> <<>>]
  /\ pc       = [b \in Broadcasters |-> "idle"]
  /\ event    = [b \in Broadcasters |-> [lot |-> None, n |-> 0]]
  /\ todo     = [b \in Broadcasters |-> {}]
  /\ target   = [b \in Broadcasters |-> None]
  /\ clashing = {} /\ spoiled = {} /\ calls = 0

-----------------------------------------------------------------------------
(* HandleWebSocket *)

Upgrade(c) ==
  /\ handler[c] = "none"
  /\ \/ /\ handler' = [handler EXCEPT ![c] = "subscribing"]
        /\ open' = [open EXCEPT ![c] = TRUE]
        /\ \E l \in Lots : lotID' = [lotID EXCEPT ![c] = l]
     \/ /\ handler' = [handler EXCEPT ![c] = "returned"]     \* Upgrade fails
        /\ UNCHANGED <<open, lotID>>
  /\ UNCHANGED <<subscriptions, lockVars, client, received, callVars, clashVars>>

\* m.Lock(): one handler at a time announces itself and new readers wait.
AskLock(c) ==
  /\ handler[c] \in {"subscribing", "leaving"}
  /\ writer = None
  /\ writer' = c
  /\ UNCHANGED <<subscriptions, readers, connVars, received, callVars, clashVars>>

\* Mutant: the write lock does not wait for the readers.
HasLockEarly(c) == writer = c

\* The readers that came before are gone: the critical section runs.
HasLock(c) == writer = c /\ readers = {}

Subscribe(c) ==
  /\ handler[c] = "subscribing" /\ HasLock(c)
  /\ subscriptions' = [l \in DOMAIN subscriptions \cup {lotID[c]} |->
                         Subscribers(l) \cup (IF l = lotID[c] THEN {c} ELSE {})]
  /\ writer' = None
  /\ handler' = [handler EXCEPT ![c] = "reading"]
  /\ UNCHANGED <<readers, lotID, open, client, received, callVars, clashVars>>

\* What the client sends is thrown away; only an error ends the loop.
ReadFails(c) ==
  /\ handler[c] = "reading"
  /\ client[c] = "left" \/ ~open[c]
  /\ handler' = [handler EXCEPT ![c] = "leaving"]
  /\ UNCHANGED <<subscriptions, lockVars, lotID, open, client, received, callVars, clashVars>>

\* Mutant: the entry of a lot stays when its last connection goes.
KeepsEmpty(c) == DOMAIN subscriptions

\* The lots that keep their entry when c goes: an empty one is deleted.
Remaining(c) == {l \in DOMAIN subscriptions : subscriptions[l] \ {c} # {}}

Unsubscribe(c) ==
  /\ handler[c] = "leaving" /\ HasLock(c)
  /\ subscriptions' = [l \in Remaining(c) |-> subscriptions[l] \ {c}]
  /\ writer' = None
  /\ handler' = [handler EXCEPT ![c] = "returned"]
  /\ open' = [open EXCEPT ![c] = FALSE]                      \* deferred Close
  /\ UNCHANGED <<readers, lotID, client, received, callVars, clashVars>>

-----------------------------------------------------------------------------
(* The client *)

ClientMoves(c, to) ==
  /\ open[c]
  /\ client' = [client EXCEPT ![c] = to]
  /\ UNCHANGED <<subscriptions, lockVars, handler, lotID, open, received, callVars, clashVars>>

Leave(c) == client[c] # "left" /\ ClientMoves(c, "left")
Stall(c) == c \in Stalling /\ client[c] = "reading" /\ ClientMoves(c, "stalled")

-----------------------------------------------------------------------------
(* BroadcastToLot *)

\* RLock, and return at once when nobody is subscribed.
Broadcast(b, l) ==
  /\ pc[b] = "idle" /\ calls < MaxCalls
  /\ calls' = calls + 1
  /\ writer = None
  /\ event' = [event EXCEPT ![b] = [lot |-> l, n |-> @.n + 1]]
  /\ IF Subscribers(l) = {}
       THEN UNCHANGED <<readers, pc, todo>>
       ELSE /\ readers' = readers \cup {b}
            /\ pc' = [pc EXCEPT ![b] = "writing"]
            /\ todo' = [todo EXCEPT ![b] = Subscribers(l)]
  /\ UNCHANGED <<subscriptions, writer, connVars, received, target, clashVars>>

OthersWriting(b, c) == {d \in Broadcasters \ {b} : target[d] = c}

BeginWrite(b, c) ==
  /\ pc[b] = "writing" /\ target[b] = None
  /\ c \in todo[b]
  /\ todo' = [todo EXCEPT ![b] = @ \ {c}]
  /\ target' = [target EXCEPT ![b] = c]
  /\ IF OthersWriting(b, c) = {}
       THEN UNCHANGED clashVars
       ELSE /\ clashing' = clashing \cup {b} \cup OthersWriting(b, c)
            /\ spoiled' = spoiled \cup {c}
  /\ UNCHANGED <<subscriptions, lockVars, connVars, received, pc, event, calls>>

Message(b) == [by |-> b, lot |-> event[b].lot, n |-> event[b].n]

\* The write is over: the loop goes on, whatever became of it.
NextConn(b) ==
  /\ target' = [target EXCEPT ![b] = None]
  /\ clashing' = clashing \ {b}
  /\ UNCHANGED <<subscriptions, lockVars, handler, lotID, client, pc, event, todo, spoiled, calls>>

\* WriteJSON returns nil: the client gets the message, if it is still there
\* and no second writer mixed its frames into this one.
WriteSucceeds(b) ==
  /\ target[b] # None
  /\ LET c == target[b] IN
       /\ open[c] /\ client[c] # "stalled"
       /\ \/ client[c] = "reading" /\ received' = [received EXCEPT ![c] = Append(@, Message(b))]
          \/ client[c] = "left" /\ UNCHANGED received
          \/ b \in clashing /\ UNCHANGED received
  /\ NextConn(b)
  /\ UNCHANGED open

\* Mutant: the loop returns at the first connection that fails.
StopsAtFailure(b) ==
  /\ target[b] # None
  /\ ~open[target[b]] \/ client[target[b]] = "left" \/ b \in clashing
  /\ open' = [open EXCEPT ![target[b]] = FALSE]
  /\ todo' = [todo EXCEPT ![b] = {}]
  /\ target' = [target EXCEPT ![b] = None]
  /\ clashing' = clashing \ {b}
  /\ UNCHANGED <<subscriptions, lockVars, handler, lotID, client, received, pc, event, spoiled, calls>>

\* WriteJSON returns an error and the connection is closed.
WriteFails(b) ==
  /\ target[b] # None
  /\ LET c == target[b] IN
       /\ ~open[c] \/ client[c] = "left" \/ b \in clashing
       /\ open' = [open EXCEPT ![c] = FALSE]
  /\ NextConn(b)
  /\ UNCHANGED received

\* Mutant: RUnlock is not deferred and is forgotten.
StaysLocked(b) ==
  /\ UNCHANGED readers
  /\ todo' = [todo EXCEPT ![b] = {}]
  /\ target' = [target EXCEPT ![b] = None]

\* The deferred RUnlock of a goroutine that returns or panics.
Unlocked(b) ==
  /\ readers' = readers \ {b}
  /\ todo' = [todo EXCEPT ![b] = {}]
  /\ target' = [target EXCEPT ![b] = None]

\* Mutant: the loop ends with a clean-up under the write lock, which waits
\* for the other readers while they wait for this one.
ReturnsAfterCleanup(b) ==
  /\ pc[b] = "writing" /\ target[b] = None /\ todo[b] = {}
  /\ readers = {b} /\ writer = None
  /\ Unlocked(b)
  /\ pc' = [pc EXCEPT ![b] = "idle"]
  /\ UNCHANGED <<subscriptions, writer, connVars, received, event, clashVars, calls>>

Return(b) ==
  /\ pc[b] = "writing" /\ target[b] = None /\ todo[b] = {}
  /\ Unlocked(b)
  /\ pc' = [pc EXCEPT ![b] = "idle"]
  /\ UNCHANGED <<subscriptions, writer, connVars, received, event, clashVars, calls>>

\* "concurrent write to websocket connection": chi's Recoverer turns it into
\* an answer 500 when the goroutine serves a request.
HandlerPanics(b) ==
  /\ b \in clashing \ Closers
  /\ Unlocked(b)
  /\ pc' = [pc EXCEPT ![b] = "dead"]
  /\ clashing' = clashing \ {b}
  /\ UNCHANGED <<subscriptions, writer, connVars, received, event, spoiled, calls>>

\* Nothing recovers the goroutine of a timer: the process ends and every
\* connection with it.
CloserPanics(b) ==
  /\ b \in clashing \cap Closers
  /\ subscriptions' = <<>> /\ writer' = None /\ readers' = {} /\ clashing' = {}
  /\ pc' = [d \in Broadcasters |-> "dead"]
  /\ todo' = [d \in Broadcasters |-> {}]
  /\ target' = [d \in Broadcasters |-> None]
  /\ handler' = [c \in Conns |-> "returned"]
  /\ open' = [c \in Conns |-> FALSE]
  /\ UNCHANGED <<lotID, client, received, event, spoiled, calls>>

-----------------------------------------------------------------------------
HandlerStep(c) == AskLock(c) \/ Subscribe(c) \/ ReadFails(c) \/ Unsubscribe(c)

CallStep(b) ==
  \/ \E c \in Conns : BeginWrite(b, c)
  \/ WriteSucceeds(b)
  \/ WriteFails(b)
  \/ Return(b)
  \/ HandlerPanics(b)
  \/ CloserPanics(b)

Next ==
  \/ \E c \in Conns : Upgrade(c) \/ HandlerStep(c) \/ Leave(c) \/ Stall(c)
  \/ \E b \in Broadcasters : CallStep(b) \/ \E l \in Lots : Broadcast(b, l)

\* The Go scheduler runs every goroutine that can run; RWMutex lets nobody
\* wait for ever.  Clients owe nothing, nor does anybody owe a broadcast.
Fairness ==
  /\ \A c \in Conns : SF_vars(HandlerStep(c))
  /\ \A b \in Broadcasters : WF_vars(CallStep(b))

Spec == Init /\ [][Next]_vars /\ Fairness

-----------------------------------------------------------------------------
(* Properties *)

\* Every variable keeps its type, and the read lock is held by exactly the
\* goroutines that are in the loop of BroadcastToLot (websocket.go:67-68).
TypeOK ==
  /\ DOMAIN subscriptions \subseteq Lots
  /\ \A l \in DOMAIN subscriptions : subscriptions[l] \subseteq Conns
  /\ writer \in Conns \cup {None}
  /\ handler \in [Conns -> {"none", "subscribing", "reading", "leaving", "returned"}]
  /\ lotID \in [Conns -> Lots \cup {None}]
  /\ open \in [Conns -> BOOLEAN]
  /\ client \in [Conns -> {"reading", "stalled", "left"}]
  /\ \A c \in Conns : \A i \in DOMAIN received[c] : received[c][i] \in Event
  /\ pc \in [Broadcasters -> {"idle", "writing", "dead"}]
  /\ readers = {b \in Broadcasters : pc[b] = "writing"}
  /\ event \in [Broadcasters -> [lot : Lots \cup {None}, n : 0..MaxCalls]]
  /\ todo \in [Broadcasters -> SUBSET Conns]
  /\ target \in [Broadcasters -> Conns \cup {None}]
  /\ clashing \subseteq Broadcasters /\ spoiled \subseteq Conns /\ calls \in 0..MaxCalls

\* The map holds exactly the connections whose handler is in its read loop
\* or waits to take them out, and no entry outlives its last connection:
\* whatever broadcasts, failures and panics come in between, nothing leaks
\* (websocket.go:45-63).
RegistryIsExact ==
  /\ \A l \in Lots :
       Subscribers(l) = {c \in Conns : lotID[c] = l /\ handler[c] \in {"reading", "leaving"}}
  /\ \A l \in DOMAIN subscriptions : subscriptions[l] # {}

\* While a broadcast writes to a connection, or still has it on its list, the
\* handler of that connection has not returned and released it: the read
\* lock is held over the whole loop (websocket.go:67-80).
NoWriteAfterReturn ==
  \A b \in Broadcasters : \A c \in todo[b] \cup ({target[b]} \ {None}) :
    handler[c] \in {"reading", "leaving"}

\* A broadcast that has passed a connection has delivered its event, unless
\* the client left, the connection was closed or two broadcasts wrote to it
\* at once; a failure of one connection costs no other its event
\* (websocket.go:73-80).
PassedMeansDelivered ==
  \A b \in Broadcasters : pc[b] = "writing" =>
    \A c \in Subscribers(event[b].lot) \ (todo[b] \cup {target[b]}) :
      \/ client[c] = "left" \/ ~open[c] \/ c \in spoiled
      \/ \E i \in DOMAIN received[c] : received[c][i] = Message(b)

\* No client gets an event of a lot it did not ask for, an event twice, or
\* two events of one goroutine (the new_bid and lot_extended of a bid) in the
\* wrong order (engine.go:131-147).
EventsInOrder ==
  \A c \in Conns : \A i \in DOMAIN received[c] :
    /\ received[c][i].lot = lotID[c]
    /\ \A j \in 1..(i - 1) :
         received[c][j].by = received[c][i].by => received[c][j].n < received[c][i].n

SomeoneStalls == \E c \in Conns : client[c] = "stalled"

\* A broadcast ends, unless a client stops reading: WriteJSON has no deadline
\* and keeps the read lock for as long as it lasts (websocket.go:67-74).
BroadcastsEnd ==
  \A b \in Broadcasters : pc[b] = "writing" ~> (pc[b] # "writing" \/ SomeoneStalls)

\* A handler whose client left takes it out of the map and returns, although
\* it waits for every broadcast in progress, unless one of them hangs on a
\* client that stopped reading (websocket.go:58-63).
LeaversForgotten ==
  \A c \in Conns : client[c] = "left" ~> (handler[c] = "returned" \/ SomeoneStalls)
=============================================================================
