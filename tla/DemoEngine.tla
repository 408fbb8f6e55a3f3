----------------------------- MODULE DemoEngine -----------------------------
(***************************************************************************)
(* The auction engine of the browser demo (web/src).  There is no server:  *)
(* each open tab runs the engine on its own copy of the state, read from   *)
(* localStorage once and written back whole at every change.  JavaScript   *)
(* runs a task to its end, so an action is a task: a click, a tick of the  *)
(* bots, a timer.  A microtask runs before the tab's next task.            *)
(***************************************************************************)
EXTENDS Integers, FiniteSets, Sequences

CONSTANTS
  Tabs, Lots, Users, Nobody,
  Start, MinStep,
  Window,      \* SNIPING_WINDOW_MS
  Extension,   \* SNIPING_EXTENSION_MS
  MaxDelay,    \* longest setTimeout: 2147483000 ms
  MaxPrice,    \* bound of the amounts
  MaxTime,     \* bound of the clock
  Never

ASSUME DemoAssumption ==
  /\ Start \in Nat /\ MinStep \in Nat \ {0} /\ MaxPrice \in Nat /\ Start <= MaxPrice
  /\ Window \in Nat /\ Extension \in Nat \ {0} /\ MaxDelay \in Nat \ {0} /\ MaxTime \in Nat
  /\ Never \notin Nat

VARIABLES
  now,
  disk,       \* localStorage: lots and bids
  cache,      \* tab -> its copy, or Nobody while the tab is closed
  timers,     \* tab -> lot -> when the timeout is due, or Never
  micro       \* tab -> lots whose closeLot is queued as a microtask

vars == <<now, disk, cache, timers, micro>>

Amounts == Start..MaxPrice

NewLot(closing) ==
  [status |-> "active", price |-> Start, closing |-> closing, winner |-> Nobody]

NoTimers == [l \in Lots |-> Never]

\* An earlier visit may have left lots.
Init ==
  /\ now = 0
  /\ \E there \in SUBSET Lots, closing \in 0..MaxTime :
       disk = [lots |-> [l \in there |-> NewLot(closing)], bids |-> [l \in Lots |-> <<>>]]
  /\ cache  = [t \in Tabs |-> Nobody]
  /\ timers = [t \in Tabs |-> NoTimers]
  /\ micro  = [t \in Tabs |-> {}]

-----------------------------------------------------------------------------
(* The store *)

Loaded(t) == cache[t] # Nobody
Idle(t)   == Loaded(t) /\ micro[t] = {}

Known(t)  == DOMAIN cache[t].lots
Lot(t, l) == cache[t].lots[l]

\* upsertLot, addBid: the copy changes, and all of it is saved.
Save(t, state) ==
  /\ cache' = [cache EXCEPT ![t] = state]
  /\ disk' = state

WithLot(state, l, lot) ==
  [state EXCEPT !.lots = [k \in DOMAIN @ \cup {l} |-> IF k = l THEN lot ELSE @[k]]]

Highest(bids) ==
  CHOOSE i \in DOMAIN bids : \A j \in DOMAIN bids :
    bids[j].amount < bids[i].amount \/ (bids[j].amount = bids[i].amount /\ i <= j)

\* highestBid: the first of the dearest.
TopBidder(bids) == IF bids = <<>> THEN Nobody ELSE bids[Highest(bids)].user

-----------------------------------------------------------------------------
(* Timers *)

Least(m, n) == IF m <= n THEN m ELSE n

\* Mutant: the closing time itself is the delay.
Absolute(closing) == now + closing

Due(closing) == now + Least(closing - now, MaxDelay)

\* scheduleClose
ScheduleClose(t, l, closing) ==
  IF closing <= now
    THEN /\ micro' = [micro EXCEPT ![t] = @ \cup {l}]
         /\ timers' = [timers EXCEPT ![t][l] = Never]
    ELSE /\ timers' = [timers EXCEPT ![t][l] = Due(closing)]
         /\ UNCHANGED micro

-----------------------------------------------------------------------------
(* Tabs *)

Active == {l \in DOMAIN disk.lots : disk.lots[l].status = "active"}

\* Mutant: lots that are overdue are not restored, as on the server.
NotRestored == {}

Overdue == {l \in Active : disk.lots[l].closing <= now}

\* init: load the state and arm a timer for every active lot, the overdue ones too.
Boot(t) ==
  /\ ~Loaded(t)
  /\ cache' = [cache EXCEPT ![t] = disk]
  /\ timers' = [timers EXCEPT ![t] = [l \in Lots |->
                  IF l \in Active /\ now < disk.lots[l].closing
                    THEN Due(disk.lots[l].closing) ELSE Never]]
  /\ micro' = [micro EXCEPT ![t] = Overdue]
  /\ UNCHANGED <<now, disk>>

\* The tab is closed or reloaded; everything was saved.
Leave(t) ==
  /\ Idle(t)
  /\ cache' = [cache EXCEPT ![t] = Nobody]
  /\ timers' = [timers EXCEPT ![t] = NoTimers]
  /\ UNCHANGED <<now, disk, micro>>

-----------------------------------------------------------------------------
(* The engine *)

\* createLot; ids are fresh.
CreateLot(t, l, closing) ==
  /\ Idle(t)
  /\ l \notin DOMAIN disk.lots /\ \A u \in Tabs : Loaded(u) => l \notin Known(u)
  /\ now < closing
  /\ Save(t, WithLot(cache[t], l, NewLot(closing)))
  /\ ScheduleClose(t, l, closing)
  /\ UNCHANGED now

\* Mutant: the status is not looked at.
InTime(t, l, amount) ==
  /\ now <= Lot(t, l).closing
  /\ amount >= Lot(t, l).price + MinStep

Accepts(t, l, amount) ==
  /\ Lot(t, l).status = "active"
  /\ now <= Lot(t, l).closing
  /\ amount > Lot(t, l).price
  /\ amount >= Lot(t, l).price + MinStep

\* placeBid: a refused bid changes nothing.
PlaceBid(t, l, u, amount) ==
  LET lot      == Lot(t, l)
      extended == lot.closing - now <= Window
      closing  == IF extended THEN now + Extension ELSE lot.closing
      bid      == [user |-> u, amount |-> amount]
  IN  /\ Idle(t) /\ l \in Known(t)
      /\ Accepts(t, l, amount)
      /\ now + Extension <= MaxTime
      /\ Save(t, [WithLot(cache[t], l, [lot EXCEPT !.price = amount, !.closing = closing])
                    EXCEPT !.bids[l] = Append(@, bid)])
      /\ IF extended THEN ScheduleClose(t, l, closing) ELSE UNCHANGED <<timers, micro>>
      /\ UNCHANGED now

\* step of the bots: one or two steps more than the price they see.
BotBids(t, l, u) ==
  /\ Idle(t) /\ l \in Known(t) /\ now < Lot(t, l).closing
  /\ \E bump \in 1..2 :
       LET amount == Lot(t, l).price + MinStep * bump IN
         amount \in Amounts /\ PlaceBid(t, l, u, amount)

\* Mutant: a timer that comes early is not armed again.
Forgets(t, l) == timers' = [timers EXCEPT ![t][l] = Never] /\ UNCHANGED micro

Again(t, l) == ScheduleClose(t, l, Lot(t, l).closing)

TooEarly(t, l) == now < Lot(t, l).closing

\* closeLot, its timer gone.
CloseLot(t, l) ==
  IF l \notin Known(t) \/ Lot(t, l).status # "active"
    THEN UNCHANGED <<cache, disk>>
    ELSE IF TooEarly(t, l) THEN UNCHANGED <<cache, disk>>
    ELSE Save(t, WithLot(cache[t], l, [Lot(t, l) EXCEPT !.status = "closed",
                                          !.winner = TopBidder(cache[t].bids[l])]))

Fire(t, l) ==
  /\ Idle(t) /\ timers[t][l] # Never /\ timers[t][l] <= now
  /\ CloseLot(t, l)
  /\ IF Lot(t, l).status = "active" /\ TooEarly(t, l)
       THEN Again(t, l)
       ELSE timers' = [timers EXCEPT ![t][l] = Never] /\ UNCHANGED micro
  /\ UNCHANGED now

RunMicrotask(t, l) ==
  /\ l \in micro[t]
  /\ CloseLot(t, l)
  /\ micro' = [micro EXCEPT ![t] = @ \ {l}]
  /\ UNCHANGED <<now, timers>>

\* A task takes no time worth counting: the clock waits for microtasks.
Tick ==
  /\ now < MaxTime /\ \A t \in Tabs : micro[t] = {}
  /\ now' = now + 1
  /\ UNCHANGED <<disk, cache, timers, micro>>

Next ==
  \/ \E t \in Tabs :
       \/ Boot(t) \/ Leave(t)
       \/ \E l \in Lots :
            \/ \E closing \in 1..MaxTime : CreateLot(t, l, closing)
            \/ \E u \in Users : BotBids(t, l, u) \/ \E a \in Amounts : PlaceBid(t, l, u, a)
            \/ Fire(t, l) \/ RunMicrotask(t, l)
  \/ Tick

\* The browser runs timers that are due and queued microtasks, and time passes.
Fairness ==
  /\ WF_vars(Tick)
  /\ \A t \in Tabs, l \in Lots : WF_vars(Fire(t, l)) /\ WF_vars(RunMicrotask(t, l))

Spec == Init /\ [][Next]_vars /\ Fairness

-----------------------------------------------------------------------------
(* Properties *)

LotRow == [status : {"active", "closed"}, price : Amounts, closing : 0..MaxTime,
           winner : Users \cup {Nobody}]
IsState(s) ==
  \E there \in SUBSET Lots :
    s \in [lots : [there -> LotRow], bids : [Lots -> Seq([user : Users, amount : Amounts])]]

\* Every variable keeps its type.
TypeOK ==
  /\ now \in 0..MaxTime
  /\ timers \in [Tabs -> [Lots -> 0..MaxTime \cup {Never}]]
  /\ micro \in [Tabs -> SUBSET Lots]
  /\ IsState(disk)
  /\ \A t \in Tabs : Loaded(t) => IsState(cache[t])

\* The auction a tab has in its copy: what Auction promises.
Mirror(t, field, default) ==
  [l \in Lots |-> IF Loaded(t) /\ l \in Known(t) THEN Lot(t, l)[field] ELSE default]

Promise(t) == INSTANCE Auction WITH
  Bidders <- Users, Step <- MinStep, Prices <- Amounts,
  status <- Mirror(t, "status", "absent"),
  price  <- Mirror(t, "price", 0),
  leader <- [l \in Lots |-> IF Loaded(t) THEN TopBidder(cache[t].bids[l]) ELSE Nobody],
  winner <- Mirror(t, "winner", Nobody)

AuctionStep(t) == Loaded(t) /\ Loaded(t)' => Promise(t)!Next \/ UNCHANGED cache[t]

\* From its load on, a tab's copy goes through the steps of one auction,
\* whatever other tabs write over the stored state; a second tab can undo
\* bids and closings only for those who load after it (engine.ts:48-124,
\* store.ts:17-31).
EachTabIsAnAuction == [][\A t \in Tabs : AuctionStep(t)]_vars

\* In every tab each active lot has a timer or a queued closeLot, however it
\* came there, and however often its closing time moved (engine.ts:83-87,
\* 107-131).
ArmedWhileOpen ==
  \A t \in Tabs : Loaded(t) =>
    \A l \in Known(t) : Lot(t, l).status = "active" => timers[t][l] # Never \/ l \in micro[t]

\* While its tab stays open a lot is closed, at last.
ClosedInTheEnd ==
  \A t \in Tabs, l \in Lots :
    Mirror(t, "status", "absent")[l] = "active" ~> Mirror(t, "status", "absent")[l] # "active"
=============================================================================
