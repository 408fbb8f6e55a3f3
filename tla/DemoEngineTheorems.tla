------------------------- MODULE DemoEngineTheorems -------------------------
(***************************************************************************)
(* The demo's engine in any number of tabs over one localStorage, for      *)
(* every window, extension and longest timeout.                            *)
(***************************************************************************)
EXTENDS DemoEngine, TLAPS

USE DemoAssumption

-----------------------------------------------------------------------------
(* States of the store. *)

Bid == [user : Users, amount : Amounts]

LEMMA StateFacts ==
  ASSUME NEW s, IsState(s)
  PROVE  /\ s = [lots |-> s.lots, bids |-> s.bids]
         /\ DOMAIN s.lots \subseteq Lots /\ s.lots \in [DOMAIN s.lots -> LotRow]
         /\ s.bids \in [Lots -> Seq(Bid)]
  <1>1. PICK there \in SUBSET Lots : s \in [lots : [there -> LotRow], bids : [Lots -> Seq(Bid)]]
    BY DEF IsState, Bid
  <1>2. s = [lots |-> s.lots, bids |-> s.bids] /\ s.lots \in [there -> LotRow]
    BY <1>1
  <1> QED
    BY <1>1, <1>2

LEMMA StateIs ==
  ASSUME NEW there \in SUBSET Lots, NEW lots \in [there -> LotRow],
         NEW bids \in [Lots -> Seq(Bid)]
  PROVE  IsState([lots |-> lots, bids |-> bids])
  BY DEF IsState, Bid

\* upsertLot.
LEMMA WithLotFacts ==
  ASSUME NEW s, IsState(s), NEW l \in Lots, NEW row \in LotRow
  PROVE  LET s1 == WithLot(s, l, row) IN
           /\ IsState(s1) /\ s1.bids = s.bids
           /\ DOMAIN s1.lots = DOMAIN s.lots \cup {l} /\ s1.lots[l] = row
           /\ \A k \in DOMAIN s.lots \ {l} : s1.lots[k] = s.lots[k]
  <1> DEFINE there == DOMAIN s.lots \cup {l}
             lots  == [k \in there |-> IF k = l THEN row ELSE s.lots[k]]
  <1>1. /\ s = [lots |-> s.lots, bids |-> s.bids] /\ DOMAIN s.lots \subseteq Lots
        /\ s.lots \in [DOMAIN s.lots -> LotRow] /\ s.bids \in [Lots -> Seq(Bid)]
    BY StateFacts
  <1>2. WithLot(s, l, row) = [s EXCEPT !.lots = lots]
    BY DEF WithLot
  <1>3. lots \in [there -> LotRow] /\ there \in SUBSET Lots
    BY <1>1
  <1> HIDE DEF lots
  <1>4. WithLot(s, l, row) = [lots |-> lots, bids |-> s.bids]
    BY <1>1, <1>2
  <1>5. IsState(WithLot(s, l, row))
    BY <1>1, <1>3, <1>4, StateIs
  <1>6. /\ DOMAIN lots = there /\ lots[l] = row
        /\ \A k \in DOMAIN s.lots \ {l} : lots[k] = s.lots[k]
    BY DEF lots
  <1> QED
    BY <1>4, <1>5, <1>6

\* Each bid is above the ones before it, none is above the price of its lot,
\* and none is without a lot.
Good(s) ==
  /\ IsState(s)
  /\ \A l \in Lots : \A i \in DOMAIN s.bids[l] :
       /\ l \in DOMAIN s.lots /\ s.bids[l][i].amount <= s.lots[l].price
       /\ \A j \in DOMAIN s.bids[l] : j < i => s.bids[l][j].amount < s.bids[l][i].amount

\* What the bids of a lot leave alone.
LEMMA GoodWithLot ==
  ASSUME NEW s, Good(s), NEW l \in Lots, NEW row \in LotRow,
         l \in DOMAIN s.lots => row.price = s.lots[l].price
  PROVE  Good(WithLot(s, l, row))
  <1> DEFINE s1 == WithLot(s, l, row)
  <1>1. /\ IsState(s1) /\ s1.bids = s.bids
        /\ DOMAIN s1.lots = DOMAIN s.lots \cup {l} /\ s1.lots[l] = row
        /\ \A k \in DOMAIN s.lots \ {l} : s1.lots[k] = s.lots[k]
    BY WithLotFacts DEF Good
  <1> HIDE DEF s1
  <1>2. ASSUME NEW k \in Lots, NEW i \in DOMAIN s1.bids[k]
        PROVE  /\ k \in DOMAIN s1.lots /\ s1.bids[k][i].amount <= s1.lots[k].price
               /\ \A j \in DOMAIN s1.bids[k] : j < i => s1.bids[k][j].amount < s1.bids[k][i].amount
    <2>1. k \in DOMAIN s.lots /\ s1.lots[k].price = s.lots[k].price
      BY <1>1, <1>2 DEF Good
    <2>2. /\ s.bids[k][i].amount <= s.lots[k].price
          /\ \A j \in DOMAIN s.bids[k] : j < i => s.bids[k][j].amount < s.bids[k][i].amount
      BY <1>1, <1>2 DEF Good
    <2> QED
      BY <1>1, <2>1, <2>2
  <1>3. Good(s1)
    BY <1>1, <1>2 DEF Good
  <1> QED
    BY <1>3 DEF s1

\* The new state after a bid: addBid, then upsertLot.
WithBid(s, l, row, bid) == [WithLot(s, l, row) EXCEPT !.bids[l] = Append(@, bid)]

\* How the store differs after it.
BidWritten(s, s1, l, row, bid) ==
  /\ DOMAIN s1.lots = DOMAIN s.lots /\ s1.lots[l] = row
  /\ \A k \in DOMAIN s.lots \ {l} : s1.lots[k] = s.lots[k]
  /\ s1.bids = [s.bids EXCEPT ![l] = Append(s.bids[l], bid)]

LEMMA WithBidFacts ==
  ASSUME NEW s, Good(s), NEW l \in DOMAIN s.lots, NEW row \in LotRow, NEW bid \in Bid,
         row.price = bid.amount, bid.amount > s.lots[l].price,
         NEW s1, s1 = WithBid(s, l, row, bid)
  PROVE  Good(s1) /\ BidWritten(s, s1, l, row, bid)
  <1>1. l \in Lots /\ s.bids \in [Lots -> Seq(Bid)] /\ s.bids[l] \in Seq(Bid)
    BY StateFacts DEF Good
  <1> DEFINE s0 == WithLot(s, l, row)
             bids == [s.bids EXCEPT ![l] = Append(s.bids[l], bid)]
  <1>2. /\ IsState(s0) /\ s0.bids = s.bids
        /\ DOMAIN s0.lots = DOMAIN s.lots /\ s0.lots[l] = row
        /\ \A k \in DOMAIN s.lots \ {l} : s0.lots[k] = s.lots[k]
    <2>1. /\ IsState(s0) /\ s0.bids = s.bids
          /\ DOMAIN s0.lots = DOMAIN s.lots \cup {l} /\ s0.lots[l] = row
          /\ \A k \in DOMAIN s.lots \ {l} : s0.lots[k] = s.lots[k]
      BY <1>1, WithLotFacts DEF Good
    <2> HIDE DEF s0
    <2> QED
      BY <2>1
  <1>3. s1 = [s0 EXCEPT !.bids = [s0.bids EXCEPT ![l] = Append(s0.bids[l], bid)]]
    BY DEF WithBid
  <1> HIDE DEF s0
  <1>4. s0 = [lots |-> s0.lots, bids |-> s0.bids] /\ DOMAIN s0.lots \subseteq Lots
        /\ s0.lots \in [DOMAIN s0.lots -> LotRow]
    BY <1>2, StateFacts
  <1>5. s1 = [s0 EXCEPT !.bids = bids]
    BY <1>2, <1>3
  <1>6. bids \in [Lots -> Seq(Bid)] /\ bids[l] = Append(s.bids[l], bid)
        /\ \A k \in Lots \ {l} : bids[k] = s.bids[k]
    <2>1. Append(s.bids[l], bid) \in Seq(Bid)
      BY <1>1
    <2> QED
      BY <1>1, <2>1
  <1> HIDE DEF bids
  <1>7. s1 = [lots |-> s0.lots, bids |-> bids]
    BY <1>4, <1>5
  <1>8. IsState(s1)
    BY <1>4, <1>6, <1>7, StateIs
  <1>9. ASSUME NEW k \in Lots, NEW i \in DOMAIN bids[k]
        PROVE  /\ k \in DOMAIN s0.lots /\ bids[k][i].amount <= s0.lots[k].price
               /\ \A j \in DOMAIN bids[k] : j < i => bids[k][j].amount < bids[k][i].amount
    <2>1. CASE k # l
      BY <1>2, <1>6, <1>9, <2>1 DEF Good
    <2>2. CASE k = l
      <3> DEFINE b == s.bids[l]
                 n == Len(b) + 1
      <3>1. /\ DOMAIN b = 1..(n - 1) /\ n \in Nat /\ DOMAIN bids[k] = 1..n /\ bids[k][n] = bid
            /\ \A j \in 1..(n - 1) : bids[k][j] = b[j] /\ b[j] \in Bid
        <4>1. b \in Seq(Bid) /\ bids[k] = Append(b, bid)
          BY <1>1, <1>6, <2>2
        <4> HIDE DEF b
        <4> QED
          BY <4>1
      <3>2. s.lots[l] \in LotRow
        BY StateFacts DEF Good
      <3>3. \A j \in DOMAIN b : b[j].amount <= s.lots[l].price
        BY <1>1 DEF Good
      <3>4. \A j, h \in DOMAIN b : h < j => b[h].amount < b[j].amount
        BY <1>1 DEF Good
      <3> HIDE DEF b, n
      <3>5. /\ bid.amount \in Int /\ s.lots[l].price \in Int
            /\ \A j \in DOMAIN b : b[j].amount \in Int
        BY <3>1, <3>2 DEF LotRow, Bid, Amounts
      <3>6. \A j \in DOMAIN b : b[j].amount < bid.amount
        BY <3>3, <3>5
      <3>7. \A j \in 1..n : j < n => j \in 1..(n - 1)
        BY <3>1
      <3>8. CASE i = n
        BY <1>2, <2>2, <3>1, <3>5, <3>6, <3>7, <3>8
      <3>9. CASE i # n
        <4>1. i \in DOMAIN b /\ bids[k][i] = b[i] /\ i < n
          BY <1>9, <3>1, <3>9
        <4>2. bids[k][i].amount <= s0.lots[k].price
          BY <1>2, <2>2, <3>5, <3>6, <4>1
        <4>3. ASSUME NEW j \in DOMAIN bids[k], j < i PROVE bids[k][j].amount < bids[k][i].amount
          <5>1. j \in DOMAIN b /\ bids[k][j] = b[j]
            BY <1>9, <3>1, <4>1, <4>3
          <5> QED
            BY <3>4, <4>1, <4>3, <5>1
        <4> QED
          BY <1>2, <2>2, <4>2, <4>3
      <3> QED
        BY <3>8, <3>9
    <2> QED
      BY <2>1, <2>2
  <1>10. Good(s1)
    BY <1>7, <1>8, <1>9 DEF Good
  <1>11. s1.lots = s0.lots /\ s1.bids = bids
    BY <1>7
  <1> QED
    BY <1>2, <1>10, <1>11 DEF bids, BidWritten

\* The dearest bid comes last, so the last bidder leads.
LEMMA LastLeads ==
  ASSUME NEW bids \in Seq(Bid), bids # <<>>,
         \A i, j \in DOMAIN bids : j < i => bids[j].amount < bids[i].amount
  PROVE  TopBidder(bids) = bids[Len(bids)].user
  <1> DEFINE n == Len(bids)
             IsTop(i) == \A j \in DOMAIN bids :
                           \/ bids[j].amount < bids[i].amount
                           \/ bids[j].amount = bids[i].amount /\ i <= j
  <1>1. DOMAIN bids = 1..n /\ n \in Nat /\ n >= 1
    OBVIOUS
  <1>2. Highest(bids) = CHOOSE i \in DOMAIN bids : IsTop(i)
    BY DEF Highest
  <1> HIDE DEF n
  <1>3. \A i \in 1..n : bids[i].amount \in Int
    <2>1. \A i \in 1..n : bids[i] \in Bid
      BY <1>1
    <2> QED
      BY <2>1 DEF Bid, Amounts
  <1>4. \A j \in 1..n : j # n => bids[j].amount < bids[n].amount
    <2>1. \A j \in 1..n : j # n => j < n
      BY <1>1
    <2> QED
      BY <1>1, <2>1
  <1>5. n \in DOMAIN bids /\ IsTop(n)
    BY <1>1, <1>4
  <1>6. ASSUME NEW i \in DOMAIN bids, IsTop(i) PROVE i = n
    <2>1. \/ bids[n].amount < bids[i].amount
          \/ bids[n].amount = bids[i].amount /\ i <= n
      BY <1>5, <1>6
    <2>2. i # n => bids[i].amount < bids[n].amount
      BY <1>1, <1>4
    <2> QED
      BY <1>1, <1>3, <2>1, <2>2
  <1> HIDE DEF IsTop
  <1>7. Highest(bids) = n
    BY <1>2, <1>5, <1>6
  <1> QED
    BY <1>7 DEF TopBidder, n

LEMMA TopIsBidder ==
  ASSUME NEW s, Good(s), NEW l \in Lots
  PROVE  TopBidder(s.bids[l]) \in Users \cup {Nobody}
  <1> DEFINE bids == s.bids[l]
  <1>1. bids \in Seq(Bid) /\ \A i, j \in DOMAIN bids : j < i => bids[j].amount < bids[i].amount
    BY StateFacts DEF Good
  <1> HIDE DEF bids
  <1>2. CASE bids = <<>>
    BY <1>2 DEF TopBidder, bids
  <1>3. CASE bids # <<>>
    <2>1. bids[Len(bids)] \in Bid
      BY <1>1, <1>3
    <2>2. TopBidder(bids) = bids[Len(bids)].user
      BY <1>1, <1>3, LastLeads
    <2> QED
      BY <2>1, <2>2 DEF Bid, bids
  <1> QED
    BY <1>2, <1>3


-----------------------------------------------------------------------------
(* The tabs. *)

\* A tab that is open, or is about to run a closeLot.
Runs(t) == Loaded(t) \/ micro[t] # {}

Types ==
  /\ now \in 0..MaxTime
  /\ timers \in [Tabs -> [Lots -> 0..MaxTime \cup {Never}]]
  /\ micro \in [Tabs -> SUBSET Lots]
  /\ DOMAIN cache = Tabs

\* Timers and microtasks are for lots of the copy, and a microtask is not
\* queued before its time.
TabOK(t) ==
  Runs(t) =>
    /\ Good(cache[t])
    /\ \A l \in Lots :
         /\ timers[t][l] # Never \/ l \in micro[t] => l \in Known(t)
         /\ l \in micro[t] => Lot(t, l).closing <= now

Armed(t) ==
  Runs(t) =>
    \A l \in Known(t) : Lot(t, l).status = "active" => timers[t][l] # Never \/ l \in micro[t]

DemoInv == Types /\ Good(disk) /\ \A t \in Tabs : TabOK(t) /\ Armed(t)

\* The delay is cut, so the timer may come early, but never after closing_at.
LEMMA DueFacts ==
  ASSUME now \in 0..MaxTime, NEW closing \in 0..MaxTime, now < closing
  PROVE  Due(closing) \in 0..MaxTime /\ Due(closing) # Never
  BY DEF Due, Least

LEMMA ScheduleFacts ==
  ASSUME Types, NEW t \in Tabs, NEW l \in Lots, NEW closing \in 0..MaxTime,
         ScheduleClose(t, l, closing)
  PROVE  /\ timers' \in [Tabs -> [Lots -> 0..MaxTime \cup {Never}]]
         /\ micro' \in [Tabs -> SUBSET Lots]
         /\ \A u \in Tabs \ {t} : timers'[u] = timers[u] /\ micro'[u] = micro[u]
         /\ \A k \in Lots \ {l} : timers'[t][k] = timers[t][k]
         /\ now < closing => timers'[t][l] # Never /\ micro' = micro
         /\ closing <= now => timers'[t][l] = Never /\ micro'[t] = micro[t] \cup {l}
  <1>1. now \in Int /\ closing \in Int /\ timers[t] \in [Lots -> 0..MaxTime \cup {Never}]
    BY DEF Types
  <1>2. ASSUME NEW due \in 0..MaxTime \cup {Never}, timers' = [timers EXCEPT ![t][l] = due]
        PROVE  /\ timers' \in [Tabs -> [Lots -> 0..MaxTime \cup {Never}]]
               /\ \A u \in Tabs \ {t} : timers'[u] = timers[u]
               /\ \A k \in Lots \ {l} : timers'[t][k] = timers[t][k]
               /\ timers'[t][l] = due
    BY <1>2 DEF Types
  <1>3. CASE closing <= now
    <2>1. /\ micro' = [micro EXCEPT ![t] = micro[t] \cup {l}]
          /\ timers' = [timers EXCEPT ![t][l] = Never]
      BY <1>3 DEF ScheduleClose
    <2>2. /\ micro' \in [Tabs -> SUBSET Lots] /\ micro'[t] = micro[t] \cup {l}
          /\ \A u \in Tabs \ {t} : micro'[u] = micro[u]
      BY <2>1 DEF Types
    <2>3. /\ timers' \in [Tabs -> [Lots -> 0..MaxTime \cup {Never}]]
          /\ \A u \in Tabs \ {t} : timers'[u] = timers[u]
          /\ \A k \in Lots \ {l} : timers'[t][k] = timers[t][k]
          /\ timers'[t][l] = Never
      <3>1. Never \in 0..MaxTime \cup {Never}
        OBVIOUS
      <3> QED
        BY <1>2, <2>1, <3>1
    <2>4. ~(now < closing)
      BY <1>1, <1>3
    <2> QED
      BY <2>2, <2>3, <2>4
  <1>4. CASE now < closing
    <2>1. micro' = micro /\ timers' = [timers EXCEPT ![t][l] = Due(closing)]
      BY <1>1, <1>4 DEF ScheduleClose
    <2>2. Due(closing) \in 0..MaxTime /\ Due(closing) # Never
      BY <1>4, DueFacts DEF Types
    <2>3. micro' \in [Tabs -> SUBSET Lots]
      BY <2>1 DEF Types
    <2>4. /\ timers' \in [Tabs -> [Lots -> 0..MaxTime \cup {Never}]]
          /\ \A u \in Tabs \ {t} : timers'[u] = timers[u]
          /\ \A k \in Lots \ {l} : timers'[t][k] = timers[t][k]
          /\ timers'[t][l] = Due(closing)
      <3>1. Due(closing) \in 0..MaxTime \cup {Never}
        BY <2>2
      <3> QED
        BY <1>2, <2>1, <3>1
    <2>5. ~(closing <= now)
      BY <1>1, <1>4
    <2> QED
      BY <2>1, <2>2, <2>3, <2>4, <2>5
  <1> QED
    BY <1>1, <1>3, <1>4

\* A tab is not disturbed by the tasks of others.
LEMMA Undisturbed ==
  ASSUME Types, Types', NEW u \in Tabs, TabOK(u), Armed(u), now <= now',
         cache'[u] = cache[u], timers'[u] = timers[u], micro'[u] = micro[u]
  PROVE  TabOK(u)' /\ Armed(u)'
  <1>1. Armed(u)'
    BY DEF Armed, Runs, Loaded, Known, Lot
  <1>2. ASSUME Runs(u)' PROVE TabOK(u)'
    <2>1. Runs(u)
      BY <1>2 DEF Runs, Loaded
    <2>2. ASSUME NEW l \in Lots, l \in micro[u] PROVE Lot(u, l)'.closing <= now'
      <3>1. l \in Known(u) /\ Lot(u, l).closing <= now /\ IsState(cache[u])
        BY <2>1, <2>2 DEF TabOK, Good
      <3>2. Lot(u, l) \in LotRow
        BY <3>1, StateFacts DEF Known, Lot
      <3>3. Lot(u, l).closing \in Int /\ now \in Int /\ now' \in Int
        BY <3>2 DEF LotRow, Types
      <3>4. Lot(u, l)' = Lot(u, l)
        BY DEF Lot
      <3> QED
        BY <3>1, <3>3, <3>4
    <2> QED
      BY <2>1, <2>2 DEF TabOK, Known
  <1> QED
    BY <1>1, <1>2 DEF TabOK

\* What a task of tab t has to leave behind.
LEMMA TaskOf ==
  ASSUME DemoInv, Types', Good(disk)', NEW t \in Tabs, TabOK(t)', Armed(t)', now' = now,
         \A u \in Tabs \ {t} : /\ cache'[u] = cache[u] /\ timers'[u] = timers[u]
                               /\ micro'[u] = micro[u]
  PROVE  DemoInv'
  <1>1. now <= now'
    BY DEF DemoInv, Types
  <1>2. ASSUME NEW u \in Tabs \ {t} PROVE TabOK(u)' /\ Armed(u)'
    BY <1>1, Undisturbed DEF DemoInv
  <1> QED
    BY <1>2 DEF DemoInv

LEMMA SaveFacts ==
  ASSUME Types, NEW t \in Tabs, NEW s, Save(t, s)
  PROVE  /\ disk' = s /\ cache'[t] = s /\ DOMAIN cache' = Tabs
         /\ \A u \in Tabs \ {t} : cache'[u] = cache[u]
  BY DEF Save, Types

LEMMA DemoInit == Init => DemoInv
  <1> SUFFICES ASSUME Init PROVE DemoInv
    OBVIOUS
  <1>1. Types
    BY DEF Init, Types, NoTimers
  <1>2. PICK there \in SUBSET Lots, closing \in 0..MaxTime :
          disk = [lots |-> [l \in there |-> NewLot(closing)], bids |-> [l \in Lots |-> <<>>]]
    BY DEF Init
  <1>3. NewLot(closing) \in LotRow
    BY DEF NewLot, LotRow, Amounts
  <1>4. /\ [l \in there |-> NewLot(closing)] \in [there -> LotRow]
        /\ [l \in Lots |-> <<>>] \in [Lots -> Seq(Bid)]
    BY <1>3
  <1>5. IsState(disk)
    BY <1>2, <1>4, StateIs
  <1>6. \A l \in Lots : DOMAIN disk.bids[l] = {}
    BY <1>2
  <1>7. Good(disk)
    BY <1>5, <1>6 DEF Good
  <1>8. \A t \in Tabs : ~Loaded(t) /\ ~Runs(t)
    BY DEF Init, Loaded, Runs
  <1> QED
    BY <1>1, <1>7, <1>8 DEF DemoInv, TabOK, Armed


LEMMA BootStep ==
  ASSUME DemoInv, NEW t \in Tabs, Boot(t)
  PROVE  DemoInv'
  <1>1. Types /\ Good(disk)
    BY DEF DemoInv
  <1>2. /\ ~Loaded(t) /\ now' = now /\ disk' = disk
        /\ cache' = [cache EXCEPT ![t] = disk]
        /\ micro' = [micro EXCEPT ![t] = Overdue]
    BY DEF Boot
  <1> DEFINE armed == [l \in Lots |->
                         IF l \in Active /\ now < disk.lots[l].closing
                           THEN Due(disk.lots[l].closing) ELSE Never]
  <1>3. timers' = [timers EXCEPT ![t] = armed]
    BY DEF Boot
  <1>4. /\ Active \subseteq Lots /\ Active \subseteq DOMAIN disk.lots
        /\ \A l \in DOMAIN disk.lots : disk.lots[l].closing \in 0..MaxTime
    BY <1>1, StateFacts DEF Good, Active, LotRow
  <1>5. ASSUME NEW l \in Lots
        PROVE  /\ armed[l] \in 0..MaxTime \cup {Never}
               /\ armed[l] # Never <=> l \in Active /\ now < disk.lots[l].closing
    <2>1. CASE l \in Active /\ now < disk.lots[l].closing
      <3>1. Due(disk.lots[l].closing) \in 0..MaxTime /\ Due(disk.lots[l].closing) # Never
        BY <1>1, <1>4, <2>1, DueFacts DEF Types
      <3> QED
        BY <2>1, <3>1
    <2>2. CASE ~(l \in Active /\ now < disk.lots[l].closing)
      BY <2>2
    <2> QED
      BY <2>1, <2>2
  <1>6. armed \in [Lots -> 0..MaxTime \cup {Never}]
    BY <1>5
  <1> HIDE DEF armed
  <1>7. Overdue \subseteq Active /\ \A l \in Overdue : disk.lots[l].closing <= now
    BY DEF Overdue
  <1>8. /\ cache'[t] = disk /\ timers'[t] = armed /\ micro'[t] = Overdue
        /\ \A u \in Tabs \ {t} : /\ cache'[u] = cache[u] /\ timers'[u] = timers[u]
                                 /\ micro'[u] = micro[u]
    BY <1>1, <1>2, <1>3 DEF Types
  <1>9. Types'
    BY <1>1, <1>2, <1>3, <1>4, <1>6, <1>7 DEF Types
  <1>10. TabOK(t)'
    BY <1>1, <1>2, <1>4, <1>5, <1>7, <1>8 DEF TabOK, Known, Lot, Good
  <1>11. Armed(t)'
    <2>1. ASSUME NEW l \in DOMAIN disk.lots, disk.lots[l].status = "active"
          PROVE  armed[l] # Never \/ l \in Overdue
      <3>1. l \in Active /\ l \in Lots
        BY <1>4, <2>1 DEF Active
      <3>2. disk.lots[l].closing \in Int /\ now \in Int
        BY <1>1, <1>4 DEF Types
      <3> QED
        BY <1>5, <3>1, <3>2 DEF Overdue
    <2> QED
      BY <1>8, <2>1 DEF Armed, Known, Lot
  <1>12. Good(disk)'
    BY <1>1, <1>2 DEF Good
  <1> QED
    BY <1>2, <1>8, <1>9, <1>10, <1>11, <1>12, TaskOf

LEMMA LeaveStep ==
  ASSUME DemoInv, NEW t \in Tabs, Leave(t)
  PROVE  DemoInv'
  <1>1. Types /\ Good(disk)
    BY DEF DemoInv
  <1>2. /\ micro[t] = {} /\ now' = now /\ disk' = disk /\ micro' = micro
        /\ cache' = [cache EXCEPT ![t] = Nobody] /\ timers' = [timers EXCEPT ![t] = NoTimers]
    BY DEF Leave, Idle
  <1>3. /\ cache'[t] = Nobody
        /\ \A u \in Tabs \ {t} : /\ cache'[u] = cache[u] /\ timers'[u] = timers[u]
                                 /\ micro'[u] = micro[u]
    BY <1>1, <1>2 DEF Types
  <1>4. Types'
    <2>1. NoTimers \in [Lots -> 0..MaxTime \cup {Never}]
      BY DEF NoTimers
    <2> QED
      BY <1>1, <1>2, <2>1 DEF Types
  <1>5. TabOK(t)' /\ Armed(t)'
    BY <1>2, <1>3 DEF TabOK, Armed, Runs, Loaded
  <1>6. Good(disk)'
    BY <1>1, <1>2 DEF Good
  <1> QED
    BY <1>2, <1>3, <1>4, <1>5, <1>6, TaskOf

LEMMA CreateStep ==
  ASSUME DemoInv, NEW t \in Tabs, NEW l \in Lots, NEW closing \in 1..MaxTime,
         CreateLot(t, l, closing)
  PROVE  DemoInv'
  <1>1. Types /\ Good(disk) /\ Loaded(t) /\ micro[t] = {} /\ l \notin Known(t) /\ now < closing
    BY DEF DemoInv, CreateLot, Idle
  <1>2. TabOK(t) /\ Armed(t) /\ Good(cache[t]) /\ IsState(cache[t]) /\ closing \in 0..MaxTime
    BY <1>1 DEF DemoInv, TabOK, Runs, Good
  <1> DEFINE s == WithLot(cache[t], l, NewLot(closing))
  <1>3. NewLot(closing) \in LotRow
    BY <1>2 DEF NewLot, LotRow, Amounts
  <1>4. Good(s)
    BY <1>1, <1>2, <1>3, GoodWithLot DEF Known
  <1>5. /\ DOMAIN s.lots = Known(t) \cup {l}
        /\ \A k \in Known(t) \ {l} : s.lots[k] = Lot(t, k)
    BY <1>2, <1>3, WithLotFacts DEF Known, Lot
  <1>6. Save(t, s) /\ ScheduleClose(t, l, closing) /\ now' = now
    BY DEF CreateLot
  <1> HIDE DEF s
  <1>7. /\ disk' = s /\ cache'[t] = s /\ DOMAIN cache' = Tabs
        /\ \A u \in Tabs \ {t} : cache'[u] = cache[u]
    BY <1>1, <1>6, SaveFacts
  <1>8. /\ timers' \in [Tabs -> [Lots -> 0..MaxTime \cup {Never}]]
        /\ micro' \in [Tabs -> SUBSET Lots]
        /\ \A u \in Tabs \ {t} : timers'[u] = timers[u] /\ micro'[u] = micro[u]
        /\ \A k \in Lots \ {l} : timers'[t][k] = timers[t][k]
        /\ timers'[t][l] # Never /\ micro' = micro
    BY <1>1, <1>2, <1>6, ScheduleFacts
  <1>9. Types'
    BY <1>1, <1>6, <1>7, <1>8 DEF Types
  <1>10. TabOK(t)'
    <2>1. \A k \in Lots : timers'[t][k] # Never => k \in DOMAIN s.lots
      BY <1>1, <1>2, <1>5, <1>8 DEF TabOK, Runs
    <2>2. micro'[t] = {}
      BY <1>1, <1>8
    <2>3. Good(cache[t])'
      BY <1>4, <1>7 DEF Good
    <2> QED
      BY <1>7, <2>1, <2>2, <2>3 DEF TabOK, Known
  <1>11. Armed(t)'
    <2>1. ASSUME NEW k \in DOMAIN s.lots, s.lots[k].status = "active"
          PROVE  timers'[t][k] # Never \/ k \in micro'[t]
      <3>1. k \in Lots /\ (k = l \/ k \in Known(t) \ {l})
        BY <1>4, <1>5, StateFacts DEF Good
      <3> QED
        BY <1>1, <1>2, <1>5, <1>8, <2>1, <3>1 DEF Armed, Runs
    <2> QED
      BY <1>7, <2>1 DEF Armed, Known, Lot
  <1>12. Good(disk)'
    BY <1>4, <1>7 DEF Good
  <1> QED
    BY <1>6, <1>7, <1>8, <1>9, <1>10, <1>11, <1>12, TaskOf

\* What a bid writes: the row and the bid, which leads from now on.
LEMMA BidFacts ==
  ASSUME DemoInv, NEW t \in Tabs, NEW l \in Lots, NEW u \in Users, NEW amount \in Amounts,
         PlaceBid(t, l, u, amount)
  PROVE  \E row \in LotRow : \E s :
           /\ Loaded(t) /\ micro[t] = {} /\ l \in Known(t) /\ Save(t, s) /\ Good(s)
           /\ BidWritten(cache[t], s, l, row, [user |-> u, amount |-> amount])
           /\ Lot(t, l).status = "active" /\ row.status = "active"
           /\ amount > Lot(t, l).price /\ amount >= Lot(t, l).price + MinStep
           /\ row.price = amount /\ row.winner = Lot(t, l).winner
           /\ \/ ScheduleClose(t, l, row.closing)
              \/ row.closing = Lot(t, l).closing /\ UNCHANGED <<timers, micro>>
           /\ now' = now
  <1> DEFINE lot == Lot(t, l)
             extended == lot.closing - now <= Window
             closing == IF extended THEN now + Extension ELSE lot.closing
             row == [lot EXCEPT !.price = amount, !.closing = closing]
             bid == [user |-> u, amount |-> amount]
             s == WithBid(cache[t], l, row, bid)
  <1>1. /\ Loaded(t) /\ micro[t] = {} /\ l \in Known(t)
        /\ lot.status = "active" /\ amount > lot.price /\ amount >= lot.price + MinStep
        /\ now + Extension <= MaxTime /\ now' = now
        /\ IF extended THEN ScheduleClose(t, l, closing) ELSE UNCHANGED <<timers, micro>>
    BY DEF PlaceBid, Idle, Accepts
  <1>2. Save(t, s)
    BY DEF PlaceBid, WithBid
  <1>3. Good(cache[t]) /\ IsState(cache[t]) /\ now \in 0..MaxTime
    BY <1>1 DEF DemoInv, TabOK, Runs, Good, Types
  <1>4. lot \in LotRow
    BY <1>1, <1>3, StateFacts DEF Lot, Known
  <1> HIDE DEF lot
  <1>5. closing \in 0..MaxTime
    BY <1>1, <1>3, <1>4 DEF LotRow
  <1>6. \/ ScheduleClose(t, l, closing)
        \/ closing = lot.closing /\ UNCHANGED <<timers, micro>>
    BY <1>1
  <1> HIDE DEF closing
  <1>7. /\ row \in LotRow /\ row.price = amount /\ row.status = lot.status
        /\ row.winner = lot.winner /\ row.closing = closing
    BY <1>4, <1>5 DEF LotRow
  <1>8. bid \in Bid /\ bid.amount = amount
    BY DEF Bid
  <1> HIDE DEF row, bid
  <1>9. Good(s) /\ BidWritten(cache[t], s, l, row, bid)
    <2>1. l \in DOMAIN cache[t].lots /\ bid.amount > cache[t].lots[l].price
      BY <1>1, <1>8 DEF Known, lot, Lot
    <2>2. s = WithBid(cache[t], l, row, bid)
      OBVIOUS
    <2> HIDE DEF s
    <2> QED
      <3>1. Good(cache[t]) /\ row \in LotRow /\ bid \in Bid /\ row.price = bid.amount
        BY <1>3, <1>7, <1>8
      <3> QED
        BY <2>1, <2>2, <3>1, WithBidFacts
  <1> HIDE DEF s
  <1>10. /\ Loaded(t) /\ micro[t] = {} /\ l \in Known(t) /\ Save(t, s) /\ Good(s)
         /\ BidWritten(cache[t], s, l, row, [user |-> u, amount |-> amount])
         /\ Lot(t, l).status = "active" /\ row.status = "active"
         /\ amount > Lot(t, l).price /\ amount >= Lot(t, l).price + MinStep
         /\ row.price = amount /\ row.winner = Lot(t, l).winner
         /\ \/ ScheduleClose(t, l, row.closing)
            \/ row.closing = Lot(t, l).closing /\ UNCHANGED <<timers, micro>>
         /\ now' = now
    BY <1>1, <1>2, <1>6, <1>7, <1>9 DEF lot, bid
  <1> QED
    BY <1>7, <1>10


LEMMA BidStep ==
  ASSUME DemoInv, NEW t \in Tabs, NEW l \in Lots, NEW u \in Users, NEW amount \in Amounts,
         PlaceBid(t, l, u, amount)
  PROVE  DemoInv'
  <1>1. PICK row \in LotRow : \E s :
           /\ Loaded(t) /\ micro[t] = {} /\ l \in Known(t) /\ Save(t, s) /\ Good(s)
           /\ BidWritten(cache[t], s, l, row, [user |-> u, amount |-> amount])
           /\ Lot(t, l).status = "active"
           /\ \/ ScheduleClose(t, l, row.closing)
              \/ row.closing = Lot(t, l).closing /\ UNCHANGED <<timers, micro>>
           /\ now' = now
    BY BidFacts
  <1>2. PICK s :
           /\ Loaded(t) /\ micro[t] = {} /\ l \in Known(t) /\ Save(t, s) /\ Good(s)
           /\ BidWritten(cache[t], s, l, row, [user |-> u, amount |-> amount])
           /\ Lot(t, l).status = "active"
           /\ \/ ScheduleClose(t, l, row.closing)
              \/ row.closing = Lot(t, l).closing /\ UNCHANGED <<timers, micro>>
           /\ now' = now
    BY <1>1
  <1>3. Types /\ TabOK(t) /\ Armed(t)
    BY DEF DemoInv
  <1>4. /\ disk' = s /\ cache'[t] = s /\ DOMAIN cache' = Tabs
        /\ \A v \in Tabs \ {t} : cache'[v] = cache[v]
    BY <1>2, <1>3, SaveFacts
  <1>5. /\ DOMAIN s.lots = Known(t) /\ s.lots[l] = row
        /\ \A k \in Known(t) \ {l} : s.lots[k] = Lot(t, k)
    BY <1>2 DEF BidWritten, Known, Lot
  <1>6. row.closing \in 0..MaxTime /\ row.closing \in Int /\ now \in Int
    BY <1>3 DEF LotRow, Types
  <1>7. /\ timers' \in [Tabs -> [Lots -> 0..MaxTime \cup {Never}]]
        /\ micro' \in [Tabs -> SUBSET Lots]
        /\ \A v \in Tabs \ {t} : timers'[v] = timers[v] /\ micro'[v] = micro[v]
        /\ \A k \in Lots \ {l} : timers'[t][k] = timers[t][k]
        /\ timers'[t][l] # Never \/ l \in micro'[t]
        /\ micro'[t] = {} \/ (micro'[t] = {l} /\ row.closing <= now)
    <2>1. CASE ScheduleClose(t, l, row.closing)
      <3>1. /\ timers' \in [Tabs -> [Lots -> 0..MaxTime \cup {Never}]]
            /\ micro' \in [Tabs -> SUBSET Lots]
            /\ \A v \in Tabs \ {t} : timers'[v] = timers[v] /\ micro'[v] = micro[v]
            /\ \A k \in Lots \ {l} : timers'[t][k] = timers[t][k]
            /\ now < row.closing => timers'[t][l] # Never /\ micro' = micro
            /\ row.closing <= now => timers'[t][l] = Never /\ micro'[t] = micro[t] \cup {l}
        BY <1>3, <1>6, <2>1, ScheduleFacts
      <3>2. now < row.closing \/ row.closing <= now
        BY <1>6
      <3> QED
        BY <1>2, <3>1, <3>2
    <2>2. CASE UNCHANGED <<timers, micro>>
      BY <1>2, <1>3, <2>2 DEF Types, Armed, Runs
    <2> QED
      BY <1>2, <2>1, <2>2
  <1>8. Types'
    BY <1>2, <1>3, <1>4, <1>7 DEF Types
  <1>9. TabOK(t)'
    <2>1. \A k \in Lots : timers'[t][k] # Never \/ k \in micro'[t] => k \in DOMAIN s.lots
      BY <1>2, <1>3, <1>5, <1>7 DEF TabOK, Runs
    <2>2. \A k \in micro'[t] : s.lots[k].closing <= now'
      BY <1>2, <1>5, <1>7
    <2>3. Good(cache[t])'
      BY <1>2, <1>4 DEF Good
    <2> QED
      BY <1>4, <2>1, <2>2, <2>3 DEF TabOK, Known, Lot
  <1>10. Armed(t)'
    <2>1. ASSUME NEW k \in DOMAIN s.lots, s.lots[k].status = "active"
          PROVE  timers'[t][k] # Never \/ k \in micro'[t]
      <3>1. CASE k = l
        BY <1>7, <3>1
      <3>2. CASE k # l
        <4>1. k \in Lots
          BY <1>2, StateFacts DEF Good
        <4> QED
          BY <1>2, <1>3, <1>5, <1>7, <2>1, <3>2, <4>1 DEF Armed, Runs
      <3> QED
        BY <3>1, <3>2
    <2> QED
      BY <1>4, <2>1 DEF Armed, Known, Lot
  <1>11. Good(disk)'
    BY <1>2, <1>4 DEF Good
  <1> QED
    BY <1>2, <1>4, <1>7, <1>8, <1>9, <1>10, <1>11, TaskOf

\* closeLot writes the row of a lot whose time has come, or nothing.
Closes(t, l) == Lot(t, l).status = "active" /\ ~TooEarly(t, l)

LEMMA CloseFacts ==
  ASSUME DemoInv, NEW t \in Tabs, NEW l \in Lots, Runs(t), l \in Known(t), CloseLot(t, l)
  PROVE  /\ ~Closes(t, l) => UNCHANGED <<cache, disk>>
         /\ Closes(t, l) =>
              \E row \in LotRow : \E s :
                /\ Save(t, s) /\ Good(s) /\ s.bids = cache[t].bids
                /\ DOMAIN s.lots = Known(t) /\ s.lots[l] = row
                /\ \A k \in Known(t) \ {l} : s.lots[k] = Lot(t, k)
                /\ row.status = "closed" /\ row.price = Lot(t, l).price
                /\ row.closing = Lot(t, l).closing
                /\ row.winner = TopBidder(cache[t].bids[l])
  <1>1. Good(cache[t]) /\ IsState(cache[t])
    BY DEF DemoInv, TabOK, Good
  <1>2. ASSUME ~Closes(t, l) PROVE UNCHANGED <<cache, disk>>
    BY <1>2 DEF Closes, CloseLot
  <1>3. ASSUME Closes(t, l)
        PROVE  \E row \in LotRow : \E s :
                 /\ Save(t, s) /\ Good(s) /\ s.bids = cache[t].bids
                 /\ DOMAIN s.lots = Known(t) /\ s.lots[l] = row
                 /\ \A k \in Known(t) \ {l} : s.lots[k] = Lot(t, k)
                 /\ row.status = "closed" /\ row.price = Lot(t, l).price
                 /\ row.closing = Lot(t, l).closing
                 /\ row.winner = TopBidder(cache[t].bids[l])
    <2> DEFINE lot == Lot(t, l)
               top == TopBidder(cache[t].bids[l])
               row == [lot EXCEPT !.status = "closed", !.winner = top]
               s == WithLot(cache[t], l, row)
    <2>1. Save(t, s)
      BY <1>3 DEF Closes, CloseLot
    <2>2. lot \in LotRow /\ top \in Users \cup {Nobody}
      BY <1>1, StateFacts, TopIsBidder DEF Known, Lot
    <2> HIDE DEF lot, top
    <2>3. /\ row \in LotRow /\ row.status = "closed" /\ row.price = lot.price
          /\ row.closing = lot.closing /\ row.winner = top
      BY <2>2 DEF LotRow
    <2> HIDE DEF row
    <2>4. Good(s)
      BY <1>1, <2>3, GoodWithLot DEF lot, Lot
    <2>5. /\ s.bids = cache[t].bids
          /\ DOMAIN s.lots = Known(t) \cup {l} /\ s.lots[l] = row
          /\ \A k \in Known(t) \ {l} : s.lots[k] = Lot(t, k)
      BY <1>1, <2>3, WithLotFacts DEF Known, Lot
    <2> HIDE DEF s
    <2>6. /\ Save(t, s) /\ Good(s) /\ s.bids = cache[t].bids
          /\ DOMAIN s.lots = Known(t) /\ s.lots[l] = row
          /\ \A k \in Known(t) \ {l} : s.lots[k] = Lot(t, k)
          /\ row.status = "closed" /\ row.price = Lot(t, l).price
          /\ row.closing = Lot(t, l).closing
          /\ row.winner = TopBidder(cache[t].bids[l])
      BY <2>1, <2>3, <2>4, <2>5 DEF lot, top
    <2> QED
      BY <2>3, <2>6
  <1> QED
    BY <1>2, <1>3

\* After closeLot the copy knows the same lots, and the others as they were.
LEMMA CloseEffect ==
  ASSUME DemoInv, NEW t \in Tabs, NEW l \in Lots, Runs(t), l \in Known(t), CloseLot(t, l)
  PROVE  /\ Good(disk)' /\ Good(cache[t])' /\ DOMAIN cache' = Tabs
         /\ \A u \in Tabs \ {t} : cache'[u] = cache[u]
         /\ Known(t)' = Known(t) /\ \A k \in Known(t) \ {l} : Lot(t, k)' = Lot(t, k)
         /\ Lot(t, l)'.closing = Lot(t, l).closing
         /\ ~Closes(t, l) => Lot(t, l)' = Lot(t, l)
         /\ Closes(t, l) => Lot(t, l)'.status = "closed"
  <1>1. CASE ~Closes(t, l)
    <2>1. UNCHANGED <<cache, disk>>
      BY <1>1, CloseFacts
    <2> QED
      BY <1>1, <2>1 DEF DemoInv, Types, TabOK, Good, Known, Lot
  <1>2. CASE Closes(t, l)
    <2>1. PICK row \in LotRow : \E s :
                /\ Save(t, s) /\ Good(s)
                /\ DOMAIN s.lots = Known(t) /\ s.lots[l] = row
                /\ \A k \in Known(t) \ {l} : s.lots[k] = Lot(t, k)
                /\ row.status = "closed" /\ row.closing = Lot(t, l).closing
      BY <1>2, CloseFacts
    <2>2. PICK s :
                /\ Save(t, s) /\ Good(s)
                /\ DOMAIN s.lots = Known(t) /\ s.lots[l] = row
                /\ \A k \in Known(t) \ {l} : s.lots[k] = Lot(t, k)
                /\ row.status = "closed" /\ row.closing = Lot(t, l).closing
      BY <2>1
    <2>3. /\ disk' = s /\ cache'[t] = s /\ DOMAIN cache' = Tabs
          /\ \A u \in Tabs \ {t} : cache'[u] = cache[u]
      BY <2>2, SaveFacts DEF DemoInv
    <2>4. Good(disk)' /\ Good(cache[t])'
      BY <2>2, <2>3 DEF Good
    <2> QED
      BY <1>2, <2>2, <2>3, <2>4 DEF Known, Lot
  <1> QED
    BY <1>1, <1>2

LEMMA FireStep ==
  ASSUME DemoInv, NEW t \in Tabs, NEW l \in Lots, Fire(t, l)
  PROVE  DemoInv'
  <1>1. /\ Types /\ TabOK(t) /\ Armed(t) /\ Runs(t) /\ Loaded(t) /\ micro[t] = {}
        /\ timers[t][l] # Never /\ CloseLot(t, l) /\ now' = now
    BY DEF DemoInv, Fire, Idle, Runs
  <1>2. l \in Known(t) /\ Lot(t, l) \in LotRow
    <2>1. l \in Known(t) /\ IsState(cache[t])
      BY <1>1 DEF TabOK, Good
    <2> QED
      BY <2>1, StateFacts DEF Known, Lot
  <1>3. /\ Good(disk)' /\ Good(cache[t])' /\ DOMAIN cache' = Tabs
        /\ \A u \in Tabs \ {t} : cache'[u] = cache[u]
        /\ Known(t)' = Known(t) /\ \A k \in Known(t) \ {l} : Lot(t, k)' = Lot(t, k)
        /\ Lot(t, l)'.closing = Lot(t, l).closing
        /\ ~Closes(t, l) => Lot(t, l)' = Lot(t, l)
        /\ Closes(t, l) => Lot(t, l)'.status = "closed"
    BY <1>1, <1>2, CloseEffect
  <1>4. /\ timers' \in [Tabs -> [Lots -> 0..MaxTime \cup {Never}]]
        /\ micro' = micro
        /\ \A u \in Tabs \ {t} : timers'[u] = timers[u]
        /\ \A k \in Lots \ {l} : timers'[t][k] = timers[t][k]
        /\ Lot(t, l).status = "active" /\ TooEarly(t, l) => timers'[t][l] # Never
    <2>1. CASE Lot(t, l).status = "active" /\ TooEarly(t, l)
      <3>1. /\ ScheduleClose(t, l, Lot(t, l).closing) /\ now < Lot(t, l).closing
            /\ Lot(t, l).closing \in 0..MaxTime
        BY <1>2, <2>1 DEF Fire, Again, TooEarly, LotRow
      <3> QED
        BY <1>1, <3>1, ScheduleFacts
    <2>2. CASE ~(Lot(t, l).status = "active" /\ TooEarly(t, l))
      <3>1. timers' = [timers EXCEPT ![t][l] = Never] /\ micro' = micro
        BY <2>2 DEF Fire
      <3> QED
        BY <1>1, <2>2, <3>1 DEF Types
    <2> QED
      BY <2>1, <2>2
  <1>5. Types'
    BY <1>1, <1>3, <1>4 DEF Types
  <1>6. TabOK(t)'
    BY <1>1, <1>2, <1>3, <1>4 DEF TabOK
  <1>7. Armed(t)'
    <2>1. ASSUME NEW k \in Known(t), Lot(t, k)'.status = "active"
          PROVE  timers'[t][k] # Never \/ k \in micro'[t]
      <3>1. CASE k = l
        BY <1>3, <1>4, <2>1, <3>1 DEF Closes
      <3>2. CASE k # l
        <4>1. k \in Lots
          BY <1>1, StateFacts DEF TabOK, Good, Known
        <4> QED
          BY <1>1, <1>3, <1>4, <2>1, <3>2, <4>1 DEF Armed
      <3> QED
        BY <3>1, <3>2
    <2> QED
      BY <1>3, <2>1 DEF Armed
  <1> QED
    BY <1>1, <1>3, <1>4, <1>5, <1>6, <1>7, TaskOf

LEMMA MicroStep ==
  ASSUME DemoInv, NEW t \in Tabs, NEW l \in Lots, RunMicrotask(t, l)
  PROVE  DemoInv'
  <1>1. /\ Types /\ TabOK(t) /\ Armed(t) /\ Runs(t)
        /\ l \in micro[t] /\ CloseLot(t, l) /\ now' = now /\ timers' = timers
        /\ micro' = [micro EXCEPT ![t] = micro[t] \ {l}]
    BY DEF DemoInv, RunMicrotask, Runs
  <1>2. l \in Known(t) /\ Lot(t, l).closing <= now /\ ~TooEarly(t, l)
    <2>1. l \in Known(t) /\ Lot(t, l).closing <= now /\ IsState(cache[t])
      BY <1>1 DEF TabOK, Good
    <2>2. Lot(t, l) \in LotRow
      BY <2>1, StateFacts DEF Known, Lot
    <2>3. Lot(t, l).closing \in Int /\ now \in Int
      BY <1>1, <2>2 DEF LotRow, Types
    <2> QED
      BY <2>1, <2>3 DEF TooEarly
  <1>3. /\ Good(disk)' /\ Good(cache[t])' /\ DOMAIN cache' = Tabs
        /\ \A u \in Tabs \ {t} : cache'[u] = cache[u]
        /\ Known(t)' = Known(t) /\ \A k \in Known(t) \ {l} : Lot(t, k)' = Lot(t, k)
        /\ Lot(t, l)'.closing = Lot(t, l).closing
        /\ ~Closes(t, l) => Lot(t, l)' = Lot(t, l)
        /\ Closes(t, l) => Lot(t, l)'.status = "closed"
    BY <1>1, <1>2, CloseEffect
  <1>4. /\ micro' \in [Tabs -> SUBSET Lots] /\ micro'[t] = micro[t] \ {l}
        /\ \A u \in Tabs \ {t} : micro'[u] = micro[u]
    BY <1>1 DEF Types
  <1>5. Types'
    BY <1>1, <1>3, <1>4 DEF Types
  <1>6. TabOK(t)'
    BY <1>1, <1>2, <1>3, <1>4 DEF TabOK
  <1>7. Armed(t)'
    <2>1. ASSUME NEW k \in Known(t), Lot(t, k)'.status = "active"
          PROVE  timers'[t][k] # Never \/ k \in micro'[t]
      <3>1. k # l
        BY <1>2, <1>3, <2>1 DEF Closes
      <3> QED
        BY <1>1, <1>3, <1>4, <2>1, <3>1 DEF Armed
    <2> QED
      BY <1>3, <2>1 DEF Armed
  <1> QED
    BY <1>1, <1>3, <1>4, <1>5, <1>6, <1>7, TaskOf


LEMMA DemoStep == DemoInv /\ [Next]_vars => DemoInv'
  <1> SUFFICES ASSUME DemoInv, [Next]_vars PROVE DemoInv'
    OBVIOUS
  <1>1. CASE UNCHANGED vars
    <2>1. Types' /\ Good(disk)' /\ now <= now'
      BY <1>1 DEF vars, DemoInv, Types, Good
    <2>2. ASSUME NEW u \in Tabs PROVE TabOK(u)' /\ Armed(u)'
      BY <1>1, <2>1, Undisturbed DEF vars, DemoInv
    <2> QED
      BY <2>1, <2>2 DEF DemoInv
  <1>2. CASE Tick
    <2>1. Types' /\ Good(disk)' /\ now <= now'
      BY <1>2 DEF Tick, DemoInv, Types, Good
    <2>2. ASSUME NEW u \in Tabs PROVE TabOK(u)' /\ Armed(u)'
      BY <1>2, <2>1, Undisturbed DEF Tick, DemoInv
    <2> QED
      BY <2>1, <2>2 DEF DemoInv
  <1>3. ASSUME NEW t \in Tabs, NEW l \in Lots, NEW u \in Users, BotBids(t, l, u) PROVE DemoInv'
    BY <1>3, BidStep DEF BotBids
  <1> QED
    BY <1>1, <1>2, <1>3, BootStep, LeaveStep, CreateStep, BidStep, FireStep, MicroStep, Zenon
       DEF Next

LEMMA DemoAlways == Spec => []DemoInv
  BY DemoInit, DemoStep, PTL DEF Spec

\* Every variable keeps its type.
THEOREM DemoTypes == Spec => []TypeOK
  <1>1. DemoInv => TypeOK
    BY DEF DemoInv, Types, TabOK, Runs, Good, TypeOK
  <1> QED
    BY <1>1, DemoAlways, PTL

\* In every open tab an active lot has a timer or a queued closeLot, whichever
\* way it came into the copy and however often its closing time moved
\* (engine.ts:83-87, 107-131).
THEOREM AlwaysArmed == Spec => []ArmedWhileOpen
  <1>1. DemoInv => ArmedWhileOpen
    BY DEF DemoInv, Armed, Runs, ArmedWhileOpen
  <1> QED
    BY <1>1, DemoAlways, PTL

-----------------------------------------------------------------------------
(* Each tab is an auction. *)

MirrorOf(s, field, default) ==
  [l \in Lots |-> IF l \in DOMAIN s.lots THEN s.lots[l][field] ELSE default]

\* What Promise sees of a tab that stays open.
LEMMA Seen ==
  ASSUME NEW t \in Tabs, Loaded(t), Loaded(t)', NEW s, cache'[t] = s, NEW field, NEW default
  PROVE  /\ Mirror(t, field, default) = MirrorOf(cache[t], field, default)
         /\ Mirror(t, field, default)' = MirrorOf(s, field, default)
  BY DEF Mirror, MirrorOf, Known, Lot

\* One row differs.
LEMMA RowDiffers ==
  ASSUME NEW c, NEW s, NEW l \in Lots, DOMAIN s.lots = DOMAIN c.lots \cup {l},
         \A k \in DOMAIN c.lots \ {l} : s.lots[k] = c.lots[k], NEW field, NEW default
  PROVE  /\ MirrorOf(s, field, default) = [MirrorOf(c, field, default) EXCEPT ![l] = s.lots[l][field]]
         /\ s.lots[l][field] = MirrorOf(c, field, default)[l]
              => MirrorOf(s, field, default) = MirrorOf(c, field, default)
  BY DEF MirrorOf

LEMMA CreateIsOpen ==
  ASSUME DemoInv, NEW t \in Tabs, NEW l \in Lots, NEW closing \in 1..MaxTime,
         CreateLot(t, l, closing), Loaded(t)'
  PROVE  Promise(t)!Next
  <1> DEFINE s == WithLot(cache[t], l, NewLot(closing))
             c == cache[t]
  <1>1. Loaded(t) /\ Good(c) /\ IsState(c) /\ l \notin DOMAIN c.lots
    BY DEF DemoInv, CreateLot, Idle, TabOK, Runs, Good, Known
  <1>2. NewLot(closing) \in LotRow
    BY DEF NewLot, LotRow, Amounts
  <1>3. /\ s.bids = c.bids /\ DOMAIN s.lots = DOMAIN c.lots \cup {l}
        /\ s.lots[l] = NewLot(closing) /\ \A k \in DOMAIN c.lots \ {l} : s.lots[k] = c.lots[k]
    BY <1>1, <1>2, WithLotFacts
  <1>4. cache'[t] = s
    BY SaveFacts DEF DemoInv, CreateLot
  <1> HIDE DEF s
  <1>5. /\ Mirror(t, "status", "absent") = MirrorOf(c, "status", "absent")
        /\ Mirror(t, "status", "absent")' = MirrorOf(s, "status", "absent")
        /\ Mirror(t, "price", 0) = MirrorOf(c, "price", 0)
        /\ Mirror(t, "price", 0)' = MirrorOf(s, "price", 0)
        /\ Mirror(t, "winner", Nobody) = MirrorOf(c, "winner", Nobody)
        /\ Mirror(t, "winner", Nobody)' = MirrorOf(s, "winner", Nobody)
    BY <1>1, <1>4, Seen
  <1>6. /\ s.lots[l].status = "active" /\ s.lots[l].price = Start /\ s.lots[l].winner = Nobody
        /\ MirrorOf(c, "status", "absent")[l] = "absent" /\ MirrorOf(c, "winner", Nobody)[l] = Nobody
    BY <1>1, <1>3 DEF NewLot, MirrorOf
  <1>7. /\ MirrorOf(s, "status", "absent") = [MirrorOf(c, "status", "absent") EXCEPT ![l] = "active"]
        /\ MirrorOf(s, "price", 0) = [MirrorOf(c, "price", 0) EXCEPT ![l] = Start]
        /\ MirrorOf(s, "winner", Nobody) = MirrorOf(c, "winner", Nobody)
    BY <1>3, <1>6, RowDiffers
  <1>8. Promise(t)!Open(l)
    BY <1>1, <1>3, <1>4, <1>5, <1>6, <1>7 DEF Promise!Open
  <1> QED
    BY <1>8 DEF Promise!Next


LEMMA BidIsOutbid ==
  ASSUME DemoInv, NEW t \in Tabs, NEW l \in Lots, NEW u \in Users, NEW amount \in Amounts,
         PlaceBid(t, l, u, amount), Loaded(t)'
  PROVE  Promise(t)!Next
  <1> DEFINE c == cache[t]
             bid == [user |-> u, amount |-> amount]
  <1>1. PICK row \in LotRow : \E s :
           /\ Loaded(t) /\ l \in Known(t) /\ Save(t, s) /\ Good(s)
           /\ BidWritten(c, s, l, row, bid)
           /\ Lot(t, l).status = "active" /\ row.status = "active"
           /\ amount > Lot(t, l).price /\ amount >= Lot(t, l).price + MinStep
           /\ row.price = amount /\ row.winner = Lot(t, l).winner
    BY BidFacts
  <1>2. PICK s :
           /\ Loaded(t) /\ l \in Known(t) /\ Save(t, s) /\ Good(s)
           /\ BidWritten(c, s, l, row, bid)
           /\ Lot(t, l).status = "active" /\ row.status = "active"
           /\ amount > Lot(t, l).price /\ amount >= Lot(t, l).price + MinStep
           /\ row.price = amount /\ row.winner = Lot(t, l).winner
    BY <1>1
  <1>3. Loaded(t) /\ Good(c) /\ l \in DOMAIN c.lots /\ cache'[t] = s
    BY <1>2, SaveFacts DEF DemoInv, TabOK, Runs, Known
  <1>4. /\ DOMAIN s.lots = DOMAIN c.lots \cup {l} /\ s.lots[l] = row
        /\ \A k \in DOMAIN c.lots \ {l} : s.lots[k] = c.lots[k]
        /\ s.bids = [c.bids EXCEPT ![l] = Append(c.bids[l], bid)]
    BY <1>2, <1>3 DEF BidWritten
  <1>5. /\ Mirror(t, "status", "absent") = MirrorOf(c, "status", "absent")
        /\ Mirror(t, "status", "absent")' = MirrorOf(s, "status", "absent")
        /\ Mirror(t, "price", 0) = MirrorOf(c, "price", 0)
        /\ Mirror(t, "price", 0)' = MirrorOf(s, "price", 0)
        /\ Mirror(t, "winner", Nobody) = MirrorOf(c, "winner", Nobody)
        /\ Mirror(t, "winner", Nobody)' = MirrorOf(s, "winner", Nobody)
    BY <1>3, Seen
  <1>6. /\ MirrorOf(c, "status", "absent")[l] = "active" /\ row.status = "active"
        /\ MirrorOf(c, "winner", Nobody)[l] = row.winner
        /\ amount > MirrorOf(c, "price", 0)[l] /\ amount >= MirrorOf(c, "price", 0)[l] + MinStep
    BY <1>2, <1>3 DEF MirrorOf, Lot
  <1>7. /\ MirrorOf(s, "status", "absent") = MirrorOf(c, "status", "absent")
        /\ MirrorOf(s, "price", 0) = [MirrorOf(c, "price", 0) EXCEPT ![l] = amount]
        /\ MirrorOf(s, "winner", Nobody) = MirrorOf(c, "winner", Nobody)
    <2>1. /\ MirrorOf(s, "status", "absent")
               = [MirrorOf(c, "status", "absent") EXCEPT ![l] = s.lots[l]["status"]]
          /\ s.lots[l]["status"] = MirrorOf(c, "status", "absent")[l]
               => MirrorOf(s, "status", "absent") = MirrorOf(c, "status", "absent")
      BY <1>4 DEF MirrorOf
    <2>2. /\ MirrorOf(s, "price", 0)
               = [MirrorOf(c, "price", 0) EXCEPT ![l] = s.lots[l]["price"]]
          /\ s.lots[l]["price"] = MirrorOf(c, "price", 0)[l]
               => MirrorOf(s, "price", 0) = MirrorOf(c, "price", 0)
      BY <1>4 DEF MirrorOf
    <2>3. /\ MirrorOf(s, "winner", Nobody)
               = [MirrorOf(c, "winner", Nobody) EXCEPT ![l] = s.lots[l]["winner"]]
          /\ s.lots[l]["winner"] = MirrorOf(c, "winner", Nobody)[l]
               => MirrorOf(s, "winner", Nobody) = MirrorOf(c, "winner", Nobody)
      BY <1>4 DEF MirrorOf
    <2> QED
      BY <1>2, <1>4, <1>6, <2>1, <2>2, <2>3
  <1>8. TopBidder(s.bids[l]) = u /\ \A k \in Lots \ {l} : s.bids[k] = c.bids[k]
    <2> DEFINE bids == s.bids[l]
    <2>1. /\ bids \in Seq(Bid) /\ c.bids \in [Lots -> Seq(Bid)] /\ c.bids[l] \in Seq(Bid)
          /\ \A i, j \in DOMAIN bids : j < i => bids[j].amount < bids[i].amount
      BY <1>2, <1>3, StateFacts DEF Good
    <2>2. bids = Append(c.bids[l], bid) /\ \A k \in Lots \ {l} : s.bids[k] = c.bids[k]
      BY <1>4, <2>1
    <2> HIDE DEF bids
    <2>3. bid \in Bid
      BY DEF Bid
    <2> HIDE DEF bid
    <2>4. bids # <<>> /\ bids[Len(bids)] = bid
      BY <2>1, <2>2, <2>3
    <2>5. TopBidder(bids) = bid.user
      BY <2>1, <2>4, LastLeads
    <2> QED
      BY <2>2, <2>5 DEF bids, bid
  <1>9. [k \in Lots |-> TopBidder(s.bids[k])]
          = [[k \in Lots |-> TopBidder(c.bids[k])] EXCEPT ![l] = u]
    BY <1>8
  <1>10. Promise(t)!Outbid(l, u, amount)
    BY <1>3, <1>5, <1>6, <1>7, <1>9 DEF Promise!Outbid
  <1> QED
    BY <1>10 DEF Promise!Next

LEMMA CloseIsClose ==
  ASSUME DemoInv, NEW t \in Tabs, NEW l \in Lots, Loaded(t), Loaded(t)', l \in Known(t),
         CloseLot(t, l)
  PROVE  Promise(t)!Next \/ UNCHANGED cache[t]
  <1> DEFINE c == cache[t]
  <1>1. CASE ~Closes(t, l)
    BY <1>1, CloseFacts DEF Runs
  <1>2. CASE Closes(t, l)
    <2>1. PICK row \in LotRow : \E s :
                /\ Save(t, s) /\ s.bids = c.bids
                /\ DOMAIN s.lots = Known(t) /\ s.lots[l] = row
                /\ \A k \in Known(t) \ {l} : s.lots[k] = Lot(t, k)
                /\ row.status = "closed" /\ row.price = Lot(t, l).price
                /\ row.winner = TopBidder(c.bids[l])
      BY <1>2, CloseFacts DEF Runs
    <2>2. PICK s :
                /\ Save(t, s) /\ s.bids = c.bids
                /\ DOMAIN s.lots = Known(t) /\ s.lots[l] = row
                /\ \A k \in Known(t) \ {l} : s.lots[k] = Lot(t, k)
                /\ row.status = "closed" /\ row.price = Lot(t, l).price
                /\ row.winner = TopBidder(c.bids[l])
      BY <2>1
    <2>3. /\ DOMAIN s.lots = DOMAIN c.lots \cup {l} /\ s.lots[l] = row /\ l \in DOMAIN c.lots
          /\ \A k \in DOMAIN c.lots \ {l} : s.lots[k] = c.lots[k]
          /\ cache'[t] = s
      BY <2>2, SaveFacts DEF Known, Lot, DemoInv
    <2>4. /\ Mirror(t, "status", "absent") = MirrorOf(c, "status", "absent")
          /\ Mirror(t, "status", "absent")' = MirrorOf(s, "status", "absent")
          /\ Mirror(t, "price", 0) = MirrorOf(c, "price", 0)
          /\ Mirror(t, "price", 0)' = MirrorOf(s, "price", 0)
          /\ Mirror(t, "winner", Nobody) = MirrorOf(c, "winner", Nobody)
          /\ Mirror(t, "winner", Nobody)' = MirrorOf(s, "winner", Nobody)
      BY <2>3, Seen
    <2>5. /\ MirrorOf(c, "status", "absent")[l] = "active"
          /\ MirrorOf(c, "price", 0)[l] = row.price
      BY <1>2, <2>2, <2>3 DEF Closes, MirrorOf, Lot
    <2>6. /\ MirrorOf(s, "status", "absent") = [MirrorOf(c, "status", "absent") EXCEPT ![l] = "closed"]
          /\ MirrorOf(s, "price", 0) = MirrorOf(c, "price", 0)
          /\ MirrorOf(s, "winner", Nobody) =
               [MirrorOf(c, "winner", Nobody) EXCEPT ![l] = TopBidder(c.bids[l])]
      <3>1. /\ MirrorOf(s, "status", "absent")
                 = [MirrorOf(c, "status", "absent") EXCEPT ![l] = s.lots[l]["status"]]
            /\ s.lots[l]["status"] = MirrorOf(c, "status", "absent")[l]
                 => MirrorOf(s, "status", "absent") = MirrorOf(c, "status", "absent")
        BY <2>3 DEF MirrorOf
      <3>2. /\ MirrorOf(s, "price", 0)
                 = [MirrorOf(c, "price", 0) EXCEPT ![l] = s.lots[l]["price"]]
            /\ s.lots[l]["price"] = MirrorOf(c, "price", 0)[l]
                 => MirrorOf(s, "price", 0) = MirrorOf(c, "price", 0)
        BY <2>3 DEF MirrorOf
      <3>3. /\ MirrorOf(s, "winner", Nobody)
                 = [MirrorOf(c, "winner", Nobody) EXCEPT ![l] = s.lots[l]["winner"]]
            /\ s.lots[l]["winner"] = MirrorOf(c, "winner", Nobody)[l]
                 => MirrorOf(s, "winner", Nobody) = MirrorOf(c, "winner", Nobody)
        BY <2>3 DEF MirrorOf
      <3> QED
        BY <2>2, <2>3, <2>5, <3>1, <3>2, <3>3
    <2>7. Promise(t)!Close(l)
      BY <2>2, <2>3, <2>4, <2>5, <2>6 DEF Promise!Close
    <2> QED
      BY <2>7 DEF Promise!Next
  <1> QED
    BY <1>1, <1>2

LEMMA EachStep ==
  ASSUME DemoInv, [Next]_vars
  PROVE  \A u \in Tabs : AuctionStep(u)
  <1>1. ASSUME \A u \in Tabs : cache'[u] = cache[u] PROVE \A u \in Tabs : AuctionStep(u)
    BY <1>1 DEF AuctionStep
  <1>2. ASSUME NEW t \in Tabs, \A u \in Tabs \ {t} : cache'[u] = cache[u], AuctionStep(t)
        PROVE  \A u \in Tabs : AuctionStep(u)
    BY <1>2 DEF AuctionStep
  <1>3. ASSUME NEW t \in Tabs, Boot(t) \/ Leave(t) PROVE \A u \in Tabs : AuctionStep(u)
    <2>1. \A u \in Tabs \ {t} : cache'[u] = cache[u]
      BY <1>3 DEF Boot, Leave, DemoInv, Types
    <2>2. ~Loaded(t) \/ ~Loaded(t)'
      BY <1>3 DEF Boot, Leave, DemoInv, Types, Loaded
    <2> QED
      BY <1>2, <2>1, <2>2 DEF AuctionStep
  <1>4. ASSUME NEW t \in Tabs, NEW l \in Lots, NEW closing \in 1..MaxTime,
               CreateLot(t, l, closing)
        PROVE  \A u \in Tabs : AuctionStep(u)
    <2>1. \A u \in Tabs \ {t} : cache'[u] = cache[u]
      BY <1>4, SaveFacts DEF CreateLot, DemoInv
    <2>2. AuctionStep(t)
      BY <1>4, CreateIsOpen DEF AuctionStep
    <2> QED
      BY <1>2, <2>1, <2>2
  <1>5. ASSUME NEW t \in Tabs, NEW l \in Lots, NEW u \in Users, NEW amount \in Amounts,
               PlaceBid(t, l, u, amount)
        PROVE  \A v \in Tabs : AuctionStep(v)
    <2>1. \A v \in Tabs \ {t} : cache'[v] = cache[v]
      BY <1>5, SaveFacts DEF PlaceBid, DemoInv
    <2>2. AuctionStep(t)
      BY <1>5, BidIsOutbid DEF AuctionStep
    <2> QED
      BY <1>2, <2>1, <2>2
  <1>6. ASSUME NEW t \in Tabs, NEW l \in Lots, Fire(t, l) \/ RunMicrotask(t, l)
        PROVE  \A u \in Tabs : AuctionStep(u)
    <2>1. Runs(t) /\ l \in Known(t) /\ CloseLot(t, l)
      BY <1>6 DEF Fire, RunMicrotask, Idle, Runs, DemoInv, TabOK
    <2>2. \A u \in Tabs \ {t} : cache'[u] = cache[u]
      BY <2>1, CloseEffect
    <2>3. AuctionStep(t)
      BY <2>1, CloseIsClose DEF AuctionStep
    <2> QED
      BY <1>2, <2>2, <2>3
  <1>7. CASE Tick \/ UNCHANGED vars
    BY <1>1, <1>7 DEF Tick, vars
  <1>8. ASSUME NEW t \in Tabs, NEW l \in Lots, NEW u \in Users, BotBids(t, l, u)
        PROVE  \A v \in Tabs : AuctionStep(v)
    BY <1>5, <1>8 DEF BotBids
  <1> QED
    BY <1>3, <1>4, <1>5, <1>6, <1>7, <1>8, Zenon DEF Next

\* The copy of a tab takes the steps of one auction for as long as the tab
\* stays open, whatever the other tabs write over the stored state
\* (engine.ts:48-124, store.ts:17-31).
THEOREM TabsAreAuctions == Spec => EachTabIsAnAuction
  <1>1. DemoInv /\ [Next]_vars => [\A t \in Tabs : AuctionStep(t)]_vars
    BY EachStep
  <1> QED
    BY <1>1, DemoAlways, PTL DEF Spec, EachTabIsAnAuction

=============================================================================
