------------------------ MODULE AuctionEngineTheorems ------------------------
(***************************************************************************)
(* What AuctionEngine guarantees, for every number of lots, replicas,      *)
(* bidders and closers, every price, clock bound and number of failures,   *)
(* with and without FOR UPDATE.                                            *)
(***************************************************************************)
EXTENDS AuctionEngineInvariant

USE NamesAssumption, MoneyAssumption, TimeAssumption

\* No lost update: the price of a lot is its highest recorded bid.
THEOREM PriceCorrect == Spec => []PriceIsHighestBid
  <1>1. IInv => PriceIsHighestBid
    BY DEF IInv, TableInv
  <1> QED
    BY <1>1, Invariant, PTL

\* A closed lot has the highest bidder as its winner.
THEOREM WinnerCorrect == Spec => []WinnerIsHighestBidder
  <1>1. IInv => WinnerIsHighestBidder
    BY DEF IInv, TableInv, WinnerInv
  <1> QED
    BY <1>1, Invariant, PTL

\* Under SELECT ... FOR UPDATE, PlaceBid never goes round its loop.
THEOREM NoRetry == Spec => []NoRetryUnderRowLock
  <1>1. IInv => NoRetryUnderRowLock
    BY DEF IInv, TableInv
  <1> QED
    BY <1>1, Invariant, PTL

-----------------------------------------------------------------------------
(* Who writes the tables: the creation of a lot, a commit of PlaceBid and  *)
(* the UPDATE of a closer; every other step leaves them alone.             *)

Writes ==
  \/ row' = row /\ bids' = bids
  \/ \E l \in Lots, r \in Replicas, t \in ClosingTimes, z \in Offsets : Opened(l, r, t, z)
  \/ \E q \in Bidders : Committed(q)
  \/ \E c \in Closers : Shut(c)

LEMMA WhoWrites == [Next]_vars => Writes
  <1> SUFFICES ASSUME [Next]_vars PROVE Writes
    OBVIOUS
  <1>1. CASE Tick \/ UNCHANGED vars
    BY <1>1 DEF Writes, Tick, vars, db
  <1>2. ASSUME NEW l \in Lots, NEW r \in Replicas,
               \/ \E t \in ClosingTimes, z \in Offsets :
                    CreateLot(l, r, t, z) \/ CreateReplyLost(l, r, t, z)
               \/ \E q \in Bidders, a \in Amounts : PlaceBid(q, l, r, a)
               \/ TimerFires(r, l)
        PROVE  Writes
    BY <1>2 DEF Writes, CreateLot, CreateReplyLost, PlaceBid, TimerFires, FireTimer, db
  <1>3. ASSUME NEW q \in Bidders, BidderStep(q) \/ CancelBid(q) \/ CommitReplyLost(q)
        PROVE  Writes
    <2>1. CASE CommitBid(q) \/ CommitReplyLost(q)
      BY <2>1 DEF Writes, CommitBid, CommitReplyLost
    <2>2. CASE AdmitBid(q) \/ RefuseBid(q) \/ CreateBid(q) \/ UpdateBid(q) \/ RetryBid(q)
      BY <2>2 DEF Writes, AdmitBid, RefuseBid, CreateBid, UpdateBid, RetryBid, RolledBack, db
    <2>3. CASE CancelBid(q) \/ BroadcastNewBid(q) \/ BroadcastExtended(q)
      BY <2>3 DEF Writes, CancelBid, RolledBack, BroadcastNewBid, BroadcastExtended, db
    <2> QED
      BY <1>3, <2>1, <2>2, <2>3 DEF BidderStep
  <1>4. ASSUME NEW c \in Closers, CloserStep(c) \/ CloseReplyLost(c) \/ CloserFails(c)
        PROVE  Writes
    <2>1. CASE ReadForClose(c) \/ CheckClosing(c) \/ CloserFails(c)
      BY <2>1 DEF Writes, ReadForClose, CheckClosing, CloserFails, db
    <2>2. CASE CloseRow(c) \/ CloseReplyLost(c)
      BY <2>2 DEF Writes, CloseRow, CloseReplyLost
    <2>3. CASE CloseLost(c) \/ ClearTimer(c) \/ BroadcastClosed(c)
      BY <2>3 DEF Writes, CloseLost, ClearTimer, BroadcastClosed, db
    <2> QED
      BY <1>4, <2>1, <2>2, <2>3 DEF CloserStep
  <1>5. ASSUME NEW g \in Goroutines,
               ScheduleStep(g) \/ \E c \in Closers : FireUninstalled(g, c)
        PROVE  Writes
    BY <1>5 DEF Writes, ScheduleStep, ArmTimer, InstallTimer, CloseAtOnce, FireUninstalled, db
  <1>6. ASSUME NEW r \in Replicas, Stop(r) \/ Restart(r) \/ RestartBlind(r)
        PROVE  Writes
    BY <1>6 DEF Writes, Stop, Restart, RestartBlind, db
  <1> QED
    BY <1>1, <1>2, <1>3, <1>4, <1>5, <1>6 DEF Next

\* What the creation of a lot does to the tables.
LEMMA CreationFacts ==
  ASSUME TypeInv, IInv, NEW l \in Lots, NEW r \in Replicas, NEW t \in ClosingTimes,
         NEW z \in Offsets, Opened(l, r, t, z)
  PROVE  /\ row[l].status = "absent" /\ row[l].winner = Nobody /\ bids[l] = {} /\ bids' = bids
         /\ row'[l].status = "active" /\ row'[l].price = Cents(StartPrice)
         /\ row'[l].winner = Nobody
         /\ row' = [row EXCEPT ![l] = row'[l]]
  <1>1. pc[l] = "idle" /\ row' = [row EXCEPT ![l] = OpenRow(t + z)] /\ bids' = bids
    BY DEF Opened
  <1>2. row[l].status = "absent" /\ bids[l] = {} /\ row[l].winner = Nobody
    BY <1>1 DEF IInv, TableInv, OpenInv, WinnerInv
  <1> QED
    BY <1>1, <1>2 DEF OpenRow, TypeInv, TypeOK

\* What the commit of a bid does.
LEMMA CommitFacts ==
  ASSUME TypeInv, IInv, NEW q \in Bidders, Committed(q)
  PROVE  LET l == Lot(q)
             b == Mine(q)
         IN  /\ l \in Lots /\ frame[q].amount \in Amounts
             /\ row[l].status = "active" /\ row'[l].status = "active"
             /\ row'[l].winner = row[l].winner
             /\ b.by = q /\ b.amount = Cents(frame[q].amount)
             /\ row'[l].price = b.amount /\ b.amount >= row[l].price + Step
             /\ SnipingWindow <= SnipingExtension => row'[l].closing >= row[l].closing
             /\ row' = [row EXCEPT ![l] = row'[l]]
             /\ bids' = [bids EXCEPT ![l] = bids[l] \cup {b}]
  <1>1. pc[q] = "commit" /\ q \in Goroutines /\ row' = [row EXCEPT ![Lot(q)] = Snap(q)]
    BY DEF Committed, Goroutines
  <1>2. Lot(q) \in Lots /\ row \in [Lots -> Row]
    BY <1>1, AtWork DEF Finished, TypeInv, TypeOK
  <1>3. /\ frame[q].amount \in Amounts
        /\ row[Lot(q)].status = "active" /\ Snap(q).status = "active"
        /\ Snap(q).winner = row[Lot(q)].winner
        /\ Snap(q).price = Cents(frame[q].amount)
        /\ Snap(q).price >= row[Lot(q)].price + Step
        /\ SnipingWindow <= SnipingExtension => Snap(q).closing >= row[Lot(q)].closing
    BY <1>1, Zenon DEF IInv, TableInv, BidderInv, WrittenOK
  <1>4. row'[Lot(q)] = Snap(q)
    BY <1>1, <1>2
  <1>5. inserted[q] = {Mine(q)} /\ Mine(q).by = q /\ Mine(q).amount = Cents(frame[q].amount)
    BY <1>1 DEF IInv, InsertInv, InsertOK, Mine
  <1> QED
    BY <1>1, <1>2, <1>3, <1>4, <1>5 DEF Committed

\* What the UPDATE of a closer does.
LEMMA ClosingFacts ==
  ASSUME TypeInv, IInv, NEW c \in Closers, Shut(c)
  PROVE  LET l == Lot(c)
         IN  /\ l \in Lots /\ bids' = bids
             /\ row[l].status = "active" /\ row'[l].status = "closed"
             /\ row'[l].price = row[l].price /\ row'[l].closing = row[l].closing
             /\ row[l].closing <= now
             /\ Best(row'[l].winner, bids[l])
             /\ row' = [row EXCEPT ![l] = row'[l]]
  <1>1. /\ pc[c] = "close" /\ c \in Goroutines /\ VersionMatches(c) /\ bids' = bids
        /\ row' = [row EXCEPT ![Lot(c)] = Closed(Snap(c))]
    BY DEF Shut, Goroutines
  <1>2. Lot(c) \in Lots /\ Snap(c) \in Row /\ row \in [Lots -> Row]
    BY <1>1, AtWork DEF Finished, TypeInv, TypeOK
  <1>3. /\ row[Lot(c)].status = "active" /\ Snap(c).price = row[Lot(c)].price
        /\ Snap(c).closing = row[Lot(c)].closing /\ Snap(c).closing <= now
        /\ Best(Snap(c).winner, bids[Lot(c)])
    BY <1>1, Zenon DEF IInv, TableInv, CloserInv, CopyOK, ChosenOK
  <1>4. row'[Lot(c)] = Closed(Snap(c))
    BY <1>1, <1>2
  <1> QED
    BY <1>1, <1>2, <1>3, <1>4, ClosedFields

\* A closed lot stays as it is, whatever transactions read it before.
THEOREM ClosedForGood == Spec => NoBidAfterClose
  <1>1. ASSUME TypeInv, IInv, [Next]_vars, NEW l \in Lots, row[l].status = "closed"
        PROVE  row'[l] = row[l] /\ bids'[l] = bids[l]
    <2>1. CASE row' = row /\ bids' = bids
      BY <2>1
    <2>2. ASSUME NEW k \in Lots, NEW r \in Replicas, NEW t \in ClosingTimes, NEW z \in Offsets,
                 Opened(k, r, t, z)
          PROVE  row'[l] = row[l] /\ bids'[l] = bids[l]
      BY <1>1, <2>2, CreationFacts DEF TypeInv, TypeOK
    <2>3. ASSUME NEW q \in Bidders, Committed(q)
          PROVE  row'[l] = row[l] /\ bids'[l] = bids[l]
      BY <1>1, <2>3, CommitFacts DEF TypeInv, TypeOK
    <2>4. ASSUME NEW c \in Closers, Shut(c)
          PROVE  row'[l] = row[l] /\ bids'[l] = bids[l]
      BY <1>1, <2>4, ClosingFacts DEF TypeInv, TypeOK
    <2> QED
      BY <1>1, <2>1, <2>2, <2>3, <2>4, WhoWrites DEF Writes
  <1>2. TypeInv /\ IInv /\ [Next]_vars =>
          [\A l \in Lots : row[l].status = "closed" =>
             row'[l] = row[l] /\ bids'[l] = bids[l]]_<<row, bids>>
    BY <1>1
  <1> QED
    BY <1>2, Invariant, PTL DEF Spec, NoBidAfterClose

\* A lot is closed only at or after the closing time it has by then.
THEOREM ClosedInTime == Spec => NeverClosedEarly
  <1>1. ASSUME TypeInv, IInv, [Next]_vars, NEW l \in Lots,
               row[l].status = "active", row'[l].status = "closed"
        PROVE  now >= row[l].closing
    <2>1. CASE row' = row
      BY <1>1, <2>1
    <2>2. ASSUME NEW k \in Lots, NEW r \in Replicas, NEW t \in ClosingTimes, NEW z \in Offsets,
                 Opened(k, r, t, z)
          PROVE  FALSE
      BY <1>1, <2>2, CreationFacts DEF TypeInv, TypeOK
    <2>3. ASSUME NEW q \in Bidders, Committed(q)
          PROVE  FALSE
      BY <1>1, <2>3, CommitFacts DEF TypeInv, TypeOK
    <2>4. ASSUME NEW c \in Closers, Shut(c)
          PROVE  now >= row[l].closing
      <3>1. l = Lot(c)
        BY <1>1, <2>4, ClosingFacts DEF TypeInv, TypeOK
      <3>2. row[l] \in Row /\ now \in Nat
        BY <1>1 DEF TypeInv, TypeOK
      <3>3. row[l].closing \in Int
        BY <3>2 DEF Row
      <3> QED
        BY <1>1, <2>4, <3>1, <3>2, <3>3, ClosingFacts
    <2> QED
      BY <1>1, <2>1, <2>2, <2>3, <2>4, WhoWrites DEF Writes
  <1>2. TypeInv /\ IInv /\ [Next]_vars =>
          [\A l \in Lots : row[l].status = "active" /\ row'[l].status = "closed" =>
             now >= row[l].closing]_row
    BY <1>1
  <1> QED
    BY <1>2, Invariant, PTL DEF Spec, NeverClosedEarly

\* Anti-sniping only moves the closing time later, when the extension is at
\* least the window; nothing in config.go makes it so.
THEOREM OnlyLater == SnipingWindow <= SnipingExtension => (Spec => ClosingNeverEarlier)
  <1> SUFFICES ASSUME SnipingWindow <= SnipingExtension PROVE Spec => ClosingNeverEarlier
    OBVIOUS
  <1>1. ASSUME TypeInv, IInv, [Next]_vars, NEW l \in Lots, row[l].status = "active"
        PROVE  row'[l].closing >= row[l].closing
    <2>1. row \in [Lots -> Row] /\ row[l].closing \in Int
      BY <1>1 DEF TypeInv, TypeOK, Row
    <2>2. CASE row' = row
      BY <2>1, <2>2
    <2>3. ASSUME NEW k \in Lots, NEW r \in Replicas, NEW t \in ClosingTimes, NEW z \in Offsets,
                 Opened(k, r, t, z)
          PROVE  row'[l] = row[l]
      BY <1>1, <2>1, <2>3, CreationFacts
    <2>4. ASSUME NEW q \in Bidders, Committed(q)
          PROVE  row'[l].closing >= row[l].closing
      BY <1>1, <2>1, <2>4, CommitFacts
    <2>5. ASSUME NEW c \in Closers, Shut(c)
          PROVE  row'[l].closing = row[l].closing
      BY <1>1, <2>1, <2>5, ClosingFacts
    <2> QED
      BY <1>1, <2>1, <2>2, <2>3, <2>4, <2>5, WhoWrites DEF Writes
  <1>2. TypeInv /\ IInv /\ [Next]_vars =>
          [\A l \in Lots : row[l].status = "active" => row'[l].closing >= row[l].closing]_row
    BY <1>1
  <1> QED
    BY <1>2, Invariant, PTL DEF Spec, ClosingNeverEarlier

\* When the minimum step is a cent or more, every recorded bid raises the
\* price; the run find_subcent shows the step that rounds to nothing.
THEOREM BidRaisesPrice == Step > 0 => (Spec => EveryBidRaisesPrice)
  <1> SUFFICES ASSUME Step > 0 PROVE Spec => EveryBidRaisesPrice
    OBVIOUS
  <1>1. ASSUME TypeInv, IInv, [Next]_vars, NEW l \in Lots, bids'[l] # bids[l]
        PROVE  row'[l].price > row[l].price
    <2>1. /\ row \in [Lots -> Row] /\ bids \in [Lots -> SUBSET [by : Bidders, amount : Nat, try : Nat]]
          /\ row[l].price \in Nat
      BY <1>1 DEF TypeInv, TypeOK, Row
    <2>2. ASSUME NEW q \in Bidders, Committed(q)
          PROVE  row'[l].price > row[l].price
      <3>1. l = Lot(q)
        BY <1>1, <2>1, <2>2, CommitFacts
      <3>2. frame[q].amount \in Nat /\ Cents(frame[q].amount) \in Nat /\ Step \in Nat
        BY <1>1, <2>2, CommitFacts, CentsType DEF Step
      <3>3. row'[l].price = Cents(frame[q].amount) /\ row'[l].price >= row[l].price + Step
        BY <1>1, <2>2, <3>1, CommitFacts
      <3> QED
        BY <2>1, <3>2, <3>3, SMT
    <2>3. ASSUME NEW k \in Lots, NEW r \in Replicas, NEW t \in ClosingTimes, NEW z \in Offsets,
                 Opened(k, r, t, z)
          PROVE  FALSE
      BY <1>1, <2>3, CreationFacts
    <2>4. ASSUME NEW c \in Closers, Shut(c)
          PROVE  FALSE
      BY <1>1, <2>4, ClosingFacts
    <2> QED
      BY <1>1, <2>2, <2>3, <2>4, WhoWrites DEF Writes
  <1>2. TypeInv /\ IInv /\ [Next]_vars =>
          [\A l \in Lots : bids'[l] # bids[l] => row'[l].price > row[l].price]_<<row, bids>>
    BY <1>1
  <1> QED
    BY <1>2, Invariant, PTL DEF Spec, EveryBidRaisesPrice

-----------------------------------------------------------------------------
(* Refinement.  The engine never records who leads: a closer asks table    *)
(* bids for the highest amount, which names one bidder only because no two *)
(* bids on a lot have the same amount.                                     *)

Distinct ==
  \A l \in Lots : \A b, d \in bids[l] : b.amount = d.amount => b = d

LEMMA DistinctStep ==
  ASSUME Step > 0, TypeInv, IInv, Distinct, [Next]_vars
  PROVE  Distinct'
  <1>1. row \in [Lots -> Row] /\ bids \in [Lots -> SUBSET [by : Bidders, amount : Nat, try : Nat]]
    BY DEF TypeInv, TypeOK
  <1>2. CASE bids' = bids
    BY <1>2 DEF Distinct
  <1>3. ASSUME NEW q \in Bidders, Committed(q)
        PROVE  Distinct'
    <2> DEFINE k == Lot(q)
               n == Mine(q)
    <2>1. /\ k \in Lots /\ n.amount = Cents(frame[q].amount) /\ n.amount >= row[k].price + Step /\ row[k].status = "active"
          /\ bids' = [bids EXCEPT ![k] = bids[k] \cup {n}] /\ frame[q].amount \in Nat
      BY <1>3, CommitFacts
    <2>2. n.amount \in Nat /\ Step \in Nat /\ row[k].price \in Nat
      BY <1>1, <2>1, CentsType DEF Step, Row
    <2>3. \A b \in bids[k] : b.amount \in Nat /\ b.amount <= row[k].price
      BY <1>1, <2>1 DEF IInv, TableInv, PriceIsHighestBid
    <2> HIDE DEF k, n
    <2>4. \A b \in bids[k] : b.amount # n.amount
      BY <2>1, <2>2, <2>3
    <2>5. bids'[k] = bids[k] \cup {n} /\ \A l \in Lots \ {k} : bids'[l] = bids[l]
      BY <1>1, <2>1
    <2> SUFFICES ASSUME NEW l \in Lots, NEW b \in bids'[l], NEW d \in bids'[l],
                        b.amount = d.amount
                 PROVE  b = d
      BY Zenon DEF Distinct
    <2>6. CASE l = k
      <3>1. b \in bids[k] /\ d \in bids[k] => b = d
        BY <2>1 DEF Distinct
      <3> QED
        BY <2>4, <2>5, <2>6, <3>1
    <2>7. CASE l # k
      BY <2>5, <2>7 DEF Distinct
    <2> QED
      BY <2>6, <2>7
  <1> QED
    BY <1>2, <1>3, WhoWrites, CreationFacts, ClosingFacts DEF Writes

Top(S) ==
  IF S = {} THEN Nobody ELSE (CHOOSE b \in S : \A d \in S : d.amount <= b.amount).by

\* The leader is whoever placed a bid that no other bid reaches.
LEMMA OneTop ==
  ASSUME NEW S, NEW w, Best(w, S),
         \A b, d \in S : b.amount = d.amount => b = d,
         \A b \in S : b.amount \in Nat
  PROVE  Top(S) = w
  <1>1. CASE S = {}
    BY <1>1 DEF Top, Best
  <1>2. CASE S # {}
    <2>1. PICK t \in S : t.by = w /\ \A d \in S : d.amount <= t.amount
      BY <1>2 DEF Best
    <2>2. ASSUME NEW b \in S, \A d \in S : d.amount <= b.amount
          PROVE  b = t
      <3>1. b.amount = t.amount
        BY <2>1, <2>2
      <3> QED
        BY <3>1
    <2>3. (CHOOSE b \in S : \A d \in S : d.amount <= b.amount) = t
      BY <2>1, <2>2
    <2> QED
      BY <1>2, <2>1, <2>3 DEF Top
  <1> QED
    BY <1>1, <1>2

Statuses == [l \in Lots |-> row[l].status]
Pricing  == [l \in Lots |-> row[l].price]
Leaders  == [l \in Lots |-> Leader(l)]
Winners  == [l \in Lots |-> row[l].winner]

\* The initial tables are an auction with no lots.
LEMMA RefinesInit == Init => Promise!Init
  BY DEF Init, Promise!Init, NoRow, Leader

\* When one row changes, the other lots of the abstract auction keep still.
LEMMA OneLotMoves ==
  ASSUME TypeInv, NEW l \in Lots, row' = [row EXCEPT ![l] = row'[l]]
  PROVE  /\ Statuses' = [Statuses EXCEPT ![l] = row'[l].status]
         /\ Pricing' = [Pricing EXCEPT ![l] = row'[l].price]
         /\ Winners' = [Winners EXCEPT ![l] = row'[l].winner]
         /\ Statuses[l] = row[l].status /\ Pricing[l] = row[l].price
         /\ Winners[l] = row[l].winner /\ Leaders[l] = Leader(l)
         /\ row'[l].status = row[l].status => Statuses' = Statuses
         /\ row'[l].price = row[l].price => Pricing' = Pricing
         /\ row'[l].winner = row[l].winner => Winners' = Winners
  <1>1. row \in [Lots -> Row]
    BY DEF TypeInv, TypeOK
  <1>2. \A k \in Lots \ {l} : row'[k] = row[k]
    BY <1>1
  <1>3. /\ Statuses' = [Statuses EXCEPT ![l] = row'[l].status]
        /\ row'[l].status = row[l].status => Statuses' = Statuses
    BY <1>2 DEF Statuses
  <1>4. /\ Pricing' = [Pricing EXCEPT ![l] = row'[l].price]
        /\ row'[l].price = row[l].price => Pricing' = Pricing
    BY <1>2 DEF Pricing
  <1>5. /\ Winners' = [Winners EXCEPT ![l] = row'[l].winner]
        /\ row'[l].winner = row[l].winner => Winners' = Winners
    BY <1>2 DEF Winners
  <1> QED
    BY <1>3, <1>4, <1>5 DEF Statuses, Pricing, Winners, Leaders

LEMMA LeadersStay == bids' = bids => Leaders' = Leaders
  BY DEF Leaders, Leader

LEMMA RefinesOpen ==
  ASSUME TypeInv, IInv, NEW l \in Lots, NEW r \in Replicas, NEW t \in ClosingTimes,
         NEW z \in Offsets, Opened(l, r, t, z)
  PROVE  Promise!Next
  <1>1. /\ row[l].status = "absent" /\ row[l].winner = Nobody /\ bids' = bids
        /\ row'[l].status = "active" /\ row'[l].price = Cents(StartPrice)
        /\ row'[l].winner = Nobody
        /\ row' = [row EXCEPT ![l] = row'[l]]
    BY CreationFacts
  <1>2. /\ Statuses[l] = "absent" /\ Statuses' = [Statuses EXCEPT ![l] = "active"]
        /\ Pricing' = [Pricing EXCEPT ![l] = Cents(StartPrice)]
        /\ Leaders' = Leaders /\ Winners' = Winners
    BY <1>1, OneLotMoves, LeadersStay
  <1>3. Promise!Open(l)
    BY <1>2 DEF Promise!Open, Statuses, Pricing, Leaders, Winners
  <1> QED
    BY <1>3 DEF Promise!Next

LEMMA RefinesOutbid ==
  ASSUME Step > 0, TypeInv, IInv, Distinct, Distinct', NEW q \in Bidders, Committed(q)
  PROVE  Promise!Next
  <1>0. PICK l \in Lots, p \in {Cents(a) : a \in Amounts} : l = Lot(q) /\ p = Cents(frame[q].amount)
    BY CommitFacts
  <1> DEFINE n == Mine(q)
  <1>1. /\ frame[q].amount \in Amounts /\ n.amount = p /\ n.by = q
        /\ row[l].status = "active" /\ row'[l].status = "active"
        /\ row'[l].winner = row[l].winner
        /\ row'[l].price = p /\ p >= row[l].price + Step
        /\ row' = [row EXCEPT ![l] = row'[l]]
        /\ bids' = [bids EXCEPT ![l] = bids[l] \cup {n}]
    BY <1>0, CommitFacts
  <1>2. /\ row \in [Lots -> Row] /\ bids \in [Lots -> SUBSET [by : Bidders, amount : Nat, try : Nat]]
        /\ p \in Nat /\ Step \in Nat
    BY <1>0, CentsType DEF TypeInv, TypeOK, Step
  <1>3. row[l].price \in Nat /\ p > row[l].price
    <2>1. row[l] \in Row
      BY <1>1, <1>2
    <2>2. row[l].price \in Nat
      BY <2>1 DEF Row
    <2> QED
      BY <1>1, <1>2, <2>2
  <1> HIDE DEF n
  <1>4. bids'[l] = bids[l] \cup {n} /\ \A k \in Lots \ {l} : bids'[k] = bids[k]
    BY <1>1, <1>2
  <1>5. \A b \in bids[l] : b.amount \in Nat /\ b.amount <= row[l].price
    BY <1>1, <1>2 DEF IInv, TableInv, PriceIsHighestBid
  <1>6. Top(bids'[l]) = q
    <2>1. \A b \in bids'[l] : b.amount \in Nat /\ b.amount <= n.amount
      BY <1>1, <1>2, <1>3, <1>4, <1>5
    <2>2. Best(q, bids'[l])
      BY <1>1, <1>4, <2>1 DEF Best
    <2>3. \A b, d \in bids'[l] : b.amount = d.amount => b = d
      BY <1>1 DEF Distinct
    <2> QED
      BY <2>1, <2>2, <2>3, OneTop
  <1>7. Leaders' = [Leaders EXCEPT ![l] = q]
    <2>1. \A k \in Lots : Leaders'[k] = Top(bids'[k]) /\ Leaders[k] = Top(bids[k])
      BY DEF Leaders, Leader, Top
    <2> QED
      BY <1>4, <1>6, <2>1 DEF Leaders
  <1>8. /\ Statuses[l] = "active" /\ Statuses' = Statuses /\ Winners' = Winners
        /\ Pricing' = [Pricing EXCEPT ![l] = p]
        /\ p > Pricing[l] /\ p >= Pricing[l] + Step
    BY <1>1, <1>3, OneLotMoves
  <1>9. Promise!Outbid(l, q, p)
    BY <1>7, <1>8 DEF Promise!Outbid, Statuses, Pricing, Leaders, Winners
  <1> QED
    BY <1>9 DEF Promise!Next

LEMMA RefinesClose ==
  ASSUME TypeInv, IInv, Distinct, NEW c \in Closers, Shut(c)
  PROVE  Promise!Next
  <1>0. PICK l \in Lots : l = Lot(c)
    BY ClosingFacts
  <1>1. /\ bids' = bids
        /\ row[l].status = "active" /\ row'[l].status = "closed"
        /\ row'[l].price = row[l].price
        /\ Best(row'[l].winner, bids[l])
        /\ row' = [row EXCEPT ![l] = row'[l]]
    BY <1>0, ClosingFacts
  <1>2. Leader(l) = row'[l].winner
    <2>1. \A b \in bids[l] : b.amount \in Nat
      BY <1>1 DEF TypeInv, TypeOK
    <2>2. Top(bids[l]) = row'[l].winner
      BY <1>1, <2>1, OneTop DEF Distinct
    <2> QED
      BY <2>2 DEF Leader, Top
  <1>3. /\ Statuses[l] = "active" /\ Statuses' = [Statuses EXCEPT ![l] = "closed"]
        /\ Winners' = [Winners EXCEPT ![l] = Leaders[l]]
        /\ Pricing' = Pricing /\ Leaders' = Leaders
    BY <1>1, <1>2, OneLotMoves, LeadersStay
  <1>4. Promise!Close(l)
    BY <1>3 DEF Promise!Close, Statuses, Pricing, Leaders, Winners
  <1> QED
    BY <1>4 DEF Promise!Next

LEMMA RefinesStep ==
  ASSUME Step > 0, TypeInv, IInv, Distinct, Distinct', [Next]_vars
  PROVE  [Promise!Next]_(Promise!vars)
  <1>1. CASE row' = row /\ bids' = bids
    <2>1. Statuses' = Statuses /\ Pricing' = Pricing /\ Leaders' = Leaders /\ Winners' = Winners
      BY <1>1, LeadersStay DEF Statuses, Pricing, Winners
    <2> QED
      BY <2>1 DEF Promise!vars, Statuses, Pricing, Leaders, Winners
  <1> QED
    BY <1>1, WhoWrites, RefinesOpen, RefinesOutbid, RefinesClose DEF Writes

\* Whatever the goroutines, replicas and failures do, the committed rows
\* behave as the abstract auction, for every minimum step of a cent or more.
THEOREM Refinement == Step > 0 => (Spec => ImplementsAuction)
  <1> SUFFICES ASSUME Step > 0 PROVE Spec => ImplementsAuction
    OBVIOUS
  <1>1. Init => Distinct
    BY DEF Init, Distinct
  <1>2. TypeInv /\ IInv /\ Distinct /\ [Next]_vars => Distinct'
    BY DistinctStep
  <1>3. Init => Promise!Init
    BY RefinesInit
  <1>4. TypeInv /\ IInv /\ Distinct /\ Distinct' /\ [Next]_vars
          => [Promise!Next]_(Promise!vars)
    BY RefinesStep
  <1> QED
    BY <1>1, <1>2, <1>3, <1>4, Invariant, PTL DEF Spec, ImplementsAuction, Promise!Spec

-----------------------------------------------------------------------------
(* What a bidder is told, and what time he leaves the others.  Both rest   *)
(* on how the goroutine of one bid moves while everybody else acts.        *)

Recorded(q) == \E l \in Lots : \E b \in bids[l] : b.by = q

\* No two rows are of the same bid.
Single(q) ==
  \A k, l \in Lots : \A b \in bids[k], d \in bids[l] :
    b.by = q /\ d.by = q => k = l /\ b = d

\* A bid is in the table from its commit on, once, and never before.
HistoryInv ==
  \A q \in Bidders :
    /\ pc[q] \in {"idle", "begin", "insert", "update", "commit", "refused"} => ~Recorded(q)
    /\ pc[q] \in {"announce", "arm", "install", "extended", "accepted"} => Recorded(q)
    /\ Single(q)

LEMMA WhoRecords ==
  [Next]_vars => bids' = bids \/ \E q \in Bidders : CommitBid(q) \/ CommitReplyLost(q)
  <1> SUFFICES ASSUME [Next]_vars, bids' # bids
      PROVE \E q \in Bidders : CommitBid(q) \/ CommitReplyLost(q)
    OBVIOUS
  <1>1. ~ Tick /\ ~ UNCHANGED vars /\ bids' # bids
    BY DEF Tick, vars, db
  <1>2. ASSUME NEW l \in Lots, NEW r \in Replicas,
               \/ \E t \in ClosingTimes, z \in Offsets :
                    CreateLot(l, r, t, z) \/ CreateReplyLost(l, r, t, z)
               \/ \E q \in Bidders, a \in Amounts : PlaceBid(q, l, r, a)
               \/ TimerFires(r, l)
        PROVE  FALSE
    BY <1>2, Zenon DEF CreateLot, CreateReplyLost, Opened, PlaceBid, TimerFires, FireTimer, db
  <1>3. ASSUME NEW c \in Closers, CloserStep(c) \/ CloseReplyLost(c) \/ CloserFails(c)
        PROVE  FALSE
    BY <1>3, Zenon DEF CloserStep, ReadForClose, CheckClosing, CloseRow, CloseReplyLost, Shut,
       CloseLost, ClearTimer, BroadcastClosed, CloserFails, db
  <1>4. ASSUME NEW g \in Goroutines,
               ScheduleStep(g) \/ \E c \in Closers : FireUninstalled(g, c)
        PROVE  FALSE
    BY <1>4, Zenon DEF ScheduleStep, ArmTimer, InstallTimer, CloseAtOnce, FireUninstalled, db
  <1>5. ASSUME NEW r \in Replicas, Stop(r) \/ Restart(r) \/ RestartBlind(r)
        PROVE  FALSE
    BY <1>5, Zenon DEF Stop, Restart, RestartBlind, db
  <1>6. ASSUME NEW q \in Bidders, BidderStep(q) \/ CancelBid(q)
        PROVE  CommitBid(q)
    BY <1>6, Zenon DEF BidderStep, AdmitBid, RefuseBid, CreateBid, UpdateBid, RetryBid,
       BroadcastNewBid, BroadcastExtended, CancelBid, RolledBack, db
  <1> QED
    BY <1>1, <1>2, <1>3, <1>4, <1>5, <1>6, Zenon DEF Next

LEMMA HistoryStep == TypeInv /\ IInv /\ HistoryInv /\ [Next]_vars => HistoryInv'
  <1> SUFFICES ASSUME TypeInv, IInv, HistoryInv, [Next]_vars, NEW q \in Bidders
      PROVE  /\ pc'[q] \in {"idle", "begin", "insert", "update", "commit", "refused"} => ~Recorded(q)'
             /\ pc'[q] \in {"announce", "arm", "install", "extended", "accepted"} => Recorded(q)'
             /\ Single(q)'
    BY Zenon DEF HistoryInv
  <1>1. /\ q \in Goroutines /\ pc \in [Goroutines -> Places]
        /\ bids \in [Lots -> SUBSET [by : Bidders, amount : Nat, try : Nat]]
    BY DEF Goroutines, TypeInv, TypeOK
  <1>2. /\ pc[q] \in {"idle", "begin", "insert", "update", "commit", "refused"} => ~Recorded(q)
        /\ pc[q] \in {"announce", "arm", "install", "extended", "accepted"} => Recorded(q)
        /\ Single(q)
    BY Zenon DEF HistoryInv
  <1>3. ASSUME NEW p \in Bidders, CommitBid(p) \/ CommitReplyLost(p)
        PROVE  /\ Recorded(p)' /\ (p # q => pc'[q] = pc[q] /\ (Recorded(q)' <=> Recorded(q)))
               /\ pc'[p] \in {"announce", "unknown"} /\ Single(q)'
    <2> DEFINE k == Lot(p)
               n == Mine(p)
    <2>1. /\ pc[p] = "commit"
          /\ pc' = [pc EXCEPT ![p] = "announce"] \/ pc' = [pc EXCEPT ![p] = "unknown"]
          /\ p \in Goroutines /\ Committed(p)
      BY <1>3 DEF CommitBid, CommitReplyLost, Committed, Goto, Return, Goroutines
    <2>2. k \in Lots /\ n.by = p /\ bids' = [bids EXCEPT ![k] = bids[k] \cup {n}]
      BY <2>1, CommitFacts
    <2> HIDE DEF k, n
    <2>3. bids'[k] = bids[k] \cup {n} /\ \A l \in Lots \ {k} : bids'[l] = bids[l]
      BY <1>1, <2>1, <2>2
    <2>4. Recorded(p)'
      BY <2>2, <2>3 DEF Recorded
    <2>5. p # q => (Recorded(q)' <=> Recorded(q))
      BY <2>2, <2>3 DEF Recorded
    <2>6. Single(q)'
      <3> SUFFICES ASSUME NEW i \in Lots, NEW j \in Lots, NEW b \in bids'[i], NEW d \in bids'[j],
                          b.by = q, d.by = q
                   PROVE  i = j /\ b = d
        BY Zenon DEF Single
      <3>1. CASE p # q
        BY <1>2, <2>2, <2>3, <3>1 DEF Single
      <3>2. CASE p = q
        <4>1. \A m \in Lots : \A e \in bids[m] : e.by # q
          BY <1>2, <2>1, <3>2 DEF Recorded
        <4> QED
          BY <2>3, <4>1
      <3> QED
        BY <3>1, <3>2
    <2> QED
      BY <1>1, <2>1, <2>4, <2>5, <2>6
  <1>4. CASE bids' = bids
    <2>1. (Recorded(q)' <=> Recorded(q)) /\ Single(q)'
      BY <1>2, <1>4 DEF Recorded, Single
    <2>2. CASE BidderStep(q) \/ CancelBid(q) \/ CommitReplyLost(q)
      <3>1. CASE CommitBid(q) \/ CommitReplyLost(q)
        BY <1>3, <3>1
      <3>2. CASE AdmitBid(q) \/ RefuseBid(q) \/ CreateBid(q) \/ UpdateBid(q) \/ RetryBid(q)
                 \/ CancelBid(q)
        <4>1. /\ pc[q] \in {"begin", "insert", "update", "commit"}
              /\ pc'[q] \in {"begin", "insert", "update", "commit", "refused"}
          BY <1>1, <3>2 DEF AdmitBid, RefuseBid, CanSelect, CreateBid, UpdateBid, RetryBid, CancelBid,
             Goto, Return
        <4> QED
          BY <1>2, <2>1, <4>1
      <3>3. CASE BroadcastNewBid(q) \/ BroadcastExtended(q)
        <4>1. pc[q] \in {"announce", "extended"} /\ pc'[q] \in {"arm", "accepted"}
          BY <1>1, <3>3 DEF BroadcastNewBid, BroadcastExtended, Goto, Return
        <4> QED
          BY <1>2, <2>1, <4>1
      <3> QED
        BY <2>2, <3>1, <3>2, <3>3 DEF BidderStep
    <2>3. ASSUME NEW l \in Lots, NEW r \in Replicas, NEW a \in Amounts, PlaceBid(q, l, r, a)
          PROVE  pc[q] = "idle" /\ pc'[q] = "begin"
      BY <1>1, <2>3 DEF PlaceBid
    <2> QED
      BY <1>2, <2>1, <2>2, <2>3, BidderMoves DEF Stays
  <1> QED
    BY <1>2, <1>3, <1>4, WhoRecords

\* A bid the client was told of as accepted is in the table in exactly one
\* row, one it was told of as refused in none (engine.go:74-152): no retry or
\* rollback leaves a row behind and no INSERT is recorded twice.
THEOREM AnswersAreTrue == Spec => []AnswerMatchesHistory
  <1>1. Init => HistoryInv
    BY DEF Init, HistoryInv, Recorded, Single, Goroutines
  <1>2. HistoryInv => AnswerMatchesHistory
    <2> SUFFICES ASSUME HistoryInv, NEW q \in Bidders
        PROVE  /\ pc[q] = "accepted" =>
                    \E l \in Lots : \E b \in bids[l] :
                      b.by = q /\ \A k \in Lots : \A d \in bids[k] : d.by = q => k = l /\ d = b
               /\ pc[q] = "refused" => \A l \in Lots : \A b \in bids[l] : b.by # q
      BY DEF AnswerMatchesHistory
    <2>1. Single(q)
      BY DEF HistoryInv
    <2>2. ASSUME pc[q] = "accepted"
          PROVE  \E l \in Lots : \E b \in bids[l] :
                   b.by = q /\ \A k \in Lots : \A d \in bids[k] : d.by = q => k = l /\ d = b
      <3>1. PICK l \in Lots : \E b \in bids[l] : b.by = q
        BY <2>2 DEF HistoryInv, Recorded
      <3>2. PICK b \in bids[l] : b.by = q
        BY <3>1
      <3> QED
        BY <2>1, <3>2 DEF Single
    <2> QED
      BY <2>2 DEF HistoryInv, Recorded
  <1> QED
    BY <1>1, <1>2, HistoryStep, Invariant, PTL DEF Spec

\* Until its commit a bid has at most its timeout left, and the closing time
\* it is about to write leaves room from the moment that timeout began.
MarginOK(q) ==
  /\ pc[q] \in {"begin", "insert", "update", "commit"} => frame[q].deadline <= now + RequestTimeout
  /\ pc[q] = "commit" /\ SnipingWindow > 0 =>
       \/ Snap(q).closing + RequestTimeout >= frame[q].deadline + SnipingWindow
       \/ Snap(q).closing + RequestTimeout >= frame[q].deadline + SnipingExtension

MarginInv == \A q \in Bidders : MarginOK(q)

LEMMA MarginStep ==
  ASSUME TypeInv, [Next]_vars, NEW q \in Bidders, MarginOK(q)
  PROVE  MarginOK(q)'
  <1>1. /\ q \in Goroutines /\ now \in Nat /\ RequestTimeout \in Nat
        /\ SnipingWindow \in Nat /\ SnipingExtension \in Nat
        /\ pc \in [Goroutines -> Places] /\ frame \in [Goroutines -> Frame]
    BY BoundTypes DEF Goroutines, TypeInv, TypeOK
  <1>2. frame[q].deadline \in Nat /\ frame[q].amount \in Nat
    BY <1>1, SMT DEF Frame
  <1>3. CASE Stays(q) /\ now' >= now /\ now' \in Nat
    <2>1. /\ pc'[q] = pc[q] /\ frame'[q].deadline = frame[q].deadline
          /\ frame'[q].snap = frame[q].snap
      BY <1>3 DEF Stays
    <2>2. frame'[q].deadline <= now' + RequestTimeout
            \/ ~ (frame[q].deadline <= now + RequestTimeout)
      BY <1>1, <1>2, <1>3, <2>1
    <2> QED
      BY <2>1, <2>2 DEF MarginOK, Snap
  <1>4. ASSUME NEW l \in Lots, NEW r \in Replicas, NEW a \in Amounts, PlaceBid(q, l, r, a)
        PROVE  MarginOK(q)'
    <2>1. pc'[q] = "begin" /\ now' = now /\ frame'[q] = Request(r, l, a)
      BY <1>1, <1>4 DEF PlaceBid, world
    <2>2. Request(r, l, a).deadline = now + RequestTimeout
      BY DEF Request, Serving
    <2> QED
      BY <1>1, <2>1, <2>2 DEF MarginOK
  <1>5. CASE UpdateBid(q)
    <2> DEFINE s == Raised(Snap(q), frame[q].amount)
    <2>1. /\ pc[q] = "update" /\ now' = now /\ pc'[q] = "commit"
          /\ frame'[q] = [frame[q] EXCEPT !.snap = s, !.extended = NearWire(Snap(q))]
      BY <1>1, <1>5 DEF UpdateBid, world
    <2>2. Snap(q) \in Row
      BY <1>1, SMT DEF Snap, Frame
    <2>3. s.closing = IF NearWire(Snap(q)) THEN now + SnipingExtension ELSE Snap(q).closing
      BY <2>2 DEF Raised, Row
    <2> HIDE DEF s
    <2>4. frame'[q].snap = s /\ frame'[q].deadline = frame[q].deadline
      BY <1>1, <2>1, SMT DEF Frame
    <2>5. frame[q].deadline <= now + RequestTimeout
      BY <2>1 DEF MarginOK
    <2>6. SnipingWindow > 0 =>
            \/ s.closing + RequestTimeout >= frame[q].deadline + SnipingWindow
            \/ s.closing + RequestTimeout >= frame[q].deadline + SnipingExtension
      <3>1. CASE NearWire(Snap(q))
        BY <1>1, <1>2, <2>3, <2>5, <3>1
      <3>2. CASE ~NearWire(Snap(q))
        <4>1. SnipingWindow > 0 => ~(Snap(q).closing - now <= SnipingWindow)
          BY <3>2 DEF NearWire
        <4>2. Snap(q).closing \in Int
          BY <2>2 DEF Row
        <4> QED
          BY <1>1, <1>2, <2>3, <2>5, <3>2, <4>1, <4>2
      <3> QED
        BY <3>1, <3>2
    <2> QED
      BY <2>1, <2>4, <2>5, <2>6 DEF MarginOK, Snap
  <1>6a. CASE CreateBid(q)
    <2>1. pc[q] = "insert" /\ pc'[q] = "update" /\ now' = now /\ frame' = frame
      BY <1>1, <1>6a DEF CreateBid, Goto, world
    <2> QED
      BY <2>1 DEF MarginOK
  <1>6. CASE AdmitBid(q) \/ RetryBid(q)
    <2>1. CASE AdmitBid(q)
      <3>1. pc[q] = "begin" /\ pc'[q] = "insert" /\ now' = now
        BY <1>1, <2>1 DEF AdmitBid, CanSelect, world
      <3>2. frame'[q].deadline = frame[q].deadline
        BY <1>1, <2>1, SMT DEF AdmitBid, Frame
      <3> QED
        BY <3>1, <3>2 DEF MarginOK
    <2>2. CASE RetryBid(q)
      <3>1. pc[q] = "update" /\ pc'[q] \in {"begin", "refused"} /\ now' = now
        BY <1>1, <2>2 DEF RetryBid, Return, world
      <3>2. pc'[q] = "begin" => frame'[q].deadline = frame[q].deadline
        <4>1. pc'[q] = "begin" => TriesAgain(q)
          BY <1>1, <2>2 DEF RetryBid, Return
        <4>2. TriesAgain(q) =>
                frame'[q] = [frame[q] EXCEPT !.snap = NoRow, !.attempts = frame[q].attempts + 1]
          BY <1>1, <2>2 DEF RetryBid
        <4>3. [frame[q] EXCEPT !.snap = NoRow, !.attempts = frame[q].attempts + 1].deadline
                = frame[q].deadline
          BY <1>1, SMT DEF Frame
        <4> QED
          BY <4>1, <4>2, <4>3
      <3> QED
        BY <3>1, <3>2 DEF MarginOK
    <2> QED
      BY <1>6, <2>1, <2>2
  <1>7. CASE pc'[q] \notin {"begin", "insert", "update", "commit"}
    BY <1>7 DEF MarginOK
  <1>8. CASE RefuseBid(q) \/ CommitBid(q) \/ BroadcastNewBid(q) \/ BroadcastExtended(q)
               \/ CancelBid(q) \/ CommitReplyLost(q)
    <2>1. pc'[q] \in {"refused", "announce", "arm", "accepted", "unknown"}
      BY <1>1, <1>8 DEF RefuseBid, CommitBid, Committed, BroadcastNewBid, BroadcastExtended,
         CancelBid, CommitReplyLost, Goto, Return
    <2> QED
      BY <1>7, <2>1
  <1> QED
    BY <1>3, <1>4, <1>5, <1>6, <1>6a, <1>7, <1>8, BidderMoves DEF BidderStep

\* After every bid the others keep the shorter of window and extension, less
\* the time the bid's request may have spent since it read the clock and the
\* delay of its COMMIT (engine.go:106-113); for every window, extension and
\* timeout.  It says nothing when the timeout is as long as the window.
THEOREM MarginKept == Spec => AntiSnipingMargin
  <1>1. Init => MarginInv
    BY DEF Init, MarginInv, MarginOK, Goroutines
  <1>2. TypeInv /\ MarginInv /\ [Next]_vars => MarginInv'
    BY MarginStep DEF MarginInv
  <1>3. ASSUME TypeInv, MarginInv, [Next]_vars, NEW l \in Lots,
               SnipingWindow > 0, bids'[l] # bids[l]
        PROVE  \/ row'[l].closing + RequestTimeout + CommitDelay >= now + SnipingWindow
               \/ row'[l].closing + RequestTimeout + CommitDelay >= now + SnipingExtension
    <2>1. PICK q \in Bidders : Committed(q)
      BY <1>3, WhoRecords DEF CommitBid, CommitReplyLost
    <2>2. /\ q \in Goroutines /\ pc[q] = "commit" /\ now <= frame[q].deadline + CommitDelay
          /\ row' = [row EXCEPT ![Lot(q)] = Snap(q)] /\ now \in Nat
          /\ row \in [Lots -> Row] /\ bids \in [Lots -> SUBSET [by : Bidders, amount : Nat, try : Nat]]
      BY <1>3, <2>1 DEF Committed, Goroutines, TypeInv, TypeOK
    <2>3. l = Lot(q)
      BY <1>3, <2>1, <2>2 DEF Committed
    <2>4. row'[l] = Snap(q) /\ Snap(q).closing \in Int
      BY <1>3, <2>2, <2>3, AtWork DEF Finished
    <2>5. frame[q].deadline \in Nat /\ MarginOK(q)
      <3>1. frame[q] \in Frame
        BY <1>3, <2>2 DEF TypeInv, TypeOK
      <3> QED
        BY <1>3, <3>1, SMT DEF Frame, MarginInv
    <2>6. /\ RequestTimeout \in Nat /\ SnipingWindow \in Nat /\ SnipingExtension \in Nat
          /\ CommitDelay \in Nat
      BY BoundTypes
    <2>7. \/ Snap(q).closing + RequestTimeout >= frame[q].deadline + SnipingWindow
          \/ Snap(q).closing + RequestTimeout >= frame[q].deadline + SnipingExtension
      BY <1>3, <2>2, <2>5 DEF MarginOK
    <2> QED
      BY <2>2, <2>4, <2>5, <2>6, <2>7, SMT
  <1>4. TypeInv /\ MarginInv /\ [Next]_vars =>
          [\A l \in Lots : SnipingWindow > 0 /\ bids'[l] # bids[l] =>
             \/ row'[l].closing + RequestTimeout + CommitDelay >= now + SnipingWindow
             \/ row'[l].closing + RequestTimeout + CommitDelay >= now + SnipingExtension]_<<row, bids>>
    BY <1>3
  <1> QED
    BY <1>1, <1>2, <1>4, Invariant, PTL DEF Spec, AntiSnipingMargin

-----------------------------------------------------------------------------
(* Whoever has to close a lot exists, as long as nothing fails.            *)

\* Nothing fails (no crash, no database error under a closer, no lost reply)
\* and no timer fires before it is in the map; the window is positive and at
\* least the extension, and at least the timeout of a request with the delay
\* of its COMMIT (window, extension and timeout are 30 seconds each by default,
\* config.go:15-16 and main.go:73, which leaves no delay); and no closing time
\* is stored later than it was meant.
Timely ==
  /\ MaxFaults = 0 /\ ~Preempt
  /\ 0 < SnipingWindow /\ SnipingExtension <= SnipingWindow
  /\ RequestTimeout + CommitDelay <= SnipingWindow
  /\ \A z \in Offsets : z <= 0

OnItsWay(g) == pc[g] \notin Finished
Opening(l)  == pc[l] \in {"arm", "install"}

ArmedOK(g) ==
  pc[g] = "install" => frame[g].armed = Snap(g).closing /\ frame[g].armed # NoTimer

\* Nobody is at work on a lot that has no row, and only a closed lot has its
\* timer cleared.
ScheduleInv(l) ==
  /\ OnItsWay(l) => Lot(l) = l /\ Opening(l)
  /\ row[l].status = "absent" =>
       /\ \A r \in Replicas : timers[r][l] = NoTimer
       /\ \A g \in Goroutines : OnItsWay(g) => Lot(g) # l
  /\ \A g \in Goroutines : pc[g] = "clear" /\ Lot(g) = l => row[l].status = "closed"

\* A bid about to commit that extends the lot does so by at most the window;
\* one that does not has to commit before the lot closes.
WrittenInTime(q) ==
  pc[q] = "commit" =>
    IF frame[q].extended THEN Snap(q).closing <= now + SnipingWindow
    ELSE Snap(q).closing = row[Lot(q)].closing /\ frame[q].deadline + CommitDelay < Snap(q).closing

\* g, which is not the creator of l, is about to close it or to arm its timer.
Busy(g, l) ==
  /\ g \notin Lots /\ Lot(g) = l
  /\ \/ pc[g] \in {"read", "check", "close", "arm", "install"}
     \/ pc[g] = "announce" /\ frame[g].extended

\* The closing time of l is more than a window away, or a bid that saw it so
\* is about to commit; until then l is in the hands of its creator or of a
\* timer that is not early.
Far(l) == row[l].closing > now + SnipingWindow
Pending(l) == \E q \in Bidders : pc[q] = "commit" /\ Lot(q) = l /\ ~frame[q].extended
Early(l) == row[l].status = "active" /\ now < row[l].closing /\ (Far(l) \/ Pending(l))
Untouched(l) ==
  /\ \A g \in Goroutines : ~Busy(g, l)
  /\ Opening(l) => Snap(l).closing >= row[l].closing
  /\ \A r \in Replicas : timers[r][l] = NoTimer \/ timers[r][l] >= row[l].closing
  /\ Opening(l) \/ \E r \in Replicas : timers[r][l] # NoTimer

Attended(l) ==
  row[l].status = "active" =>
    \/ \E r \in Replicas : timers[r][l] # NoTimer
    \/ \E g \in Goroutines : InCharge(g, l)

LotCalm(l) == ScheduleInv(l) /\ (Early(l) => Untouched(l)) /\ Attended(l)

CalmInv ==
  /\ \A r \in Replicas : up[r]
  /\ \A g \in Goroutines : ArmedOK(g)
  /\ \A q \in Bidders : WrittenInTime(q)
  /\ \A l \in Lots : LotCalm(l)

\* What h does leaves the lot l as calm as it was.
Follows(h, l) ==
  /\ Busy(h, l)' => Busy(h, l)
  /\ row[l].status = "active" /\ InCharge(h, l) => InCharge(h, l)'
  /\ OnItsWay(h)' /\ Lot(h)' = l => row[l].status # "absent"
  /\ pc'[h] = "clear" /\ Lot(h)' = l => pc[h] = "clear" /\ Lot(h) = l
  /\ h \in Bidders /\ pc'[h] = "commit" /\ Lot(h)' = l /\ ~frame'[h].extended =>
       Far(l) \/ (pc[h] = "commit" /\ Lot(h) = l /\ ~frame[h].extended)
  /\ h = l => /\ OnItsWay(h)' <=> OnItsWay(h)
              /\ OnItsWay(h)' => Opening(h)' /\ Lot(h)' = Lot(h) /\ Snap(h)' = Snap(h)

SameLot(l) == row'[l] = row[l] /\ \A r \in Replicas : timers'[r][l] = timers[r][l]

LEMMA StaysFollows ==
  ASSUME NEW l \in Lots, NEW h \in Goroutines, ScheduleInv(l), Stays(h), row'[l] = row[l]
  PROVE  Follows(h, l)
  <1>1. Busy(h, l)' <=> Busy(h, l)
    BY DEF Stays, Busy, Lot
  <1>2. InCharge(h, l) => InCharge(h, l)'
    BY DEF Stays, InCharge, Lot, VersionMatches, Snap
  <1>3. OnItsWay(h)' /\ Lot(h)' = l => row[l].status # "absent"
    BY DEF Stays, ScheduleInv, OnItsWay, Lot
  <1>4. h = l => /\ OnItsWay(h)' <=> OnItsWay(h)
                 /\ OnItsWay(h)' => Opening(h)' /\ Lot(h)' = Lot(h) /\ Snap(h)' = Snap(h)
    BY DEF Stays, ScheduleInv, OnItsWay, Lot, Snap, Opening
  <1>5. /\ pc'[h] = "clear" /\ Lot(h)' = l => pc[h] = "clear" /\ Lot(h) = l
        /\ h \in Bidders /\ pc'[h] = "commit" /\ Lot(h)' = l /\ ~frame'[h].extended =>
             pc[h] = "commit" /\ Lot(h) = l /\ ~frame[h].extended
    BY DEF Stays, Lot
  <1> QED
    BY <1>1, <1>2, <1>3, <1>4, <1>5 DEF Follows

\* A lot is in no hurry after a step that left it alone, if it was in none
\* before.
LEMMA EarlyBefore ==
  ASSUME TypeInv, NEW l \in Lots, row'[l] = row[l], now' >= now, now' \in Nat,
         Pending(l)' => Pending(l) \/ Far(l), Early(l)'
  PROVE  Early(l)
  <1>1. now \in Nat /\ row[l].closing \in Int /\ SnipingWindow \in Nat
    <2>1. row[l] \in Row /\ now \in Nat
      BY DEF TypeInv, TypeOK
    <2> QED
      BY <2>1, BoundTypes DEF Row
  <1>2. now < row[l].closing /\ row[l].status = "active" /\ (Far(l)' \/ Pending(l)')
    BY <1>1 DEF Early
  <1>3. Far(l)' => Far(l)
    BY <1>1 DEF Far
  <1> QED
    BY <1>2, <1>3 DEF Early

LEMMA LotKept ==
  ASSUME TypeInv, NEW l \in Lots, LotCalm(l), SameLot(l), now' >= now, now' \in Nat,
         \A h \in Goroutines : Follows(h, l)
  PROVE  LotCalm(l)'
  <1>1. l \in Goroutines /\ ScheduleInv(l) /\ row'[l] = row[l]
    BY DEF Goroutines, LotCalm, SameLot
  <1>2. /\ OnItsWay(l)' <=> OnItsWay(l)
        /\ OnItsWay(l)' => Opening(l)' /\ Lot(l)' = Lot(l) /\ Snap(l)' = Snap(l)
    BY <1>1 DEF Follows
  <1>3. ScheduleInv(l)'
    <2>1. OnItsWay(l)' => Lot(l)' = l /\ Opening(l)'
      BY <1>1, <1>2 DEF ScheduleInv
    <2>2. row'[l].status = "absent" => \A r \in Replicas : timers'[r][l] = NoTimer
      BY <1>1 DEF ScheduleInv, SameLot
    <2>3. row'[l].status = "absent" => \A g \in Goroutines : OnItsWay(g)' => Lot(g)' # l
      BY <1>1 DEF Follows
    <2>4. \A g \in Goroutines : pc'[g] = "clear" /\ Lot(g)' = l => row'[l].status = "closed"
      BY <1>1 DEF Follows, ScheduleInv
    <2> QED
      BY <2>1, <2>2, <2>3, <2>4 DEF ScheduleInv
  <1>4. Opening(l)' <=> Opening(l)
    BY <1>1, <1>2 DEF ScheduleInv, OnItsWay, Opening, Finished
  <1>5. Early(l)' => Untouched(l)'
    <2>1. Pending(l)' => Pending(l) \/ Far(l)
      BY DEF Pending, Follows, Goroutines
    <2>2. Early(l)' => Early(l)
      BY <1>1, <2>1, EarlyBefore
    <2>3. Early(l) => Untouched(l)
      BY DEF LotCalm
    <2>4. Untouched(l) => \A g \in Goroutines : ~ Busy(g, l)'
      BY DEF Untouched, Follows
    <2>5. Untouched(l) => (Opening(l)' => Snap(l)'.closing >= row'[l].closing)
      BY <1>1, <1>2, <1>4 DEF Untouched, Opening, OnItsWay, Finished
    <2>6. Untouched(l) =>
            /\ \A r \in Replicas : timers'[r][l] = NoTimer \/ timers'[r][l] >= row'[l].closing
            /\ Opening(l)' \/ \E r \in Replicas : timers'[r][l] # NoTimer
      BY <1>1, <1>4 DEF Untouched, SameLot
    <2> QED
      BY <2>2, <2>3, <2>4, <2>5, <2>6 DEF Untouched
  <1>6. Attended(l)'
    BY <1>1 DEF LotCalm, Attended, SameLot, Follows
  <1> QED
    BY <1>3, <1>5, <1>6 DEF LotCalm

LEMMA OnTimeStays ==
  ASSUME TypeInv, NEW q \in Bidders, WrittenInTime(q), Stays(q),
         row'[Lot(q)] = row[Lot(q)], now' >= now, now' \in Nat
  PROVE  WrittenInTime(q)'
  <1> SUFFICES ASSUME pc[q] = "commit"
      PROVE IF frame[q].extended THEN Snap(q).closing <= now' + SnipingWindow
            ELSE Snap(q).closing = row[Lot(q)].closing /\ frame[q].deadline + CommitDelay < Snap(q).closing
    BY DEF WrittenInTime, Stays, Lot, Snap
  <1>1. Snap(q).closing \in Int /\ now \in Nat /\ SnipingWindow \in Nat
    BY AtWork, BoundTypes DEF Goroutines, Finished
  <1> QED
    BY <1>1 DEF WrittenInTime

\* One goroutine moves, and no row or timer changes.
LEMMA OneMoves ==
  ASSUME TypeInv, CalmInv, NEW g \in Goroutines,
         row' = row, timers' = timers, up' = up, now' = now,
         \A h \in Goroutines \ {g} : Stays(h),
         \A l \in Lots : Follows(g, l),
         ArmedOK(g)', g \in Bidders => WrittenInTime(g)'
  PROVE  CalmInv'
  <1>1. now \in Nat /\ now' >= now
    BY DEF TypeInv, TypeOK
  <1>2. ASSUME NEW l \in Lots PROVE LotCalm(l)'
    <2>1. LotCalm(l) /\ SameLot(l) /\ ScheduleInv(l)
      BY DEF CalmInv, SameLot, LotCalm
    <2>2. \A h \in Goroutines : Follows(h, l)
      BY <2>1, StaysFollows
    <2> QED
      BY <1>1, <2>1, <2>2, LotKept
  <1>3. ASSUME NEW h \in Goroutines PROVE ArmedOK(h)'
    BY DEF CalmInv, ArmedOK, Stays, Snap
  <1>4. ASSUME NEW q \in Bidders PROVE WrittenInTime(q)'
    BY <1>1, OnTimeStays DEF CalmInv, Goroutines
  <1> QED
    BY <1>2, <1>3, <1>4 DEF CalmInv

\* The places from which, and to which, a goroutine goes without a bearing on
\* who closes a lot.
Aside == {"idle", "begin", "insert", "update", "commit", "extended", "closed"}

LEMMA AsideFollows ==
  ASSUME NEW l \in Lots, NEW g \in Goroutines \ Lots,
         \/ pc[g] \in Aside
         \/ pc[g] = "announce" /\ ~frame[g].extended,
         pc'[g] \in (Aside \cup Finished) \ {"commit"},
         OnItsWay(g)' /\ Lot(g)' = l => row[l].status # "absent"
  PROVE  Follows(g, l)
  BY DEF Follows, Aside, Finished, Busy, InCharge

LEMMA PresentLot ==
  ASSUME NEW l \in Lots, NEW g \in Goroutines, ScheduleInv(l), OnItsWay(g), Lot(g) = l
  PROVE  row[l].status # "absent"
  BY DEF ScheduleInv

\* Steps of a bid that neither write nor announce.
LEMMA CalmBidder ==
  ASSUME TypeInv, CalmInv, NEW q \in Bidders,
         \/ AdmitBid(q) \/ RefuseBid(q) \/ CreateBid(q) \/ RetryBid(q) \/ CancelBid(q)
         \/ BroadcastNewBid(q) /\ ~frame[q].extended
         \/ BroadcastExtended(q)
         \/ \E l \in Lots, r \in Replicas, a \in Amounts : PlaceBid(q, l, r, a)
  PROVE  CalmInv'
  <1>1. /\ q \in Goroutines \ Lots /\ pc \in [Goroutines -> Places]
        /\ frame \in [Goroutines -> Frame]
    BY DEF Goroutines, TypeInv, TypeOK
  <1>2. row' = row /\ timers' = timers /\ up' = up /\ now' = now
    BY Zenon DEF AdmitBid, RefuseBid, CreateBid, RetryBid, CancelBid, RolledBack, BroadcastNewBid,
       BroadcastExtended, PlaceBid, world, db
  <1>3. /\ \E p : pc' = [pc EXCEPT ![q] = p]
        /\ \/ frame' = frame
           \/ \E f : frame' = [frame EXCEPT ![q] = f]
    BY Zenon DEF AdmitBid, RefuseBid, CreateBid, RetryBid, CancelBid, BroadcastNewBid,
       BroadcastExtended, PlaceBid, Return, Goto
  <1>4. \A h \in Goroutines \ {q} : Stays(h)
    BY <1>1, <1>3 DEF Stays
  <1>5. /\ pc[q] \in Aside \/ (pc[q] = "announce" /\ ~frame[q].extended)
        /\ pc'[q] \in (Aside \cup Finished) \ {"commit"}
    <2>1. CASE AdmitBid(q) \/ RefuseBid(q) \/ CreateBid(q)
      BY <1>1, <2>1 DEF AdmitBid, RefuseBid, CanSelect, CreateBid, Goto, Return, Aside, Finished
    <2>2. CASE RetryBid(q)
      BY <1>1, <2>2 DEF RetryBid, Return, Aside, Finished
    <2>3. CASE CancelBid(q)
      BY <1>1, <2>3 DEF CancelBid, Return, Aside, Finished
    <2>4. CASE (BroadcastNewBid(q) /\ ~frame[q].extended) \/ BroadcastExtended(q)
      BY <1>1, <2>4 DEF BroadcastNewBid, BroadcastExtended, Return, Aside, Finished
    <2>5. CASE \E l \in Lots, r \in Replicas, a \in Amounts : PlaceBid(q, l, r, a)
      BY <1>1, <2>5 DEF PlaceBid, Aside
    <2> QED
      BY <2>1, <2>2, <2>3, <2>4, <2>5
  <1>6. ASSUME NEW l \in Lots, OnItsWay(q)', Lot(q)' = l PROVE row[l].status # "absent"
    <2>1. CASE \E k \in Lots, r \in Replicas, a \in Amounts : PlaceBid(q, k, r, a)
      <3>1. PICK k \in Lots, r \in Replicas, a \in Amounts : PlaceBid(q, k, r, a)
        BY <2>1
      <3>2. row[k].status # "absent" /\ frame'[q] = Request(r, k, a)
        BY <1>1, <3>1 DEF PlaceBid
      <3>3. Request(r, k, a).lot = k
        BY DEF Request, Serving
      <3> QED
        BY <1>6, <3>2, <3>3 DEF Lot
    <2>2. CASE AdmitBid(q) \/ CreateBid(q) \/ RetryBid(q)
      <3>1. pc[q] \in {"begin", "insert", "update"}
        BY <2>2 DEF AdmitBid, CanSelect, CreateBid, RetryBid
      <3>2. frame'[q].lot = frame[q].lot
        <4>1. CASE AdmitBid(q)
          BY <1>1, <4>1, SMT DEF AdmitBid, Frame
        <4>2. CASE RetryBid(q) /\ TriesAgain(q)
          <5>1. frame'[q] = [frame[q] EXCEPT !.snap = NoRow, !.attempts = frame[q].attempts + 1]
            BY <1>1, <4>2 DEF RetryBid
          <5> QED
            BY <1>1, <5>1, SMT DEF Frame
        <4>3. CASE RetryBid(q) /\ ~TriesAgain(q)
          BY <1>1, <1>6, <4>3 DEF RetryBid, Return, OnItsWay, Finished
        <4>4. CASE CreateBid(q)
          BY <4>4 DEF CreateBid, Goto
        <4> QED
          BY <2>2, <4>1, <4>2, <4>3, <4>4
      <3> QED
        BY <1>1, <1>6, <3>1, <3>2, PresentLot DEF CalmInv, LotCalm, OnItsWay, Finished, Lot
    <2>3. CASE RefuseBid(q) \/ CancelBid(q) \/ (BroadcastNewBid(q) /\ ~frame[q].extended)
                 \/ BroadcastExtended(q)
      BY <1>1, <1>6, <2>3
         DEF RefuseBid, CancelBid, BroadcastNewBid, BroadcastExtended, Return, OnItsWay, Finished
    <2> QED
      BY <2>1, <2>2, <2>3
  <1>7. \A l \in Lots : Follows(q, l)
    BY <1>1, <1>5, <1>6, AsideFollows
  <1>8. ArmedOK(q)' /\ WrittenInTime(q)'
    BY <1>5 DEF ArmedOK, WrittenInTime, Aside, Finished
  <1> QED
    BY <1>1, <1>2, <1>4, <1>7, <1>8, OneMoves

LEMMA CalmUpdateBid ==
  ASSUME Timely, TypeInv, IInv, MarginInv, CalmInv, NEW q \in Bidders, UpdateBid(q)
  PROVE  CalmInv'
  <1> DEFINE s == Raised(Snap(q), frame[q].amount)
  <1>1. /\ q \in Goroutines \ Lots /\ q \in Bidders /\ pc[q] = "update" /\ VersionMatches(q)
        /\ pc \in [Goroutines -> Places] /\ frame \in [Goroutines -> Frame]
        /\ row' = row /\ timers' = timers /\ up' = up /\ now' = now
        /\ pc' = [pc EXCEPT ![q] = "commit"] /\ pc'[q] = "commit"
        /\ frame'[q] = [frame[q] EXCEPT !.snap = s, !.extended = NearWire(Snap(q))]
    BY DEF UpdateBid, world, Goroutines, TypeInv, TypeOK
  <1>2. \A h \in Goroutines \ {q} : Stays(h)
    BY <1>1 DEF UpdateBid, Stays
  <1>3. /\ Snap(q) \in Row /\ Snap(q) = row[Lot(q)] /\ Snap(q).closing \in Int
        /\ frame[q].deadline \in Nat /\ now \in Nat /\ Lot(q) \in Lots
    <2>1. Snap(q) = row[Lot(q)]
      BY <1>1 DEF IInv, TableInv, BidderInv, AdmittedOK
    <2>2. frame[q].deadline \in Nat
      BY <1>1, SMT DEF Frame
    <2> QED
      BY <1>1, <2>1, <2>2, AtWork DEF Finished
  <1>4. s.closing = IF NearWire(Snap(q)) THEN now + SnipingExtension ELSE Snap(q).closing
    BY <1>3 DEF Raised, Row
  <1> HIDE DEF s
  <1>5. /\ frame'[q].snap = s /\ frame'[q].deadline = frame[q].deadline
        /\ frame'[q].lot = frame[q].lot /\ frame'[q].extended = NearWire(Snap(q))
    BY <1>1, SMT DEF Frame
  <1>6. /\ SnipingWindow \in Nat /\ SnipingExtension \in Nat /\ RequestTimeout \in Nat
        /\ CommitDelay \in Nat
        /\ 0 < SnipingWindow /\ RequestTimeout + CommitDelay <= SnipingWindow
        /\ SnipingExtension <= SnipingWindow
    BY BoundTypes DEF Timely
  <1>7. ~NearWire(Snap(q)) => Snap(q).closing > now + SnipingWindow
    BY <1>3, <1>6 DEF NearWire
  <1>8. ASSUME NEW l \in Lots PROVE Follows(q, l)
    <2>1. Lot(q)' = Lot(q)
      BY <1>5 DEF Lot
    <2>2. OnItsWay(q)' /\ Lot(q)' = l => row[l].status # "absent"
      BY <1>1, <2>1, PresentLot DEF CalmInv, LotCalm, OnItsWay, Finished
    <2>3. Lot(q)' = l /\ ~frame'[q].extended => Far(l)
      BY <1>3, <1>5, <1>7, <2>1 DEF Far
    <2> QED
      BY <1>1, <2>1, <2>2, <2>3 DEF Follows, Busy, InCharge
  <1>9. WrittenInTime(q)'
    <2>1. NearWire(Snap(q)) => s.closing <= now + SnipingWindow
      BY <1>3, <1>4, <1>6
    <2>2. ~NearWire(Snap(q)) =>
            s.closing = row[Lot(q)].closing /\ frame[q].deadline + CommitDelay < s.closing
      <3>1. frame[q].deadline <= now + RequestTimeout
        BY <1>1 DEF MarginInv, MarginOK
      <3> QED
        BY <1>3, <1>4, <1>6, <1>7, <3>1
    <2>3. Lot(q)' = Lot(q) /\ Snap(q)' = s
      BY <1>5 DEF Lot, Snap
    <2> QED
      BY <1>1, <1>5, <2>1, <2>2, <2>3 DEF WrittenInTime
  <1>10. ArmedOK(q)'
    BY <1>1 DEF ArmedOK
  <1> QED
    BY <1>1, <1>2, <1>8, <1>9, <1>10, OneMoves

\* An extension is announced, and then armed, by the bid that made it.
LEMMA CalmBroadcastExtension ==
  ASSUME TypeInv, CalmInv, NEW q \in Bidders, BroadcastNewBid(q), frame[q].extended
  PROVE  CalmInv'
  <1>1. /\ q \in Goroutines \ Lots /\ pc[q] = "announce" /\ pc' = [pc EXCEPT ![q] = "arm"]
        /\ pc \in [Goroutines -> Places] /\ frame' = frame
        /\ row' = row /\ timers' = timers /\ up' = up /\ now' = now
    BY DEF BroadcastNewBid, Goto, world, db, Goroutines, TypeInv, TypeOK
  <1>2. pc'[q] = "arm" /\ Lot(q)' = Lot(q) /\ \A h \in Goroutines \ {q} : Stays(h)
    BY <1>1 DEF Stays, Lot
  <1>3. ASSUME NEW l \in Lots PROVE Follows(q, l)
    <2>1. OnItsWay(q)' /\ Lot(q)' = l => row[l].status # "absent"
      BY <1>1, <1>2, PresentLot DEF CalmInv, LotCalm, OnItsWay, Finished
    <2> QED
      BY <1>1, <1>2, <2>1 DEF Follows, Busy, InCharge
  <1>4. ArmedOK(q)' /\ WrittenInTime(q)'
    BY <1>2 DEF ArmedOK, WrittenInTime
  <1> QED
    BY <1>1, <1>2, <1>3, <1>4, OneMoves

\* A closer that reads, looks at the clock, gives up or is done.
LEMMA CalmCloser ==
  ASSUME TypeInv, CalmInv, NEW c \in Closers,
         ReadForClose(c) \/ CheckClosing(c) \/ CloseLost(c) \/ BroadcastClosed(c)
  PROVE  CalmInv'
  <1>1. /\ c \in Goroutines \ Lots /\ c \notin Bidders /\ pc \in [Goroutines -> Places]
        /\ frame \in [Goroutines -> Frame]
    BY DEF Goroutines, TypeInv, TypeOK
  <1>2. row' = row /\ timers' = timers /\ up' = up /\ now' = now
    BY Zenon DEF ReadForClose, CheckClosing, CloseLost, BroadcastClosed, world, db
  <1>3. /\ \E p : pc' = [pc EXCEPT ![c] = p]
        /\ \/ frame' = frame
           \/ \E f : frame' = [frame EXCEPT ![c] = f]
    BY Zenon DEF ReadForClose, CheckClosing, CloseLost, BroadcastClosed, Return, Goto
  <1>4. \A h \in Goroutines \ {c} : Stays(h)
    BY <1>1, <1>3 DEF Stays
  <1>5. ASSUME NEW l \in Lots PROVE Follows(c, l)
    <2>1. pc[c] \in {"read", "check", "close", "closed"}
      BY DEF ReadForClose, CheckClosing, CloseLost, BroadcastClosed
    <2>2. Lot(c) = l => row[l].status # "absent"
      BY <1>1, <2>1, PresentLot DEF CalmInv, LotCalm, OnItsWay, Finished
    <2>3. CASE pc'[c] = "idle"
      <3>1. Lot(c) = l /\ row[l].status = "active" => ~InCharge(c, l)
        BY <1>1, <2>1, <2>3 DEF ReadForClose, CheckClosing, CloseLost, BroadcastClosed, InCharge,
           Goto
      <3> QED
        BY <1>1, <2>3, <3>1 DEF Follows, Busy, InCharge, OnItsWay, Finished
    <2>4. CASE pc'[c] # "idle"
      <3>1. /\ pc[c] \in {"read", "check"} /\ pc'[c] \in {"check", "arm", "close"}
            /\ Lot(c)' = Lot(c)
            /\ pc'[c] \in {"check", "close"} /\ InCharge(c, l) => Snap(c)'.version = row[l].version
        <4>1. CASE ReadForClose(c)
          <5>1. /\ pc'[c] = "check" /\ pc[c] = "read"
                /\ frame'[c] = [frame[c] EXCEPT !.snap = row[Lot(c)]]
            BY <1>1, <2>4, <4>1 DEF ReadForClose, Return
          <5>2. frame'[c].lot = frame[c].lot /\ frame'[c].snap = row[Lot(c)]
            BY <1>1, <5>1, SMT DEF Frame
          <5> QED
            BY <5>1, <5>2 DEF InCharge, Lot, Snap
        <4>2. CASE CheckClosing(c) /\ now < Snap(c).closing
          <5>1. pc'[c] = "arm" /\ pc[c] = "check" /\ frame' = frame
            BY <1>1, <4>2 DEF CheckClosing, Goto
          <5> QED
            BY <5>1 DEF Lot
        <4>3. CASE CheckClosing(c) /\ ~(now < Snap(c).closing)
          <5>1. PICK w : frame' = [frame EXCEPT ![c].snap.winner = w]
            BY <4>3 DEF CheckClosing
          <5>2. pc'[c] = "close" /\ pc[c] = "check"
            BY <1>1, <4>3 DEF CheckClosing
          <5>3. frame'[c] = [frame[c] EXCEPT !.snap = [frame[c].snap EXCEPT !.winner = w]]
            BY <1>1, <5>1
          <5>4. /\ frame'[c].lot = frame[c].lot
                /\ frame'[c].snap = [frame[c].snap EXCEPT !.winner = w]
            BY <1>1, <5>3, SMT DEF Frame
          <5>5. frame[c].snap \in Row
            BY <1>1, SMT DEF Frame
          <5>6. frame'[c].snap.version = frame[c].snap.version
            BY <5>4, <5>5, SMT DEF Row
          <5> QED
            BY <5>2, <5>4, <5>6 DEF InCharge, VersionMatches, Lot, Snap
        <4>4. CASE CloseLost(c) \/ BroadcastClosed(c)
          BY <1>1, <2>4, <4>4 DEF CloseLost, BroadcastClosed, Return
        <4> QED
          BY <4>1, <4>2, <4>3, <4>4
      <3>2. InCharge(c, l) => InCharge(c, l)'
        BY <1>2, <3>1 DEF InCharge, VersionMatches
      <3>3. Busy(c, l)' => Busy(c, l)
        BY <3>1 DEF Busy
      <3> QED
        BY <1>1, <2>2, <3>1, <3>2, <3>3 DEF Follows
    <2> QED
      BY <2>3, <2>4
  <1>6. ArmedOK(c)'
    <2>1. pc'[c] # "install"
      BY <1>1 DEF ReadForClose, CheckClosing, CloseLost, BroadcastClosed, Return, Goto
    <2> QED
      BY <2>1 DEF ArmedOK
  <1> QED
    BY <1>1, <1>2, <1>4, <1>5, <1>6, OneMoves

LEMMA CalmArmTimer ==
  ASSUME TypeInv, CalmInv, NEW g \in Goroutines, ArmTimer(g)
  PROVE  CalmInv'
  <1>1. /\ pc \in [Goroutines -> Places] /\ frame \in [Goroutines -> Frame]
        /\ row' = row /\ timers' = timers /\ up' = up /\ now' = now
        /\ pc[g] = "arm" /\ pc' = [pc EXCEPT ![g] = "install"] /\ pc'[g] = "install"
        /\ frame'[g] = [frame[g] EXCEPT !.armed = Snap(g).closing]
        /\ ~Due(g)
    BY DEF ArmTimer, world, db, TypeInv, TypeOK
  <1>2. \A h \in Goroutines \ {g} : Stays(h)
    BY <1>1 DEF ArmTimer, Stays
  <1>3. /\ Lot(g)' = Lot(g) /\ Snap(g)' = Snap(g) /\ frame'[g].extended = frame[g].extended
        /\ frame'[g].armed = Snap(g).closing
    BY <1>1, SMT DEF Frame, Lot, Snap
  <1>4. ASSUME NEW l \in Lots PROVE Follows(g, l)
    <2>1. OnItsWay(g)' /\ Lot(g)' = l => row[l].status # "absent"
      BY <1>1, <1>3, PresentLot DEF CalmInv, LotCalm, OnItsWay, Finished
    <2> QED
      BY <1>1, <1>3, <2>1 DEF Follows, Busy, InCharge, OnItsWay, Opening, Finished
  <1>5. ArmedOK(g)' /\ WrittenInTime(g)'
    <2>1. Snap(g).closing \in Int /\ now \in Nat
      BY <1>1, AtWork DEF Finished
    <2> QED
      BY <1>1, <1>3, <2>1 DEF ArmedOK, WrittenInTime, Due, NoTimer
  <1> QED
    BY <1>1, <1>2, <1>4, <1>5, OneMoves

LEMMA CalmTick ==
  ASSUME TypeInv, CalmInv, Tick \/ UNCHANGED vars
  PROVE  CalmInv'
  <1>1. /\ now' >= now /\ now' \in Nat /\ row' = row /\ timers' = timers /\ up' = up
        /\ \A h \in Goroutines : Stays(h)
    BY DEF Tick, vars, db, threads, Stays, TypeInv, TypeOK
  <1>2. ASSUME NEW l \in Lots PROVE LotCalm(l)'
    <2>1. LotCalm(l) /\ SameLot(l) /\ ScheduleInv(l)
      BY <1>1 DEF CalmInv, SameLot, LotCalm
    <2>2. \A h \in Goroutines : Follows(h, l)
      BY <1>1, <2>1, StaysFollows
    <2> QED
      BY <1>1, <2>1, <2>2, LotKept
  <1>3. ASSUME NEW h \in Goroutines PROVE ArmedOK(h)'
    BY <1>1 DEF CalmInv, ArmedOK, Stays, Snap
  <1>4. ASSUME NEW q \in Bidders PROVE WrittenInTime(q)'
    BY <1>1, OnTimeStays DEF CalmInv, Goroutines
  <1> QED
    BY <1>1, <1>2, <1>3, <1>4 DEF CalmInv

\* A step of h that concerns no lot but k.
Around(h, k) ==
  /\ h \in Lots => h = k
  /\ pc[h] = "idle" \/ Lot(h) = k
  /\ Lot(h)' \in {k, Nobody}
  /\ pc'[h] # "commit" /\ ArmedOK(h)'

LEMMA Elsewhere ==
  ASSUME NEW l \in Lots, NEW k \in Lots \ {l}, NEW g \in Goroutines, Around(g, k)
  PROVE  Follows(g, l)
  BY DEF Around, Follows, Busy, InCharge

LEMMA OneLotChanges ==
  ASSUME TypeInv, CalmInv, NEW k \in Lots, up' = up, now' = now,
         \A l \in Lots \ {k} : SameLot(l),
         \A h \in Goroutines : Stays(h) \/ Around(h, k),
         \/ row'[k].closing = row[k].closing
         \/ \A q \in Bidders : pc[q] = "commit" /\ Lot(q) = k => Around(q, k),
         LotCalm(k)'
  PROVE  CalmInv'
  <1>1. now \in Nat /\ now' >= now
    BY DEF TypeInv, TypeOK
  <1>2. ASSUME NEW l \in Lots \ {k} PROVE LotCalm(l)'
    <2>1. LotCalm(l) /\ SameLot(l) /\ ScheduleInv(l) /\ row'[l] = row[l]
      BY DEF CalmInv, SameLot, LotCalm
    <2>2. \A h \in Goroutines : Follows(h, l)
      BY <2>1, StaysFollows, Elsewhere
    <2> QED
      BY <1>1, <2>1, <2>2, LotKept
  <1>3. ASSUME NEW h \in Goroutines PROVE ArmedOK(h)'
    BY DEF CalmInv, ArmedOK, Stays, Snap, Around
  <1>4. ASSUME NEW q \in Bidders PROVE WrittenInTime(q)'
    <2>1. q \in Goroutines /\ WrittenInTime(q)
      BY DEF Goroutines, CalmInv
    <2>2. CASE Around(q, k)
      BY <2>2 DEF Around, WrittenInTime
    <2>3. CASE Stays(q) /\ pc[q] # "commit"
      BY <2>3 DEF Stays, WrittenInTime
    <2>4. CASE Stays(q) /\ pc[q] = "commit" /\ ~Around(q, k)
      <3>1. Lot(q) \in Lots
        BY <2>1, <2>4, AtWork DEF Finished
      <3>2. row'[Lot(q)].closing = row[Lot(q)].closing
        BY <2>4, <3>1 DEF SameLot
      <3>3. /\ pc'[q] = pc[q] /\ Lot(q)' = Lot(q) /\ Snap(q)' = Snap(q)
            /\ frame'[q].extended = frame[q].extended
            /\ frame'[q].deadline = frame[q].deadline
        BY <2>4 DEF Stays, Lot, Snap
      <3> QED
        BY <2>1, <3>2, <3>3 DEF WrittenInTime
    <2> QED
      BY <2>1, <2>2, <2>3, <2>4
  <1> QED
    BY <1>2, <1>3, <1>4 DEF CalmInv

LEMMA CalmCreateLot ==
  ASSUME Timely, TypeInv, IInv, CalmInv, NEW k \in Lots, NEW r \in Replicas,
         NEW t \in ClosingTimes, NEW z \in Offsets, CreateLot(k, r, t, z)
  PROVE  CalmInv'
  <1> DEFINE f == [Serving(r, k) EXCEPT !.snap = OpenRow(t)]
  <1>1. /\ k \in Goroutines /\ pc[k] = "idle" /\ pc'[k] = "arm" /\ frame'[k] = f
        /\ row'[k] = OpenRow(t + z) /\ timers' = timers /\ up' = up /\ now' = now
        /\ \A l \in Lots \ {k} : row'[l] = row[l]
        /\ \A h \in Goroutines \ {k} : Stays(h)
    BY DEF CreateLot, Opened, world, Stays, Goroutines, TypeInv, TypeOK
  <1>2. f.lot = k /\ f.snap = OpenRow(t)
    BY DEF Serving
  <1> HIDE DEF f
  <1>3. /\ row'[k].status = "active" /\ row'[k].closing = t + z /\ f.snap.closing = t
        /\ t \in Nat /\ z \in Int /\ z <= 0
    BY <1>1, <1>2 DEF OpenRow, Timely
  <1>4. /\ row[k].status = "absent" /\ \A u \in Replicas : timers[u][k] = NoTimer
        /\ \A g \in Goroutines : OnItsWay(g) => Lot(g) # k
    BY <1>1 DEF IInv, TableInv, OpenInv, CalmInv, LotCalm, ScheduleInv
  <1>5. ASSUME NEW h \in Goroutines, OnItsWay(h)', Lot(h)' = k PROVE h = k
    <2>1. h # k => OnItsWay(h) /\ Lot(h) = k
      BY <1>1, <1>5 DEF Stays, OnItsWay, Lot
    <2> QED
      BY <1>4, <2>1
  <1>6. Lot(k)' = k /\ Snap(k)' = f.snap /\ OnItsWay(k)' /\ Opening(k)'
    BY <1>1, <1>2 DEF Lot, Snap, OnItsWay, Opening, Finished
  <1>7. ScheduleInv(k)'
    <2>1. \A g \in Goroutines : pc'[g] = "clear" /\ Lot(g)' = k => FALSE
      BY <1>1, <1>5 DEF OnItsWay, Finished
    <2> QED
      BY <1>3, <1>6, <2>1 DEF ScheduleInv
  <1>8. Untouched(k)'
    <2>1. \A g \in Goroutines : ~Busy(g, k)'
      BY <1>5 DEF Busy, OnItsWay, Finished
    <2> QED
      BY <1>1, <1>3, <1>4, <1>6, <2>1 DEF Untouched
  <1>9. Attended(k)'
    BY <1>1, <1>6 DEF Attended, InCharge
  <1>10. Around(k, k)
    BY <1>1, <1>6 DEF Around, ArmedOK
  <1>11. \A q \in Bidders : pc[q] = "commit" /\ Lot(q) = k => Around(q, k)
    BY <1>4 DEF OnItsWay, Finished, Goroutines
  <1>12. \A l \in Lots \ {k} : SameLot(l)
    BY <1>1 DEF SameLot
  <1> QED
    BY <1>1, <1>7, <1>8, <1>9, <1>10, <1>11, <1>12, OneLotChanges DEF LotCalm

LEMMA CalmCommitBid ==
  ASSUME TypeInv, IInv, CalmInv, NEW q \in Bidders, CommitBid(q)
  PROVE  CalmInv'
  <1>0. PICK k \in Lots : k = Lot(q)
    BY AtWork DEF CommitBid, Committed, Finished, Goroutines
  <1>1. /\ q \in Goroutines /\ q \notin Lots /\ pc[q] = "commit" /\ pc'[q] = "announce"
        /\ frame' = frame /\ timers' = timers /\ up' = up /\ now' = now
        /\ now <= frame[q].deadline + CommitDelay /\ row' = [row EXCEPT ![k] = Snap(q)]
        /\ \A h \in Goroutines \ {q} : Stays(h)
        /\ row \in [Lots -> Row] /\ frame \in [Goroutines -> Frame]
    BY <1>0 DEF CommitBid, Committed, Goto, world, Stays, Goroutines, TypeInv, TypeOK
  <1>2. /\ k \in Lots /\ Snap(q) \in Row /\ Snap(q).closing \in Int /\ now \in Nat
        /\ row[k].closing \in Int
    BY <1>0, <1>1, AtWork DEF Finished
  <1>3. frame[q].deadline \in Nat /\ SnipingWindow \in Nat /\ CommitDelay \in Nat
    BY <1>1, BoundTypes, SMT DEF Frame
  <1>4. /\ row[k].status = "active" /\ Snap(q).status = "active"
        /\ ScheduleInv(k) /\ (Early(k) => Untouched(k)) /\ WrittenInTime(q)
    BY <1>0, <1>1, <1>2 DEF IInv, TableInv, BidderInv, WrittenOK, CalmInv, LotCalm
  <1>5. \A p \in Bidders : pc[p] = "commit" /\ Lot(p) = k => p = q
    BY <1>0, <1>1 DEF IInv, TableInv, LockInv
  <1>6. row'[k] = Snap(q) /\ \A l \in Lots \ {k} : SameLot(l)
    BY <1>1, <1>2 DEF SameLot
  <1>7. /\ Lot(q)' = k /\ \A h \in Goroutines : Lot(h)' = Lot(h)
        /\ Snap(k)' = Snap(k) /\ Lot(k)' = Lot(k) /\ pc'[k] = pc[k]
    <2>1. k \in Goroutines /\ k # q
      BY <1>1, <1>2 DEF Goroutines
    <2> QED
      BY <1>0, <1>1, <2>1 DEF Lot, Snap, Stays
  <1>8. ScheduleInv(k)'
    <2>1. \A g \in Goroutines : pc'[g] = "clear" /\ Lot(g)' = k => FALSE
      BY <1>1, <1>4, <1>7 DEF ScheduleInv, Stays
    <2> QED
      BY <1>4, <1>6, <1>7, <2>1 DEF ScheduleInv, OnItsWay, Opening
  <1>9. ~Pending(k)'
    <2>1. ASSUME NEW p \in Bidders, pc'[p] = "commit", Lot(p)' = k PROVE FALSE
      BY <1>1, <1>5, <1>7, <2>1 DEF Stays, Goroutines
    <2> QED
      BY <2>1 DEF Pending
  <1>10. ~frame[q].extended => Untouched(k) /\ row[k].closing = Snap(q).closing
    <2> SUFFICES ASSUME ~frame[q].extended PROVE Untouched(k) /\ row[k].closing = Snap(q).closing
      OBVIOUS
    <2>1. Snap(q).closing = row[k].closing /\ frame[q].deadline + CommitDelay < Snap(q).closing
      BY <1>0, <1>1, <1>4 DEF WrittenInTime
    <2>2. now < row[k].closing
      BY <1>1, <1>2, <1>3, <2>1
    <2>3. Pending(k)
      BY <1>0, <1>1 DEF Pending
    <2> QED
      BY <1>4, <2>1, <2>2, <2>3 DEF Early
  <1>11. Early(k)' => Untouched(k)'
    <2>1. CASE frame[q].extended
      <3>1. ~Far(k)'
        BY <1>1, <1>2, <1>3, <1>4, <1>6, <2>1 DEF WrittenInTime, Far
      <3> QED
        BY <1>9, <3>1 DEF Early
    <2>2. CASE ~frame[q].extended
      <3>1. \A g \in Goroutines : ~Busy(g, k)'
        <4>1. \A g \in Goroutines \ {q} : Busy(g, k)' => Busy(g, k)
          BY <1>1 DEF Busy, Stays, Lot
        <4>2. ~Busy(q, k)'
          BY <1>1, <2>2 DEF Busy
        <4> QED
          BY <1>10, <2>2, <4>1, <4>2 DEF Untouched
      <3> QED
        BY <1>1, <1>6, <1>7, <1>10, <2>2, <3>1 DEF Untouched, Opening
    <2> QED
      BY <2>1, <2>2
  <1>12. Attended(k)'
    <2>1. CASE frame[q].extended
      <3>1. InCharge(q, k)'
        BY <1>1, <1>7, <2>1 DEF InCharge
      <3> QED
        BY <1>1, <3>1 DEF Attended
    <2>2. CASE ~frame[q].extended
      <3>1. CASE Opening(k)
        <4>1. InCharge(k, k)'
          BY <1>2, <1>4, <1>7, <3>1 DEF InCharge, Opening, ScheduleInv, OnItsWay, Finished, Goroutines
        <4> QED
          BY <1>2, <4>1 DEF Attended, Goroutines
      <3>2. CASE ~Opening(k)
        BY <1>1, <1>10, <2>2, <3>2 DEF Untouched, Attended
      <3> QED
        BY <3>1, <3>2
    <2> QED
      BY <2>1, <2>2
  <1>13. Around(q, k)
    BY <1>0, <1>1, <1>7 DEF Around, ArmedOK
  <1> QED
    BY <1>1, <1>2, <1>5, <1>6, <1>8, <1>11, <1>12, <1>13, OneLotChanges DEF LotCalm

LEMMA CalmCloseRow ==
  ASSUME TypeInv, IInv, CalmInv, NEW c \in Closers, CloseRow(c) \/ ClearTimer(c)
  PROVE  CalmInv'
  <1>0. PICK k \in Lots : k = Lot(c)
    BY AtWork DEF CloseRow, Shut, ClearTimer, Finished, Goroutines
  <1>1. /\ c \in Goroutines /\ c \notin Lots /\ pc[c] \in {"close", "clear"}
        /\ pc'[c] \in {"clear", "closed"} /\ frame' = frame
        /\ up' = up /\ now' = now /\ \A h \in Goroutines \ {c} : Stays(h)
        /\ row \in [Lots -> Row] /\ timers \in [Replicas -> [Lots -> Nat \cup {NoTimer}]]
    BY DEF CloseRow, Shut, ClearTimer, Goto, world, Stays, Goroutines, TypeInv, TypeOK
  <1>2. /\ row'[k].status = "closed" /\ row'[k].closing = row[k].closing
        /\ \A l \in Lots \ {k} : SameLot(l)
    <2>1. CASE CloseRow(c)
      <3>1. /\ row'[k].status = "closed" /\ row'[k].closing = row[k].closing
            /\ row' = [row EXCEPT ![k] = row'[k]]
        BY <1>0, <2>1, ClosingFacts DEF CloseRow
      <3>2. timers' = timers
        BY <2>1 DEF CloseRow, Shut
      <3> QED
        BY <1>1, <3>1, <3>2 DEF SameLot
    <2>2. CASE ClearTimer(c)
      <3>1. pc[c] = "clear" /\ row' = row
        BY <2>2 DEF ClearTimer, db
      <3>2. row[k].status = "closed"
        BY <1>0, <1>1, <3>1 DEF CalmInv, LotCalm, ScheduleInv
      <3>3. timers' = [timers EXCEPT ![frame[c].home][k] = NoTimer]
        BY <1>0, <2>2 DEF ClearTimer
      <3>4. ASSUME NEW l \in Lots \ {k}, NEW r \in Replicas PROVE timers'[r][l] = timers[r][l]
        BY <1>1, <3>3
      <3> QED
        BY <3>1, <3>2, <3>4 DEF SameLot
    <2> QED
      BY <2>1, <2>2
  <1>3. ScheduleInv(k) /\ k \in Goroutines /\ k # c
    BY <1>1 DEF CalmInv, LotCalm, Goroutines
  <1>4. ScheduleInv(k)'
    BY <1>1, <1>2, <1>3 DEF ScheduleInv, Stays, OnItsWay, Opening, Lot
  <1>5. (Early(k)' => Untouched(k)') /\ Attended(k)'
    BY <1>2 DEF Early, Attended
  <1>6. Around(c, k)
    BY <1>0, <1>1 DEF Around, ArmedOK, Lot
  <1> QED
    BY <1>1, <1>2, <1>4, <1>5, <1>6, OneLotChanges DEF LotCalm

LEMMA CalmFireTimer ==
  ASSUME TypeInv, CalmInv, NEW k \in Lots, NEW r \in Replicas, NEW c \in Closers,
         FireTimer(r, k, c)
  PROVE  CalmInv'
  <1>1. /\ c \in Goroutines /\ c \notin Lots /\ c \notin Bidders /\ pc[c] = "idle"
        /\ pc'[c] = "read" /\ frame'[c].lot = k
        /\ up' = up /\ now' = now /\ row' = row
        /\ timers[r][k] # NoTimer /\ timers[r][k] <= now
        /\ \A h \in Goroutines \ {c} : Stays(h)
    BY ServingFields DEF FireTimer, SpawnCloser, db, world, Stays, Goroutines, TypeInv, TypeOK
  <1>2. \A l \in Lots \ {k} : SameLot(l)
    <2>1. /\ timers' = [timers EXCEPT ![r][k] = NoTimer]
          /\ timers \in [Replicas -> [Lots -> Nat \cup {NoTimer}]]
      BY DEF FireTimer, TypeInv, TypeOK
    <2> QED
      BY <1>1, <2>1 DEF SameLot
  <1>3. ScheduleInv(k) /\ (Early(k) => Untouched(k)) /\ k \in Goroutines /\ k # c
    BY <1>1 DEF CalmInv, LotCalm, Goroutines
  <1>4. row[k].status # "absent"
    BY <1>1, <1>3 DEF ScheduleInv
  <1>5. ScheduleInv(k)'
    BY <1>1, <1>3, <1>4 DEF ScheduleInv, Stays, OnItsWay, Opening, Lot
  <1>6. ~Early(k)'
    <2>1. /\ timers[r][k] \in Nat /\ now \in Nat /\ row[k].closing \in Int
          /\ now' >= now /\ now' \in Nat
      <3>1. row[k] \in Row
        BY DEF TypeInv, TypeOK
      <3>2. timers[r][k] \in Nat \cup {NoTimer}
        BY DEF TypeInv, TypeOK
      <3> QED
        BY <1>1, <3>1, <3>2 DEF Row, TypeInv, TypeOK
    <2>2. Early(k) => FALSE
      BY <1>1, <1>3, <2>1 DEF Early, Untouched
    <2>3. Pending(k)' => Pending(k)
      BY <1>1 DEF Pending, Stays, Lot, Goroutines
    <2> QED
      BY <1>1, <2>1, <2>2, <2>3, EarlyBefore
  <1>7. Attended(k)'
    <2>1. InCharge(c, k)'
      BY <1>1 DEF InCharge, Lot
    <2> QED
      BY <1>1, <2>1 DEF Attended
  <1>8. Around(c, k)
    BY <1>1 DEF Around, ArmedOK, Lot
  <1> QED
    BY <1>1, <1>2, <1>5, <1>6, <1>7, <1>8, OneLotChanges DEF LotCalm

\* Where a goroutine is after scheduleClose has returned.
LEMMA AfterScheduling ==
  ASSUME TypeInv, NEW g \in Goroutines
  PROVE  /\ Scheduled(g) \in {"accepted", "extended", "idle"}
         /\ g \notin Bidders => Scheduled(g) \in Finished
         /\ Kept(g).lot \in {Lot(g), Nobody}
  BY KeptType, FrameTypes, ServingFields
     DEF Scheduled, Kept, Goroutines, Finished, NoFrame, Lot

LEMMA CalmInstallTimer ==
  ASSUME TypeInv, CalmInv, NEW g \in Goroutines, InstallTimer(g)
  PROVE  CalmInv'
  <1>0. PICK k \in Lots : k = Lot(g)
    BY AtWork DEF InstallTimer, Finished
  <1>1. PICK r \in Replicas : r = frame[g].home
    BY DEF InstallTimer, TypeInv, Located, Finished
  <1>2. /\ pc[g] = "install" /\ pc'[g] = Scheduled(g) /\ frame'[g] = Kept(g)
        /\ up' = up /\ now' = now /\ row' = row
        /\ \A h \in Goroutines \ {g} : Stays(h)
        /\ timers' = [timers EXCEPT ![r][k] = frame[g].armed]
        /\ timers \in [Replicas -> [Lots -> Nat \cup {NoTimer}]]
    BY <1>0, <1>1 DEF InstallTimer, world, db, Stays, TypeInv, TypeOK
  <1>3. /\ timers'[r][k] = frame[g].armed /\ frame[g].armed # NoTimer
        /\ frame[g].armed = Snap(g).closing
        /\ \A u \in Replicas \ {r} : timers'[u][k] = timers[u][k]
        /\ \A l \in Lots \ {k} : SameLot(l)
    BY <1>2 DEF SameLot, CalmInv, ArmedOK
  <1>4. /\ ScheduleInv(k) /\ (Early(k) => Untouched(k)) /\ k \in Goroutines
        /\ row[k].status # "absent" /\ (g \in Lots => g = k)
    <2>1. ScheduleInv(k) /\ (Early(k) => Untouched(k)) /\ k \in Goroutines
      BY DEF CalmInv, LotCalm, Goroutines
    <2>2. g \in Lots => Lot(g) = g
      BY <1>2 DEF CalmInv, LotCalm, ScheduleInv, OnItsWay, Finished
    <2> QED
      BY <1>0, <1>2, <2>1, <2>2, PresentLot DEF OnItsWay, Finished
  <1>5. g \in Lots => pc'[g] = "accepted"
    BY <1>2 DEF Scheduled
  <1>6. ScheduleInv(k)'
    <2>1. \A h \in Goroutines : pc'[h] = "clear" /\ Lot(h)' = k => row'[k].status = "closed"
      BY <1>2, <1>4, AfterScheduling DEF ScheduleInv, Stays, Lot
    <2>2. OnItsWay(k)' => Lot(k)' = k /\ Opening(k)'
      BY <1>2, <1>4, <1>5 DEF ScheduleInv, Stays, OnItsWay, Opening, Lot, Finished
    <2> QED
      BY <1>2, <1>4, <2>1, <2>2 DEF ScheduleInv
  <1>7. Early(k)' => Untouched(k)'
    <2> SUFFICES ASSUME Early(k)' PROVE Untouched(k)'
      OBVIOUS
    <2>1. now' >= now /\ now' \in Nat
      BY <1>2 DEF TypeInv, TypeOK
    <2>2. ASSUME NEW p \in Bidders, pc'[p] = "commit" PROVE Stays(p)
      BY <1>2, <2>2, AfterScheduling DEF Goroutines
    <2>3. Pending(k)' => Pending(k)
      BY <2>2 DEF Pending, Stays, Lot
    <2>4. Untouched(k)
      BY <1>2, <1>4, <2>1, <2>3, EarlyBefore
    <2>5. g = k
      BY <1>0, <1>2, <1>4, <2>4 DEF Untouched, Busy
    <2>6. \A h \in Goroutines : ~Busy(h, k)'
      BY <1>2, <2>4, <2>5 DEF Untouched, Busy, Stays, Lot
    <2>7. ~Opening(k)'
      BY <1>5, <2>5 DEF Opening
    <2>8. timers'[r][k] >= row'[k].closing
      BY <1>2, <1>3, <2>4, <2>5 DEF Untouched, Opening
    <2> QED
      BY <1>2, <1>3, <2>4, <2>6, <2>7, <2>8 DEF Untouched
  <1>8. Attended(k)'
    BY <1>3 DEF Attended
  <1>9. Around(g, k)
    BY <1>0, <1>2, <1>4, AfterScheduling DEF Around, ArmedOK, Lot
  <1> QED
    BY <1>2, <1>3, <1>6, <1>7, <1>8, <1>9, OneLotChanges DEF LotCalm

LEMMA CalmCloseAtOnce ==
  ASSUME TypeInv, CalmInv, NEW g \in Goroutines, NEW c \in Closers, CloseAtOnce(g, c)
  PROVE  CalmInv'
  <1>0. PICK k \in Lots : k = Lot(g)
    BY AtWork DEF CloseAtOnce, Finished
  <1>1. /\ c \in Goroutines /\ c \notin Lots /\ c \notin Bidders /\ pc[g] = "arm"
        /\ (pc[c] = "idle" \/ c = g) /\ Due(g)
        /\ pc'[c] = "read" /\ frame'[c].lot = k
        /\ g # c => pc'[g] = Scheduled(g) /\ frame'[g] = Kept(g)
        /\ up' = up /\ now' = now /\ row' = row /\ timers' = timers
        /\ \A h \in Goroutines \ {g, c} : Stays(h)
    BY <1>0, ServingFields DEF CloseAtOnce, world, db, Stays, Goroutines, TypeInv, TypeOK
  <1>2. /\ ScheduleInv(k) /\ (Early(k) => Untouched(k)) /\ k \in Goroutines /\ k # c
        /\ row[k].status # "absent" /\ (g \in Lots => g = k)
    <2>1. ScheduleInv(k) /\ (Early(k) => Untouched(k)) /\ k \in Goroutines
      BY DEF CalmInv, LotCalm, Goroutines
    <2>2. g \in Lots => Lot(g) = g
      BY <1>1 DEF CalmInv, LotCalm, ScheduleInv, OnItsWay, Finished
    <2> QED
      BY <1>0, <1>1, <2>1, <2>2, PresentLot DEF OnItsWay, Finished
  <1>3. g \in Lots => pc'[g] = "accepted"
    BY <1>1 DEF Scheduled
  <1>4. ScheduleInv(k)'
    <2>1. \A h \in Goroutines : pc'[h] = "clear" /\ Lot(h)' = k => row'[k].status = "closed"
      BY <1>1, <1>2, AfterScheduling DEF ScheduleInv, Stays, Lot
    <2>2. OnItsWay(k)' => Lot(k)' = k /\ Opening(k)'
      BY <1>1, <1>2, <1>3 DEF ScheduleInv, Stays, OnItsWay, Opening, Lot, Finished
    <2> QED
      BY <1>1, <1>2, <2>1, <2>2 DEF ScheduleInv
  <1>5. ~Early(k)'
    <2> SUFFICES ASSUME Early(k)' PROVE FALSE
      OBVIOUS
    <2>1. now' >= now /\ now' \in Nat /\ now \in Nat /\ row[k].closing \in Int
      <3>1. row[k] \in Row
        BY DEF TypeInv, TypeOK
      <3> QED
        BY <1>1, <3>1 DEF Row, TypeInv, TypeOK
    <2>2. ASSUME NEW p \in Bidders, pc'[p] = "commit" PROVE Stays(p)
      BY <1>1, <2>2, AfterScheduling DEF Goroutines
    <2>3. Pending(k)' => Pending(k)
      BY <2>2 DEF Pending, Stays, Lot
    <2>4. Early(k) /\ Untouched(k)
      BY <1>1, <1>2, <2>1, <2>3, EarlyBefore
    <2>5. g = k
      BY <1>0, <1>1, <1>2, <2>4 DEF Untouched, Busy
    <2>6. Snap(k).closing >= row[k].closing /\ Snap(k).closing \in Int
      BY <1>1, <2>4, <2>5, AtWork DEF Untouched, Opening, Finished
    <2> QED
      BY <1>1, <2>1, <2>4, <2>5, <2>6 DEF Early, Due
  <1>6. Attended(k)'
    <2>1. InCharge(c, k)'
      BY <1>1 DEF InCharge, Lot
    <2> QED
      BY <1>1, <2>1 DEF Attended
  <1>7. Around(c, k)
    BY <1>0, <1>1 DEF Around, ArmedOK, Lot
  <1>8. Around(g, k)
    BY <1>0, <1>1, <1>2, <1>7, AfterScheduling DEF Around, ArmedOK, Lot
  <1>9. \A l \in Lots \ {k} : SameLot(l)
    BY <1>1 DEF SameLot
  <1> QED
    BY <1>1, <1>4, <1>5, <1>6, <1>7, <1>8, <1>9, OneLotChanges DEF LotCalm

LEMMA CalmStep ==
  ASSUME Timely
  PROVE  TypeInv /\ IInv /\ MarginInv /\ CalmInv /\ [Next]_vars => CalmInv'
  <1> SUFFICES ASSUME TypeInv, IInv, MarginInv, CalmInv, [Next]_vars
      PROVE  CalmInv'
    OBVIOUS
  <1>1. ~Fault /\ ~Preempt /\ \A r \in Replicas : up[r]
    <2>1. faults \in Nat /\ MaxFaults = 0
      BY DEF Timely, TypeInv, TypeOK
    <2> QED
      BY <2>1 DEF Timely, Fault, CalmInv
  <1>2. CASE Tick \/ UNCHANGED vars
    BY <1>2, CalmTick
  <1>3. ASSUME NEW l \in Lots, NEW r \in Replicas,
               \/ \E t \in ClosingTimes, z \in Offsets :
                    CreateLot(l, r, t, z) \/ CreateReplyLost(l, r, t, z)
               \/ \E q \in Bidders, a \in Amounts : PlaceBid(q, l, r, a)
               \/ TimerFires(r, l)
        PROVE  CalmInv'
    <2>1. CASE \E t \in ClosingTimes, z \in Offsets : CreateLot(l, r, t, z)
      BY <2>1, CalmCreateLot
    <2>1a. ASSUME NEW t \in ClosingTimes, NEW z \in Offsets, CreateReplyLost(l, r, t, z)
           PROVE  CalmInv'
      BY <1>1, <2>1a DEF CreateReplyLost
    <2>2. CASE \E q \in Bidders, a \in Amounts : PlaceBid(q, l, r, a)
      <3>1. PICK q \in Bidders : \E a \in Amounts : PlaceBid(q, l, r, a)
        BY <2>2
      <3> QED
        BY <3>1, CalmBidder, Zenon
    <2>3. CASE TimerFires(r, l)
      BY <2>3, CalmFireTimer DEF TimerFires
    <2> QED
      BY <1>3, <2>1, <2>1a, <2>2, <2>3
  <1>4. ASSUME NEW q \in Bidders, BidderStep(q) \/ CancelBid(q) \/ CommitReplyLost(q)
        PROVE  CalmInv'
    <2>1. CASE CommitReplyLost(q)
      BY <1>1, <2>1 DEF CommitReplyLost
    <2>2. CASE UpdateBid(q)
      BY <2>2, CalmUpdateBid
    <2>3. CASE CommitBid(q)
      BY <2>3, CalmCommitBid
    <2>4. CASE BroadcastNewBid(q) /\ frame[q].extended
      BY <2>4, CalmBroadcastExtension
    <2>5. CASE \/ AdmitBid(q) \/ RefuseBid(q) \/ CreateBid(q) \/ RetryBid(q) \/ CancelBid(q)
               \/ BroadcastNewBid(q) /\ ~frame[q].extended
               \/ BroadcastExtended(q)
      BY <2>5, CalmBidder, Zenon
    <2> QED
      BY <1>4, <2>1, <2>2, <2>3, <2>4, <2>5, Zenon DEF BidderStep
  <1>5. ASSUME NEW c \in Closers, CloserStep(c) \/ CloseReplyLost(c) \/ CloserFails(c)
        PROVE  CalmInv'
    <2>1. CASE CloseReplyLost(c) \/ CloserFails(c)
      BY <1>1, <2>1 DEF CloseReplyLost, CloserFails
    <2>2. CASE ReadForClose(c) \/ CheckClosing(c) \/ CloseLost(c) \/ BroadcastClosed(c)
      BY <2>2, CalmCloser
    <2>3. CASE CloseRow(c) \/ ClearTimer(c)
      BY <2>3, CalmCloseRow
    <2> QED
      BY <1>5, <2>1, <2>2, <2>3, Zenon DEF CloserStep
  <1>6. ASSUME NEW g \in Goroutines, ScheduleStep(g) \/ \E c \in Closers : FireUninstalled(g, c)
        PROVE  CalmInv'
    <2>1. ~ \E c \in Closers : FireUninstalled(g, c)
      BY <1>1 DEF FireUninstalled
    <2> QED
      BY <1>6, <2>1, CalmArmTimer, CalmInstallTimer, CalmCloseAtOnce DEF ScheduleStep
  <1>7. ASSUME NEW r \in Replicas, Stop(r) \/ Restart(r) \/ RestartBlind(r)
        PROVE  CalmInv'
    BY <1>1, <1>7 DEF Stop, Restart, RestartBlind
  <1> QED
    BY <1>2, <1>3, <1>4, <1>5, <1>6, <1>7, Zenon DEF Next

LEMMA CalmInit == Init => CalmInv
  <1> SUFFICES ASSUME Init PROVE CalmInv
    OBVIOUS
  <1>1. \A g \in Goroutines : pc[g] = "idle"
    BY DEF Init
  <1>2. \A l \in Lots : row[l].status = "absent" /\ \A r \in Replicas : timers[r][l] = NoTimer
    BY DEF Init, NoRow
  <1>3. (\A r \in Replicas : up[r]) /\ Lots \subseteq Goroutines /\ Bidders \subseteq Goroutines
    BY DEF Init, Goroutines
  <1>4. \A g \in Goroutines : ArmedOK(g) /\ ~OnItsWay(g)
    BY <1>1 DEF ArmedOK, OnItsWay, Finished
  <1>5. \A q \in Bidders : WrittenInTime(q)
    BY <1>1, <1>3 DEF WrittenInTime
  <1>6. ASSUME NEW l \in Lots PROVE LotCalm(l)
    BY <1>1, <1>2, <1>3, <1>4 DEF LotCalm, ScheduleInv, Early, Attended
  <1> QED
    BY <1>3, <1>4, <1>5, <1>6 DEF CalmInv

\* In a run without a failure (crash, database error under a closer, lost
\* reply), without a timer that fires before it is in the map, and with a
\* positive window that is at least the extension and at least the request's
\* timeout with the delay of its COMMIT, when no closing time is stored later
\* than it was meant, an active lot always has somebody to close it: a timer, a
\* goroutine about to arm one, or a closer whose copy is current
\* (engine.go:131-149,188-234).  The runs find_lostclose and find_restart show
\* lots stranded when the window is zero and when a replica crashes.
THEOREM NobodyStranded == Timely => (Spec => []NeverStranded)
  <1> SUFFICES ASSUME Timely PROVE Spec => []NeverStranded
    OBVIOUS
  <1>1. Init => MarginInv /\ CalmInv
    BY CalmInit DEF Init, MarginInv, MarginOK, Goroutines
  <1>2. TypeInv /\ IInv /\ MarginInv /\ CalmInv /\ [Next]_vars => MarginInv' /\ CalmInv'
    BY MarginStep, CalmStep DEF MarginInv
  <1>3. CalmInv => NeverStranded
    BY DEF CalmInv, LotCalm, Attended, NeverStranded
  <1> QED
    BY <1>1, <1>2, <1>3, Invariant, PTL DEF Spec
=============================================================================
