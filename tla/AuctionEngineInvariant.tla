----------------------- MODULE AuctionEngineInvariant -----------------------
(***************************************************************************)
(* Type correctness of AuctionEngine, the facts on cents and rows the      *)
(* other proofs rest on, and the inductive invariant IInv: it holds at     *)
(* first and every step keeps it.  For every number of lots, replicas,     *)
(* bidders and closers, every price, clock bound and number of failures.   *)
(***************************************************************************)
EXTENDS AuctionEngine, TLAPS

USE NamesAssumption, MoneyAssumption, TimeAssumption

-----------------------------------------------------------------------------
(* Rounding to cents. *)

\* Division by a positive number rounds down.
LEMMA Division ==
  ASSUME NEW a \in Nat, NEW b \in Nat \ {0}
  PROVE  /\ a \div b \in Nat
         /\ b * (a \div b) <= a
         /\ a < b * (a \div b) + b
  BY Z3

\* A stored amount is a natural number of cents.
LEMMA CentsType == ASSUME NEW x \in Nat PROVE Cents(x) \in Nat
  <1>1. 2 * x + Cent \in Nat /\ 2 * Cent \in Nat \ {0}
    BY SMT
  <1> QED
    BY <1>1, Division DEF Cents

\* Rounding never takes an offer below a whole number of cents it reached.
LEMMA CentsReach ==
  ASSUME NEW x \in Nat, NEW k \in Nat, x >= Cent * k
  PROVE  Cents(x) >= k
  <1> DEFINE b == 2 * Cent
             n == 2 * x + Cent
             d == n \div b
  <1>1. n \in Nat /\ b \in Nat \ {0}
    BY SMT
  <1>2. d \in Nat /\ n < b * d + b
    BY <1>1, Division
  <1>3. b * k <= n
    BY SMT
  <1>4. b * k < b * (d + 1)
    BY <1>1, <1>2, <1>3, SMT
  <1>5. k < d + 1
    BY <1>1, <1>2, <1>4, SMT
  <1> QED
    BY <1>2, <1>5, SMT DEF Cents

-----------------------------------------------------------------------------
(* Types. *)

\* A goroutine that is on its way knows its lot and its replica.
Located ==
  \A g \in Goroutines : pc[g] \notin Finished => Lot(g) \in Lots /\ frame[g].home \in Replicas

TypeInv == TypeOK /\ Located

LEMMA FrameTypes ==
  /\ NoRow \in Row
  /\ NoFrame \in Frame
  /\ \A r \in Replicas, l \in Lots : Serving(r, l) \in Frame
  <1>1. NoRow \in Row
    BY SMT DEF NoRow, Row
  <1>2. ASSUME NEW r \in Replicas \cup {Nobody}, NEW l \in Lots \cup {Nobody}
        PROVE  Serving(r, l) \in Frame
    BY <1>1, SMT DEF Serving, Frame, NoTimer
  <1> QED
    BY <1>1, <1>2 DEF NoFrame

\* What a frame holds after one or two of its fields are set.
LEMMA ServingFields ==
  ASSUME NEW r, NEW l
  PROVE  /\ Serving(r, l).home = r /\ Serving(r, l).lot = l
         /\ Serving(r, l).snap = NoRow /\ Serving(r, l).attempts = 0
         /\ Serving(r, l).armed = NoTimer
  BY DEF Serving

LEMMA BoundTypes ==
  /\ SnipingWindow \in Nat /\ SnipingExtension \in Nat /\ RequestTimeout \in Nat
  /\ CommitDelay \in Nat /\ MaxTime \in Nat /\ LastBid \in Nat /\ MaxFaults \in Nat
  BY Zenon

LEMMA RequestFields ==
  ASSUME NEW r \in Replicas, NEW l \in Lots, NEW a \in Amounts, now \in Nat
  PROVE  /\ Request(r, l, a) \in Frame
         /\ Request(r, l, a).lot = l /\ Request(r, l, a).home = r
         /\ Request(r, l, a).amount = a /\ Request(r, l, a).attempts = 0
  <1> DEFINE f == Serving(r, l)
             d == now + RequestTimeout
             e == [f EXCEPT !.amount = a]
             k == [e EXCEPT !.deadline = d]
  <1>1. f \in Frame /\ f.lot = l /\ f.home = r /\ f.attempts = 0
    BY FrameTypes, ServingFields
  <1>2. a \in Nat /\ d \in Nat
    BY BoundTypes, SMT
  <1>3. Request(r, l, a) = k
    BY DEF Request
  <1> HIDE DEF f, d
  <1>4. e \in Frame /\ e.amount = a /\ e.lot = f.lot /\ e.home = f.home /\ e.attempts = f.attempts
    BY <1>1, <1>2, SMT DEF Frame
  <1> HIDE DEF e
  <1>5. k \in Frame /\ k.amount = e.amount /\ k.lot = e.lot /\ k.home = e.home
        /\ k.attempts = e.attempts
    BY <1>2, <1>4, SMT DEF Frame
  <1> HIDE DEF k
  <1> QED
    BY <1>1, <1>3, <1>4, <1>5

LEMMA OpenRowType == ASSUME NEW t \in Int PROVE OpenRow(t) \in Row
  <1>1. Cents(StartPrice) \in Nat
    BY CentsType
  <1> QED
    BY <1>1, SMT DEF OpenRow, Row

LEMMA RaisedFields ==
  ASSUME NEW lot \in Row, NEW a \in Nat, now \in Nat
  PROVE  /\ Raised(lot, a) \in Row
         /\ Raised(lot, a).price = Cents(a)
         /\ Raised(lot, a).version = lot.version + 1
         /\ Raised(lot, a).status = lot.status
         /\ Raised(lot, a).winner = lot.winner
         /\ Raised(lot, a).closing = IF NearWire(lot) THEN now + SnipingExtension ELSE lot.closing
  <1> DEFINE later == IF NearWire(lot) THEN now + SnipingExtension ELSE lot.closing
             r1 == [lot EXCEPT !.price = Cents(a)]
             r2 == [r1 EXCEPT !.version = @ + 1]
             r3 == [r2 EXCEPT !.closing = later]
  <1>1. Cents(a) \in Nat
    BY CentsType
  <1>2. later \in Int
    BY SMT DEF Row
  <1>3. r1 \in Row /\ r1.price = Cents(a) /\ r1.version = lot.version
        /\ r1.status = lot.status /\ r1.winner = lot.winner
    BY <1>1, SMT DEF Row
  <1> HIDE DEF r1, later
  <1>4. r2 \in Row /\ r2.price = r1.price /\ r2.version = r1.version + 1
        /\ r2.status = r1.status /\ r2.winner = r1.winner
    BY <1>3, SMT DEF Row
  <1> HIDE DEF r2
  <1>5. r3 \in Row /\ r3.price = r2.price /\ r3.version = r2.version
        /\ r3.status = r2.status /\ r3.winner = r2.winner /\ r3.closing = later
    BY <1>2, <1>4, SMT DEF Row
  <1>6. r1.closing = lot.closing /\ r2.closing = r1.closing
    BY SMT DEF r1, r2, Row
  <1> HIDE DEF r3
  <1>7. Raised(lot, a) = r3
    BY <1>6 DEF Raised, r3, r2, r1, later
  <1>8. Raised(lot, a).closing = later
    BY <1>5, <1>7
  <1> QED
    BY <1>3, <1>4, <1>5, <1>7, <1>8 DEF later

LEMMA ClosedFields ==
  ASSUME NEW lot \in Row
  PROVE  /\ Closed(lot) \in Row
         /\ Closed(lot).status = "closed"
         /\ Closed(lot).version = lot.version + 1
         /\ Closed(lot).price = lot.price
         /\ Closed(lot).closing = lot.closing
         /\ Closed(lot).winner = lot.winner
  <1> DEFINE r1 == [lot EXCEPT !.status = "closed"]
             r2 == [r1 EXCEPT !.version = @ + 1]
  <1>1. r1 \in Row /\ r1.status = "closed" /\ r1.version = lot.version
        /\ r1.price = lot.price /\ r1.closing = lot.closing /\ r1.winner = lot.winner
    BY SMT DEF Row
  <1> HIDE DEF r1
  <1>2. r2 \in Row /\ r2.status = r1.status /\ r2.version = r1.version + 1
        /\ r2.price = r1.price /\ r2.closing = r1.closing /\ r2.winner = r1.winner
    BY <1>1, SMT DEF Row
  <1> HIDE DEF r2
  <1>3. Closed(lot) = r2
    BY DEF Closed, r2, r1
  <1> QED
    BY <1>1, <1>2, <1>3

LEMMA TypeInit == Init => TypeInv
  <1> SUFFICES ASSUME Init PROVE TypeInv
    OBVIOUS
  <1>1. TypeOK
    BY FrameTypes, SMT DEF Init, TypeOK, NoTimer, Places, Finished
  <1>2. Located
    BY SMT DEF Init, Located, Finished
  <1> QED
    BY <1>1, <1>2 DEF TypeInv

\* One goroutine moves to place p with frame f.
LEMMA Move ==
  ASSUME TypeInv, NEW g \in Goroutines, NEW p \in Places, NEW f \in Frame,
         pc' = [pc EXCEPT ![g] = p],
         frame' = [frame EXCEPT ![g] = f],
         p \notin Finished => f.lot \in Lots /\ f.home \in Replicas
  PROVE  /\ pc' \in [Goroutines -> Places]
         /\ frame' \in [Goroutines -> Frame]
         /\ Located'
  <1>1. pc' \in [Goroutines -> Places] /\ frame' \in [Goroutines -> Frame]
    BY SMT DEF TypeInv, TypeOK
  <1>2. ASSUME NEW h \in Goroutines, pc'[h] \notin Finished
        PROVE  frame'[h].lot \in Lots /\ frame'[h].home \in Replicas
    <2>1. CASE h = g
      BY <1>2, <2>1, SMT DEF TypeInv, TypeOK
    <2>2. CASE h # g
      <3>1. pc'[h] = pc[h] /\ frame'[h] = frame[h]
        BY <2>2, SMT DEF TypeInv, TypeOK
      <3> QED
        BY <1>2, <3>1, Zenon DEF TypeInv, Located, Lot
    <2> QED
      BY <2>1, <2>2
  <1> QED
    BY <1>1, <1>2, Zenon DEF Located, Lot

\* A goroutine moves and keeps its frame, or ends.
LEMMA MoveOn ==
  ASSUME TypeInv, NEW g \in Goroutines, NEW p \in Places,
         \/ pc[g] \notin Finished /\ Goto(g, p)
         \/ p \in Finished /\ Return(g, p)
  PROVE  /\ pc' \in [Goroutines -> Places]
         /\ frame' \in [Goroutines -> Frame]
         /\ Located'
  <1>1. CASE pc[g] \notin Finished /\ Goto(g, p)
    <2>1. frame' = [frame EXCEPT ![g] = frame[g]] /\ frame[g] \in Frame
      BY <1>1, SMT DEF Goto, TypeInv, TypeOK
    <2>2. frame[g].lot \in Lots /\ frame[g].home \in Replicas
      BY <1>1 DEF TypeInv, Located, Lot
    <2> QED
      BY <1>1, <2>1, <2>2, Move DEF Goto
  <1>2. CASE p \in Finished /\ Return(g, p)
    BY <1>2, Move, FrameTypes DEF Return
  <1> QED
    BY <1>1, <1>2

LEMMA TypeCreateLot ==
  ASSUME TypeInv, NEW l \in Lots, NEW r \in Replicas, NEW t \in ClosingTimes, NEW z \in Offsets,
         CreateLot(l, r, t, z)
  PROVE  TypeInv'
  <1>1. OpenRow(t) \in Row /\ OpenRow(t + z) \in Row
    BY OpenRowType, SMT
  <1> DEFINE s == Serving(r, l)
             f == [s EXCEPT !.snap = OpenRow(t)]
  <1>2. s \in Frame /\ s.lot = l /\ s.home = r
    BY FrameTypes, ServingFields
  <1> HIDE DEF s
  <1>3. f \in Frame /\ f.lot = s.lot /\ f.home = s.home
    BY <1>1, <1>2, SMT DEF Frame
  <1>4. pc' = [pc EXCEPT ![l] = "arm"] /\ frame' = [frame EXCEPT ![l] = f]
    BY DEF CreateLot, s
  <1> HIDE DEF f
  <1>5. pc' \in [Goroutines -> Places] /\ frame' \in [Goroutines -> Frame] /\ Located'
    BY <1>2, <1>3, <1>4, Move DEF Goroutines, Places
  <1>6. row' \in [Lots -> Row]
    BY <1>1, SMT DEF CreateLot, Opened, TypeInv, TypeOK
  <1> QED
    BY <1>5, <1>6 DEF CreateLot, Opened, TypeInv, TypeOK, world

LEMMA TypeCreateReplyLost ==
  ASSUME TypeInv, NEW l \in Lots, NEW r \in Replicas, NEW t \in ClosingTimes, NEW z \in Offsets,
         CreateReplyLost(l, r, t, z)
  PROVE  TypeInv'
  <1>1. OpenRow(t + z) \in Row
    <2>1. t \in Nat /\ z \in Int
      OBVIOUS
    <2>2. t + z \in Int
      BY <2>1, SMT
    <2> QED
      BY <2>2, OpenRowType
  <1>2. row' \in [Lots -> Row]
    BY <1>1, SMT DEF CreateReplyLost, Opened, TypeInv, TypeOK
  <1>3. faults' \in Nat
    BY SMT DEF CreateReplyLost, Fault, TypeInv, TypeOK
  <1>4. frame' = [frame EXCEPT ![l] = frame[l]] /\ frame[l] \in Frame /\ l \in Goroutines
    BY SMT DEF CreateReplyLost, Goto, Goroutines, TypeInv, TypeOK
  <1>5. pc' \in [Goroutines -> Places] /\ frame' \in [Goroutines -> Frame] /\ Located'
    BY <1>4, Move DEF CreateReplyLost, Goto, Places, Finished
  <1> QED
    BY <1>2, <1>3, <1>5 DEF CreateReplyLost, Opened, TypeInv, TypeOK

LEMMA TypePlaceBid ==
  ASSUME TypeInv, NEW q \in Bidders, NEW l \in Lots, NEW r \in Replicas, NEW a \in Amounts,
         PlaceBid(q, l, r, a)
  PROVE  TypeInv'
  <1>1. Request(r, l, a) \in Frame /\ Request(r, l, a).lot = l /\ Request(r, l, a).home = r
    BY RequestFields DEF TypeInv, TypeOK
  <1>2. pc' \in [Goroutines -> Places] /\ frame' \in [Goroutines -> Frame] /\ Located'
    BY <1>1, Move DEF PlaceBid, Goroutines, Places
  <1> QED
    BY <1>2 DEF PlaceBid, TypeInv, TypeOK, world, db

LEMMA TypeAdmitBid ==
  ASSUME TypeInv, NEW q \in Bidders, AdmitBid(q)
  PROVE  TypeInv'
  <1> DEFINE f == [frame[q] EXCEPT !.snap = row[Lot(q)]]
  <1>1. Lot(q) \in Lots /\ frame[q].home \in Replicas
    BY DEF AdmitBid, CanSelect, TypeInv, Located, Finished, Goroutines
  <1>2. frame[q] \in Frame /\ row[Lot(q)] \in Row
    BY <1>1 DEF TypeInv, TypeOK, Goroutines
  <1>3. f \in Frame /\ f.lot = frame[q].lot /\ f.home = frame[q].home
    BY <1>2, SMT DEF Frame
  <1>4. pc' = [pc EXCEPT ![q] = "insert"] /\ frame' = [frame EXCEPT ![q] = f]
    BY DEF AdmitBid
  <1> HIDE DEF f
  <1>5. pc' \in [Goroutines -> Places] /\ frame' \in [Goroutines -> Frame] /\ Located'
    BY <1>1, <1>3, <1>4, Move DEF Goroutines, Places, Lot
  <1>6. lock' \in [Lots -> Bidders \cup {Nobody}]
    BY <1>1, SMT DEF AdmitBid, TypeInv, TypeOK
  <1> QED
    BY <1>5, <1>6 DEF AdmitBid, TypeInv, TypeOK, world

LEMMA UpdateType ==
  ASSUME NEW S, NEW T, NEW f \in [S -> T], NEW x, NEW y \in T
  PROVE  [f EXCEPT ![x] = y] \in [S -> T]
  OBVIOUS

\* The row a bid writes into the history.
LEMMA MineType ==
  ASSUME TypeInv, NEW q \in Bidders
  PROVE  Mine(q) \in [by : Bidders, amount : Nat, try : Nat]
  <1>1. frame[q].amount \in Nat /\ frame[q].attempts \in Nat
    BY SMT DEF Goroutines, TypeInv, TypeOK, Frame
  <1>2. Cents(frame[q].amount) \in Nat
    BY <1>1, CentsType
  <1> QED
    BY <1>1, <1>2 DEF Mine

LEMMA TypeCreateBid ==
  ASSUME TypeInv, NEW q \in Bidders, CreateBid(q)
  PROVE  TypeInv'
  <1> DEFINE B == [by : Bidders, amount : Nat, try : Nat]
             n == inserted[q] \cup {Mine(q)}
  <1>1. pc' \in [Goroutines -> Places] /\ frame' \in [Goroutines -> Frame] /\ Located'
    BY MoveOn DEF CreateBid, Goroutines, Places, Finished
  <1>2. inserted \in [Bidders -> SUBSET B]
    BY DEF TypeInv, TypeOK
  <1>3. Mine(q) \in B
    BY MineType
  <1> HIDE DEF B
  <1>4. n \in SUBSET B
    BY <1>2, <1>3
  <1>5. inserted' = [inserted EXCEPT ![q] = n]
    BY DEF CreateBid
  <1> HIDE DEF n
  <1>6. inserted' \in [Bidders -> SUBSET B]
    BY <1>2, <1>4, <1>5, UpdateType
  <1> QED
    BY <1>1, <1>6 DEF CreateBid, TypeInv, TypeOK, world, B

\* A rollback forgets rows and locks, and leaves the tables alone.
LEMMA RolledBackType ==
  ASSUME TypeInv, NEW q \in Bidders, RolledBack(q)
  PROVE  /\ lock' \in [Lots -> Bidders \cup {Nobody}] /\ row' = row /\ bids' = bids
         /\ inserted' \in [Bidders -> SUBSET [by : Bidders, amount : Nat, try : Nat]]
  <1> DEFINE B == [by : Bidders, amount : Nat, try : Nat]
  <1>1. lock' \in [Lots -> Bidders \cup {Nobody}] /\ row' = row /\ bids' = bids
    BY SMT DEF RolledBack, Unlocked, TypeInv, TypeOK
  <1>2. inserted \in [Bidders -> SUBSET B] /\ inserted' = [inserted EXCEPT ![q] = {}]
    BY DEF RolledBack, TypeInv, TypeOK
  <1> HIDE DEF B
  <1>3. inserted' \in [Bidders -> SUBSET B]
    BY <1>2
  <1> QED
    BY <1>1, <1>3 DEF B

LEMMA UnlockedType ==
  ASSUME TypeInv, NEW q \in Bidders
  PROVE  Unlocked(q) \in [Lots -> Bidders \cup {Nobody}]
  BY SMT DEF Unlocked, TypeInv, TypeOK

LEMMA TypeUpdateBid ==
  ASSUME TypeInv, NEW q \in Bidders, UpdateBid(q)
  PROVE  TypeInv'
  <1> DEFINE x == Raised(Snap(q), frame[q].amount)
             y == NearWire(Snap(q))
             f == [frame[q] EXCEPT !.snap = x, !.extended = y]
  <1>1. Lot(q) \in Lots /\ frame[q].home \in Replicas
    BY DEF UpdateBid, TypeInv, Located, Finished, Goroutines
  <1>2. frame[q] \in Frame /\ now \in Nat
    BY DEF TypeInv, TypeOK, Goroutines
  <1>3. x \in Row
    <2>1. Snap(q) \in Row /\ frame[q].amount \in Nat
      BY <1>2, SMT DEF Frame, Snap
    <2> QED
      BY <1>2, <2>1, RaisedFields
  <1>4. y \in BOOLEAN
    BY DEF NearWire
  <1>5. pc' = [pc EXCEPT ![q] = "commit"] /\ frame' = [frame EXCEPT ![q] = f]
    BY DEF UpdateBid
  <1> HIDE DEF x, y
  <1>6. f \in Frame /\ f.lot = frame[q].lot /\ f.home = frame[q].home
    <2> DEFINE e == [frame[q] EXCEPT !.snap = x]
    <2>1. e \in Frame /\ e.lot = frame[q].lot /\ e.home = frame[q].home
      BY <1>2, <1>3, SMT DEF Frame
    <2> HIDE DEF e
    <2>2. [e EXCEPT !.extended = y] \in Frame /\ [e EXCEPT !.extended = y].lot = e.lot
          /\ [e EXCEPT !.extended = y].home = e.home
      BY <1>4, <2>1, SMT DEF Frame
    <2> QED
      BY <2>1, <2>2 DEF e
  <1> HIDE DEF f
  <1>7. pc' \in [Goroutines -> Places] /\ frame' \in [Goroutines -> Frame] /\ Located'
    BY <1>1, <1>5, <1>6, Move DEF Goroutines, Places, Lot
  <1>8. lock' \in [Lots -> Bidders \cup {Nobody}]
    BY <1>1, SMT DEF UpdateBid, TypeInv, TypeOK
  <1> QED
    BY <1>7, <1>8 DEF UpdateBid, TypeInv, TypeOK, world

LEMMA TypeRetryBid ==
  ASSUME TypeInv, NEW q \in Bidders, RetryBid(q)
  PROVE  TypeInv'
  <1> DEFINE f == [frame[q] EXCEPT !.snap = NoRow, !.attempts = @ + 1]
  <1>1. Lot(q) \in Lots /\ frame[q].home \in Replicas /\ pc[q] \notin Finished
    BY DEF RetryBid, TypeInv, Located, Finished, Goroutines
  <1>2. frame[q] \in Frame
    BY DEF TypeInv, TypeOK, Goroutines
  <1>3. pc' \in [Goroutines -> Places] /\ frame' \in [Goroutines -> Frame] /\ Located'
    <2>1. CASE TriesAgain(q)
      <3> DEFINE e == [frame[q] EXCEPT !.snap = NoRow]
      <3>1. e \in Frame /\ e.lot = frame[q].lot /\ e.home = frame[q].home
            /\ e.attempts = frame[q].attempts
        BY <1>2, FrameTypes, SMT DEF Frame
      <3>2. e.attempts + 1 \in 0 .. (MaxAttempts - 1)
        BY <1>2, <2>1, <3>1, SMT DEF TriesAgain, Frame
      <3> HIDE DEF e
      <3>3. [e EXCEPT !.attempts = @ + 1] \in Frame /\ [e EXCEPT !.attempts = @ + 1].lot = e.lot
            /\ [e EXCEPT !.attempts = @ + 1].home = e.home
        BY <3>1, <3>2, SMT DEF Frame
      <3>4. f \in Frame /\ f.lot = frame[q].lot /\ f.home = frame[q].home
        BY <3>1, <3>3 DEF e
      <3>5. pc' = [pc EXCEPT ![q] = "begin"] /\ frame' = [frame EXCEPT ![q] = f]
        BY <2>1 DEF RetryBid
      <3> HIDE DEF f
      <3> QED
        BY <1>1, <3>4, <3>5, Move DEF Goroutines, Places, Lot
    <2>2. CASE ~TriesAgain(q)
      BY <2>2, MoveOn DEF RetryBid, Goroutines, Places, Finished
    <2> QED
      BY <2>1, <2>2
  <1> QED
    BY <1>3, RolledBackType DEF RetryBid, TypeInv, TypeOK, world

\* Actions of a bidder that keep its frame or end it.
LEMMA TypeBidderMoves ==
  ASSUME TypeInv, NEW q \in Bidders,
         \/ RefuseBid(q) \/ CommitBid(q) \/ CommitReplyLost(q) \/ CancelBid(q)
         \/ BroadcastNewBid(q) \/ BroadcastExtended(q)
  PROVE  TypeInv'
  <1>1. q \in Goroutines /\ frame[q] \in Frame /\ pc[q] \in Places
    BY DEF Goroutines, TypeInv, TypeOK
  <1>2. CASE RefuseBid(q)
    BY <1>1, <1>2, MoveOn DEF RefuseBid, world, db, TypeInv, TypeOK, Places, Finished
  <1>3. ASSUME Committed(q)
        PROVE  /\ row' \in [Lots -> Row]
               /\ bids' \in [Lots -> SUBSET [by : Bidders, amount : Nat, try : Nat]]
               /\ inserted' \in [Bidders -> SUBSET [by : Bidders, amount : Nat, try : Nat]]
               /\ lock' \in [Lots -> Bidders \cup {Nobody}]
               /\ pc[q] \notin Finished
    <2> DEFINE B == [by : Bidders, amount : Nat, try : Nat]
    <2>1. Lot(q) \in Lots /\ pc[q] \notin Finished
      BY <1>1, <1>3 DEF Committed, TypeInv, Located, Finished
    <2>2. Snap(q) \in Row /\ frame[q].amount \in Nat
      BY <1>1, SMT DEF Frame, Snap
    <2>4. row' \in [Lots -> Row]
      BY <1>3, <2>2, UpdateType DEF Committed, TypeInv, TypeOK
    <2>5. bids \in [Lots -> SUBSET B] /\ inserted \in [Bidders -> SUBSET B]
      BY DEF TypeInv, TypeOK
    <2>6. /\ bids' = [bids EXCEPT ![Lot(q)] = bids[Lot(q)] \cup inserted[q]]
          /\ inserted' = [inserted EXCEPT ![q] = {}]
      BY <1>3 DEF Committed
    <2> HIDE DEF B
    <2>7. bids[Lot(q)] \cup inserted[q] \in SUBSET B
      BY <2>1, <2>5, Zenon
    <2>8. bids' \in [Lots -> SUBSET B]
      BY <2>5, <2>6, <2>7, UpdateType
    <2>9. inserted' \in [Bidders -> SUBSET B]
      BY <2>5, <2>6
    <2> QED
      BY <1>3, <2>1, <2>4, <2>8, <2>9, UnlockedType DEF Committed, B
  <1>4. CASE CommitBid(q)
    BY <1>1, <1>3, <1>4, MoveOn DEF CommitBid, world, TypeInv, TypeOK, Places
  <1>5. CASE CommitReplyLost(q)
    <2>1. faults' \in Nat
      BY <1>5, SMT DEF CommitReplyLost, Fault, TypeInv, TypeOK
    <2> QED
      BY <1>1, <1>3, <1>5, <2>1, MoveOn DEF CommitReplyLost, TypeInv, TypeOK, Places, Finished
  <1>6. CASE CancelBid(q)
    BY <1>1, <1>6, MoveOn, RolledBackType DEF CancelBid, world, TypeInv, TypeOK, Places, Finished
  <1>7. CASE BroadcastNewBid(q)
    BY <1>1, <1>7, MoveOn DEF BroadcastNewBid, world, db, TypeInv, TypeOK, Places, Finished
  <1>8. CASE BroadcastExtended(q)
    BY <1>1, <1>8, MoveOn DEF BroadcastExtended, world, db, TypeInv, TypeOK, Places, Finished
  <1> QED
    BY <1>2, <1>4, <1>5, <1>6, <1>7, <1>8

\* Actions of a closer that keep its frame or end it.
LEMMA TypeCloserMoves ==
  ASSUME TypeInv, NEW c \in Closers,
         \/ CloseRow(c) \/ CloseReplyLost(c) \/ CloseLost(c) \/ ClearTimer(c)
         \/ BroadcastClosed(c) \/ CloserFails(c)
  PROVE  TypeInv'
  <1>1. c \in Goroutines /\ frame[c] \in Frame
    BY DEF Goroutines, TypeInv, TypeOK
  <1>2a. ASSUME Shut(c) PROVE row' \in [Lots -> Row] /\ pc[c] \notin Finished
    <2>1. Snap(c) \in Row
      BY <1>1, SMT DEF Frame, Snap
    <2>2. Closed(Snap(c)) \in Row
      BY <2>1, ClosedFields
    <2> QED
      BY <1>2a, <2>2, UpdateType DEF Shut, TypeInv, TypeOK, Finished
  <1>2. CASE CloseRow(c)
    BY <1>1, <1>2, <1>2a, MoveOn DEF CloseRow, Shut, world, TypeInv, TypeOK, Places
  <1>2b. CASE CloseReplyLost(c)
    <2>1. faults' \in Nat
      BY <1>2b, SMT DEF CloseReplyLost, Fault, TypeInv, TypeOK
    <2> QED
      BY <1>1, <1>2a, <1>2b, <2>1, MoveOn
         DEF CloseReplyLost, Shut, TypeInv, TypeOK, Places, Finished
  <1>3. CASE CloseLost(c)
    BY <1>1, <1>3, MoveOn DEF CloseLost, world, db, TypeInv, TypeOK, Places, Finished
  <1>4. CASE ClearTimer(c)
    <2>1. Lot(c) \in Lots /\ frame[c].home \in Replicas
      BY <1>1, <1>4 DEF ClearTimer, TypeInv, Located, Finished
    <2>2. timers' \in [Replicas -> [Lots -> Nat \cup {NoTimer}]]
      BY <1>4, <2>1, SMT DEF ClearTimer, TypeInv, TypeOK
    <2> QED
      BY <1>1, <1>4, <2>2, MoveOn DEF ClearTimer, world, db, TypeInv, TypeOK, Places, Finished
  <1>5. CASE BroadcastClosed(c)
    BY <1>1, <1>5, MoveOn DEF BroadcastClosed, world, db, TypeInv, TypeOK, Places, Finished
  <1>6. CASE CloserFails(c)
    <2>1. faults' \in Nat
      BY <1>6, SMT DEF CloserFails, Fault, TypeInv, TypeOK
    <2> QED
      BY <1>1, <1>6, <2>1, MoveOn DEF CloserFails, db, TypeInv, TypeOK, Places, Finished
  <1> QED
    BY <1>2, <1>2b, <1>3, <1>4, <1>5, <1>6

LEMMA TypeReadForClose ==
  ASSUME TypeInv, NEW c \in Closers, ReadForClose(c)
  PROVE  TypeInv'
  <1>1. c \in Goroutines /\ frame[c] \in Frame /\ Lot(c) \in Lots /\ frame[c].home \in Replicas
    BY DEF ReadForClose, Goroutines, TypeInv, TypeOK, Located, Finished
  <1> DEFINE f == [frame[c] EXCEPT !.snap = row[Lot(c)]]
  <1>2. f \in Frame /\ f.lot = frame[c].lot /\ f.home = frame[c].home
    <2>1. row[Lot(c)] \in Row
      BY <1>1 DEF TypeInv, TypeOK
    <2> QED
      BY <1>1, <2>1, SMT DEF Frame
  <1>3. CASE row[Lot(c)].status = "active"
    <2>1. pc' = [pc EXCEPT ![c] = "check"] /\ frame' = [frame EXCEPT ![c] = f]
      BY <1>3 DEF ReadForClose
    <2> HIDE DEF f
    <2> QED
      BY <1>1, <1>2, <2>1, Move DEF ReadForClose, world, db, TypeInv, TypeOK, Places, Lot
  <1>4. CASE row[Lot(c)].status # "active"
    BY <1>1, <1>4, MoveOn DEF ReadForClose, world, db, TypeInv, TypeOK, Places, Finished
  <1> QED
    BY <1>3, <1>4

LEMMA HighestBiddersType ==
  ASSUME TypeInv, NEW l \in Lots, NEW w \in HighestBidders(bids[l])
  PROVE  w \in Bidders \cup {Nobody}
  BY SMT DEF HighestBidders, Highest, TypeInv, TypeOK

LEMMA TypeCheckClosing ==
  ASSUME TypeInv, NEW c \in Closers, CheckClosing(c)
  PROVE  TypeInv'
  <1>1. c \in Goroutines /\ frame[c] \in Frame /\ Lot(c) \in Lots /\ frame[c].home \in Replicas
        /\ pc[c] \notin Finished
    BY DEF CheckClosing, Goroutines, TypeInv, TypeOK, Located, Finished
  <1>2. CASE now < Snap(c).closing
    BY <1>1, <1>2, MoveOn DEF CheckClosing, world, db, TypeInv, TypeOK, Places
  <1>3. CASE ~(now < Snap(c).closing)
    <2>1. PICK w \in HighestBidders(bids[Lot(c)]) :
            /\ pc' = [pc EXCEPT ![c] = "close"]
            /\ frame' = [frame EXCEPT ![c].snap.winner = w]
      BY <1>3 DEF CheckClosing
    <2> DEFINE x == [frame[c].snap EXCEPT !.winner = w]
               f == [frame[c] EXCEPT !.snap = x]
    <2>2. x \in Row
      BY <1>1, HighestBiddersType, SMT DEF Frame, Row
    <2>3. frame' = [frame EXCEPT ![c] = f]
      BY <2>1
    <2> HIDE DEF x
    <2>4. f \in Frame /\ f.lot = frame[c].lot /\ f.home = frame[c].home
      BY <1>1, <2>2, SMT DEF Frame
    <2> HIDE DEF f
    <2> QED
      BY <1>1, <2>1, <2>3, <2>4, Move DEF CheckClosing, world, db, TypeInv, TypeOK, Places, Lot
  <1> QED
    BY <1>2, <1>3

LEMMA KeptType ==
  ASSUME TypeInv, NEW g \in Goroutines
  PROVE  /\ Kept(g) \in Frame
         /\ g \in Bidders => Kept(g).lot = frame[g].lot /\ Kept(g).home = frame[g].home
         /\ Scheduled(g) \in Places
         /\ Scheduled(g) \notin Finished => g \in Bidders
  <1>1. frame[g] \in Frame
    BY DEF TypeInv, TypeOK
  <1>2. [frame[g] EXCEPT !.armed = NoTimer] \in Frame
        /\ [frame[g] EXCEPT !.armed = NoTimer].lot = frame[g].lot
        /\ [frame[g] EXCEPT !.armed = NoTimer].home = frame[g].home
    BY <1>1, SMT DEF Frame
  <1> QED
    BY <1>2, FrameTypes DEF Kept, Scheduled, Goroutines, Places, Finished

\* Two goroutines move: g to place p with frame f, and c starts closeLotByID.
LEMMA MoveAndSpawn ==
  ASSUME TypeInv, NEW g \in Goroutines, NEW c \in Closers, NEW p \in Places, NEW f \in Frame,
         NEW r \in Replicas, NEW l \in Lots,
         pc' = [pc EXCEPT ![g] = p, ![c] = "read"],
         frame' = [frame EXCEPT ![g] = f, ![c] = Serving(r, l)],
         p \notin Finished => f.lot \in Lots /\ f.home \in Replicas
  PROVE  /\ pc' \in [Goroutines -> Places]
         /\ frame' \in [Goroutines -> Frame]
         /\ Located'
  <1> DEFINE s == Serving(r, l)
  <1>1. c \in Goroutines /\ s \in Frame /\ s.lot = l /\ s.home = r /\ "read" \in Places
    BY FrameTypes, ServingFields DEF Goroutines, Places
  <1> HIDE DEF s
  <1>2. pc' \in [Goroutines -> Places] /\ frame' \in [Goroutines -> Frame]
    BY <1>1, UpdateType, SMT DEF TypeInv, TypeOK, s
  <1>3. ASSUME NEW h \in Goroutines, pc'[h] \notin Finished
        PROVE  frame'[h].lot \in Lots /\ frame'[h].home \in Replicas
    <2>1. CASE h = c
      <3>1. frame'[h] = s
        BY <1>1, <2>1 DEF s, TypeInv, TypeOK
      <3> QED
        BY <1>1, <3>1
    <2>2. CASE h = g /\ h # c
      <3>1. frame'[h] = f /\ pc'[h] = p
        BY <2>2 DEF TypeInv, TypeOK
      <3> QED
        BY <1>3, <3>1
    <2>3. CASE h # g /\ h # c
      <3>1. pc'[h] = pc[h] /\ frame'[h] = frame[h]
        BY <2>3 DEF TypeInv, TypeOK
      <3> QED
        BY <1>3, <3>1, Zenon DEF TypeInv, Located, Lot
    <2> QED
      BY <2>1, <2>2, <2>3
  <1> QED
    BY <1>2, <1>3, Zenon DEF Located, Lot

LEMMA TypeSchedule ==
  ASSUME TypeInv, NEW g \in Goroutines, ScheduleStep(g)
  PROVE  TypeInv'
  <1>1. frame[g] \in Frame /\ Lot(g) \in Lots /\ frame[g].home \in Replicas /\ now \in Nat
    BY DEF ScheduleStep, ArmTimer, InstallTimer, CloseAtOnce, TypeInv, TypeOK, Located, Finished
  <1>2. CASE ArmTimer(g)
    <2> DEFINE f == [frame[g] EXCEPT !.armed = Snap(g).closing]
    <2>1. Snap(g).closing \in Nat
      <3>1. Snap(g).closing \in Int
        BY <1>1, SMT DEF Frame, Row, Snap
      <3> QED
        BY <1>1, <1>2, <3>1, SMT DEF ArmTimer, Due
    <2>2. f \in Frame /\ f.lot = frame[g].lot /\ f.home = frame[g].home
      BY <1>1, <2>1, SMT DEF Frame
    <2>3. pc' = [pc EXCEPT ![g] = "install"] /\ frame' = [frame EXCEPT ![g] = f]
      BY <1>2 DEF ArmTimer
    <2> HIDE DEF f
    <2> QED
      BY <1>1, <1>2, <2>2, <2>3, Move DEF ArmTimer, world, db, TypeInv, TypeOK, Places, Lot
  <1>3. CASE InstallTimer(g)
    <2>1. frame[g].armed \in Nat \cup {NoTimer}
      BY <1>1, SMT DEF Frame
    <2>2. timers' \in [Replicas -> [Lots -> Nat \cup {NoTimer}]]
      BY <1>1, <1>3, <2>1, SMT DEF InstallTimer, TypeInv, TypeOK
    <2>3. pc' = [pc EXCEPT ![g] = Scheduled(g)] /\ frame' = [frame EXCEPT ![g] = Kept(g)]
      BY <1>3 DEF InstallTimer
    <2> QED
      BY <1>1, <1>3, <2>2, <2>3, KeptType, Move DEF InstallTimer, world, db, TypeInv, TypeOK, Lot
  <1>4. CASE \E c \in Closers : CloseAtOnce(g, c)
    <2>1. PICK c \in Closers : CloseAtOnce(g, c)
      BY <1>4
    <2>2. /\ pc' = [pc EXCEPT ![g] = Scheduled(g), ![c] = "read"]
          /\ frame' = [frame EXCEPT ![g] = Kept(g), ![c] = Serving(frame[g].home, Lot(g))]
      BY <2>1 DEF CloseAtOnce
    <2> DEFINE f == Kept(g)
               p == Scheduled(g)
               r == frame[g].home
               l == Lot(g)
    <2>3. f \in Frame /\ p \in Places /\ (p \notin Finished => f.lot \in Lots /\ f.home \in Replicas)
      BY <1>1, KeptType DEF Lot
    <2>4. r \in Replicas /\ l \in Lots
      BY <1>1
    <2> HIDE DEF f, p, r, l
    <2>5. /\ pc' = [pc EXCEPT ![g] = p, ![c] = "read"]
          /\ frame' = [frame EXCEPT ![g] = f, ![c] = Serving(r, l)]
      BY <2>2 DEF f, p, r, l
    <2>6. pc' \in [Goroutines -> Places] /\ frame' \in [Goroutines -> Frame] /\ Located'
      BY <2>3, <2>4, <2>5, MoveAndSpawn, Zenon
    <2> QED
      BY <2>1, <2>6 DEF CloseAtOnce, world, db, TypeInv, TypeOK
  <1> QED
    BY <1>2, <1>3, <1>4 DEF ScheduleStep

LEMMA TypeFires ==
  ASSUME TypeInv, NEW c \in Closers,
         \/ \E r \in Replicas, l \in Lots : FireTimer(r, l, c)
         \/ \E g \in Goroutines : FireUninstalled(g, c)
  PROVE  TypeInv'
  <1>1. CASE \E r \in Replicas, l \in Lots : FireTimer(r, l, c)
    <2>1. PICK r \in Replicas, l \in Lots : FireTimer(r, l, c)
      BY <1>1
    <2>2. c \in Goroutines /\ Serving(r, l) \in Frame /\ Serving(r, l).lot = l
          /\ Serving(r, l).home = r
      BY FrameTypes, ServingFields DEF Goroutines
    <2>3. timers' \in [Replicas -> [Lots -> Nat \cup {NoTimer}]]
      BY <2>1, SMT DEF FireTimer, TypeInv, TypeOK
    <2> QED
      BY <2>1, <2>2, <2>3, Move DEF FireTimer, SpawnCloser, world, db, TypeInv, TypeOK, Places
  <1>2. CASE \E g \in Goroutines : FireUninstalled(g, c)
    <2>1. PICK g \in Goroutines : FireUninstalled(g, c)
      BY <1>2
    <2>2. frame[g] \in Frame /\ Lot(g) \in Lots /\ frame[g].home \in Replicas
          /\ pc \in [Goroutines -> Places]
      BY <2>1 DEF FireUninstalled, TypeInv, TypeOK, Located, Finished
    <2> DEFINE f == [frame[g] EXCEPT !.armed = NoTimer]
    <2>3. f \in Frame /\ f.lot = frame[g].lot /\ f.home = frame[g].home
      BY <2>2, SMT DEF Frame
    <2>4. pc[g] = "install" /\ pc' = [pc EXCEPT ![c] = "read"]
          /\ frame' = [frame EXCEPT ![g] = f, ![c] = Serving(frame[g].home, Lot(g))]
      BY <2>1 DEF FireUninstalled
    <2>5. [pc EXCEPT ![g] = "install"] = pc
      BY <2>2, <2>4
    <2> DEFINE r == frame[g].home
               l == Lot(g)
    <2>6. r \in Replicas /\ l \in Lots /\ f.lot \in Lots /\ f.home \in Replicas
          /\ "install" \in Places
      BY <2>2, <2>3 DEF Lot, Places
    <2> HIDE DEF f, r, l
    <2>7. /\ pc' = [pc EXCEPT ![g] = "install", ![c] = "read"]
          /\ frame' = [frame EXCEPT ![g] = f, ![c] = Serving(r, l)]
      BY <2>4, <2>5 DEF f, r, l
    <2>8. pc' \in [Goroutines -> Places] /\ frame' \in [Goroutines -> Frame] /\ Located'
      BY <2>3, <2>6, <2>7, MoveAndSpawn, Zenon
    <2> QED
      BY <2>1, <2>8 DEF FireUninstalled, world, db, TypeInv, TypeOK
  <1> QED
    BY <1>1, <1>2

LEMMA TypeReplicas ==
  ASSUME TypeInv, NEW r \in Replicas, Stop(r) \/ Restart(r) \/ RestartBlind(r)
  PROVE  TypeInv'
  <1>1. CASE Stop(r)
    <2>1. up' \in [Replicas -> BOOLEAN] /\ faults' \in Nat
      BY <1>1, SMT DEF Stop, Fault, TypeInv, TypeOK
    <2>2. pc' \in [Goroutines -> Places]
      BY <1>1, SMT DEF Stop, TypeInv, TypeOK, Places, Finished
    <2>3. frame' \in [Goroutines -> Frame]
      BY <1>1, FrameTypes, Zenon DEF Stop, TypeInv, TypeOK
    <2>4. lock' \in [Lots -> Bidders \cup {Nobody}]
      BY <1>1, SMT DEF Stop, TypeInv, TypeOK
    <2>4a. inserted' \in [Bidders -> SUBSET [by : Bidders, amount : Nat, try : Nat]]
      <3> DEFINE B == [by : Bidders, amount : Nat, try : Nat]
      <3>1. inserted \in [Bidders -> SUBSET B]
        BY DEF TypeInv, TypeOK
      <3> HIDE DEF B
      <3>2. inserted' \in [Bidders -> SUBSET B]
        BY <1>1, <3>1 DEF Stop
      <3> QED
        BY <3>2 DEF B
    <2>5. timers' \in [Replicas -> [Lots -> Nat \cup {NoTimer}]]
      BY <1>1, SMT DEF Stop, TypeInv, TypeOK
    <2>6. ASSUME NEW h \in Goroutines, pc'[h] \notin Finished
          PROVE  frame'[h].lot \in Lots /\ frame'[h].home \in Replicas
      <3>1. h \notin Killed(r)
        BY <1>1, <2>6 DEF Stop, Finished
      <3>2. pc'[h] = pc[h] /\ frame'[h] = frame[h]
        BY <1>1, <3>1 DEF Stop
      <3> QED
        BY <2>6, <3>2, Zenon DEF TypeInv, Located, Lot
    <2>7. Located'
      BY <2>6, Zenon DEF Located, Lot
    <2> QED
      BY <1>1, <2>1, <2>2, <2>3, <2>4, <2>4a, <2>5, <2>7 DEF Stop, TypeInv, TypeOK
  <1>2. CASE Restart(r)
    <2>1. up' \in [Replicas -> BOOLEAN]
      BY <1>2 DEF Restart, TypeInv, TypeOK
    <2>2. ASSUME NEW l \in Lots
          PROVE  (IF Restored(l) THEN row[l].closing ELSE NoTimer) \in Nat \cup {NoTimer}
      <3>1. row[l].closing \in Int /\ now \in Nat
        BY SMT DEF TypeInv, TypeOK, Row
      <3> QED
        BY <3>1, SMT DEF Restored
    <2> DEFINE T == [l \in Lots |-> IF Restored(l) THEN row[l].closing ELSE NoTimer]
    <2>3. T \in [Lots -> Nat \cup {NoTimer}]
      BY <2>2
    <2>4. timers' = [timers EXCEPT ![r] = T]
      BY <1>2 DEF Restart
    <2> HIDE DEF T
    <2>5. timers' \in [Replicas -> [Lots -> Nat \cup {NoTimer}]]
      BY <2>3, <2>4, UpdateType DEF TypeInv, TypeOK
    <2> QED
      BY <1>2, <2>1, <2>5 DEF Restart, db, threads, TypeInv, TypeOK, Located, Lot
  <1>3. CASE RestartBlind(r)
    <2>1. up' \in [Replicas -> BOOLEAN] /\ faults' \in Nat
      BY <1>3, SMT DEF RestartBlind, Fault, TypeInv, TypeOK
    <2> QED
      BY <1>3, <2>1 DEF RestartBlind, db, threads, TypeInv, TypeOK, Located, Lot
  <1> QED
    BY <1>1, <1>2, <1>3

LEMMA TypeTick == ASSUME TypeInv, Tick PROVE TypeInv'
  <1>1. now' \in Nat
    BY SMT DEF Tick, TypeInv, TypeOK
  <1> QED
    BY <1>1 DEF Tick, db, threads, TypeInv, TypeOK, Located, Lot

LEMMA TypeStep == TypeInv /\ [Next]_vars => TypeInv'
  <1> SUFFICES ASSUME TypeInv, [Next]_vars PROVE TypeInv'
    OBVIOUS
  <1>1. CASE Tick
    BY <1>1, TypeTick
  <1>2. ASSUME NEW l \in Lots, NEW r \in Replicas,
               \/ \E t \in ClosingTimes, z \in Offsets :
                    CreateLot(l, r, t, z) \/ CreateReplyLost(l, r, t, z)
               \/ \E q \in Bidders, a \in Amounts : PlaceBid(q, l, r, a)
               \/ TimerFires(r, l)
        PROVE  TypeInv'
    BY <1>2, TypeCreateLot, TypeCreateReplyLost, TypePlaceBid, TypeFires DEF TimerFires
  <1>3. ASSUME NEW q \in Bidders, BidderStep(q) \/ CancelBid(q) \/ CommitReplyLost(q)
        PROVE  TypeInv'
    BY <1>3, TypeAdmitBid, TypeCreateBid, TypeUpdateBid, TypeRetryBid, TypeBidderMoves DEF BidderStep
  <1>4. ASSUME NEW c \in Closers, CloserStep(c) \/ CloseReplyLost(c) \/ CloserFails(c)
        PROVE  TypeInv'
    BY <1>4, TypeReadForClose, TypeCheckClosing, TypeCloserMoves DEF CloserStep
  <1>5. ASSUME NEW g \in Goroutines,
               ScheduleStep(g) \/ \E c \in Closers : FireUninstalled(g, c)
        PROVE  TypeInv'
    BY <1>5, TypeSchedule, TypeFires
  <1>6. ASSUME NEW r \in Replicas, Stop(r) \/ Restart(r) \/ RestartBlind(r)
        PROVE  TypeInv'
    BY <1>6, TypeReplicas
  <1>7. CASE UNCHANGED vars
    BY <1>7 DEF vars, TypeInv, TypeOK, Located, Lot
  <1> QED
    BY <1>1, <1>2, <1>3, <1>4, <1>5, <1>6, <1>7 DEF Next

\* Every variable keeps its type; in particular the loop of PlaceBid never
\* starts more than MaxAttempts transactions.
THEOREM TypeCorrect == Spec => []TypeOK
  <1>1. TypeInv => TypeOK
    BY DEF TypeInv
  <1> QED
    BY <1>1, TypeInit, TypeStep, PTL DEF Spec
-----------------------------------------------------------------------------
(* The inductive invariant.  What is promised speaks of the committed rows *)
(* only; that it survives the next commit depends on what each goroutine   *)
(* remembers of the row, and on who holds its lock.                        *)

\* w placed a highest bid of S.
Best(w, S) ==
  IF S = {} THEN w = Nobody
  ELSE \E b \in S : b.by = w /\ \A d \in S : d.amount <= b.amount

\* A lot whose creation has not started has no row, and without a row no bids.
OpenInv ==
  \A l \in Lots :
    /\ pc[l] = "idle" => row[l].status = "absent"
    /\ row[l].status = "absent" => bids[l] = {}

\* The row lock belongs to a transaction under way on that lot; whoever is
\* about to commit has it, and under FOR UPDATE whoever has read.
LockInv ==
  /\ \A l \in Lots : lock[l] # Nobody => pc[lock[l]] \in {"insert", "update", "commit"} /\ Lot(lock[l]) = l
  /\ \A q \in Bidders :
       pc[q] = "commit" \/ (forUpdate /\ pc[q] \in {"insert", "update"}) => lock[Lot(q)] = q

\* A bid that passed the checks against a row of the current version still
\* passes them.
AdmittedOK(q) ==
  pc[q] \in {"insert", "update"} =>
    /\ row[Lot(q)].status # "absent" /\ Snap(q).status = "active"
    /\ Snap(q).version <= row[Lot(q)].version
    /\ VersionMatches(q) => Snap(q) = row[Lot(q)]
    /\ forUpdate => VersionMatches(q)
    /\ frame[q].amount > Cent * Snap(q).price
    /\ frame[q].amount >= Cent * (Snap(q).price + Step)

\* A bid that is written raises the row it replaces, and closes it no earlier
\* when an extension is at least the window.
WrittenOK(q) ==
  pc[q] = "commit" =>
    /\ row[Lot(q)].status = "active" /\ Snap(q).status = "active"
    /\ Snap(q).version = row[Lot(q)].version + 1
    /\ Snap(q).winner = row[Lot(q)].winner
    /\ Snap(q).price = Cents(frame[q].amount)
    /\ Snap(q).price >= row[Lot(q)].price /\ Snap(q).price >= row[Lot(q)].price + Step
    /\ SnipingWindow <= SnipingExtension => Snap(q).closing >= row[Lot(q)].closing

BidderInv ==
  \A q \in Bidders :
    /\ pc[q] \in {"begin", "insert", "update", "commit"} => frame[q].amount \in Amounts
    /\ AdmittedOK(q) /\ WrittenOK(q)

\* A closer whose copy has the current version holds the current row.
CopyOK(c) ==
  pc[c] \in {"check", "close"} =>
    /\ row[Lot(c)].status # "absent" /\ Snap(c).status = "active"
    /\ Snap(c).version <= row[Lot(c)].version
    /\ VersionMatches(c) =>
         /\ row[Lot(c)].status = "active"
         /\ Snap(c).price = row[Lot(c)].price /\ Snap(c).closing = row[Lot(c)].closing

\* The winner it chose from an earlier read of the bids is still right then.
ChosenOK(c) ==
  pc[c] = "close" =>
    /\ Snap(c).closing <= now
    /\ VersionMatches(c) => Best(Snap(c).winner, bids[Lot(c)])

CloserInv == \A c \in Closers : CopyOK(c) /\ ChosenOK(c)

WinnerInv ==
  /\ \A l \in Lots : row[l].status # "closed" => row[l].winner = Nobody
  /\ WinnerIsHighestBidder

TableInv ==
  /\ OpenInv /\ LockInv /\ BidderInv /\ CloserInv
  /\ NoRetryUnderRowLock /\ PriceIsHighestBid /\ WinnerInv

LEMMA TableInit == Init => TableInv
  <1> SUFFICES ASSUME Init PROVE TableInv
    OBVIOUS
  <1>1. /\ \A l \in Lots : row[l] = NoRow /\ bids[l] = {} /\ lock[l] = Nobody
        /\ \A g \in Goroutines : pc[g] = "idle" /\ frame[g].attempts = 0
        /\ Lots \cup Bidders \cup Closers = Goroutines
        /\ NoRow.status = "absent" /\ NoRow.winner = Nobody
    BY ServingFields DEF Init, Goroutines, NoFrame, NoRow
  <1>2. OpenInv /\ LockInv
    BY <1>1 DEF OpenInv, LockInv
  <1>3. BidderInv /\ CloserInv
    BY <1>1 DEF BidderInv, CloserInv, AdmittedOK, WrittenOK, CopyOK, ChosenOK
  <1>4. NoRetryUnderRowLock /\ PriceIsHighestBid /\ WinnerInv
    BY <1>1 DEF NoRetryUnderRowLock, PriceIsHighestBid, WinnerInv, WinnerIsHighestBidder
  <1> QED
    BY <1>2, <1>3, <1>4 DEF TableInv

\* A goroutine that does nothing, and one whose step takes it nowhere near
\* the table: it neither opens, reads, writes nor commits a row.
Stays(g) == pc'[g] = pc[g] /\ frame'[g] = frame[g]
Leaves(g) ==
  /\ pc'[g] \notin {"insert", "update", "commit", "check", "close"}
  /\ g \in Lots => pc'[g] # "idle"
  /\ forUpdate => frame'[g].attempts \in {0, frame[g].attempts}
  /\ pc'[g] = "begin" => frame'[g].amount \in Amounts

\* Steps that leave the tables alone, and free the locks of the transactions
\* they end, keep the invariant.
LEMMA Quiet ==
  ASSUME TypeInv, TableInv,
         row' = row, bids' = bids, forUpdate' = forUpdate, now' >= now, now' \in Nat,
         \A g \in Goroutines : Stays(g) \/ Leaves(g),
         \A l \in Lots : lock'[l] = IF lock[l] = Nobody \/ Stays(lock[l]) THEN lock[l] ELSE Nobody
  PROVE  TableInv'
  <1>1. ASSUME NEW l \in Lots, pc'[l] = "idle" PROVE pc[l] = "idle"
    BY <1>1 DEF Stays, Leaves, Goroutines
  <1>2. OpenInv'
    BY <1>1, Zenon DEF TableInv, OpenInv
  <1>3. ASSUME NEW l \in Lots, lock'[l] # Nobody
        PROVE  lock'[l] = lock[l] /\ Stays(lock[l]) /\ lock[l] # Nobody
    BY <1>3, Zenon
  <1>4. ASSUME NEW q \in Bidders, pc'[q] \in {"insert", "update", "commit"}
        PROVE  Stays(q)
    BY <1>4 DEF Leaves, Goroutines
  <1>5. LockInv'
    <2>1. ASSUME NEW l \in Lots, lock'[l] # Nobody
          PROVE  pc'[lock'[l]] \in {"insert", "update", "commit"} /\ frame'[lock'[l]].lot = l
      <3>1. pc[lock[l]] \in {"insert", "update", "commit"} /\ frame[lock[l]].lot = l
        BY <1>3, <2>1 DEF TableInv, LockInv, Lot
      <3> QED
        BY <1>3, <2>1, <3>1, Zenon DEF Stays
    <2>2. ASSUME NEW q \in Bidders, pc'[q] = "commit" \/ (forUpdate' /\ pc'[q] \in {"insert", "update"})
          PROVE  lock'[frame'[q].lot] = q
      <3>1. Stays(q) /\ frame'[q].lot = Lot(q) /\ pc[q] = pc'[q]
        BY <1>4, <2>2 DEF Stays, Lot
      <3>2. lock[Lot(q)] = q
        BY <2>2, <3>1 DEF TableInv, LockInv
      <3>3. Lot(q) \in Lots
        BY <2>2, <3>1 DEF TypeInv, Located, Finished, Goroutines
      <3> QED
        BY <3>1, <3>2, <3>3
    <2> QED
      BY <2>1, <2>2, Zenon DEF LockInv, Lot
  <1>6. BidderInv'
    <2> SUFFICES ASSUME NEW q \in Bidders
                 PROVE  /\ pc'[q] \in {"begin", "insert", "update", "commit"} => frame'[q].amount \in Amounts
                        /\ AdmittedOK(q)' /\ WrittenOK(q)'
      BY Zenon DEF BidderInv
    <2>1. CASE Stays(q)
      BY <2>1 DEF Stays, TableInv, BidderInv, AdmittedOK, WrittenOK, Lot, Snap, VersionMatches
    <2>2. CASE Leaves(q)
      BY <2>2 DEF Leaves, AdmittedOK, WrittenOK
    <2> QED
      BY <2>1, <2>2 DEF Goroutines
  <1>7. CloserInv'
    <2> SUFFICES ASSUME NEW c \in Closers PROVE CopyOK(c)' /\ ChosenOK(c)'
      BY Zenon DEF CloserInv
    <2>1. CASE Stays(c)
      <3>1. CopyOK(c)'
        BY <2>1 DEF Stays, TableInv, CloserInv, CopyOK, Lot, Snap, VersionMatches
      <3>2. Snap(c).closing \in Int /\ now \in Nat
        BY SMT DEF TypeInv, TypeOK, Snap, Frame, Row, Goroutines
      <3>3. ASSUME pc'[c] = "close"
            PROVE  /\ frame'[c].snap.closing <= now'
                   /\ VersionMatches(c)' => Best(Snap(c).winner, bids[Lot(c)])'
        <4>1. pc[c] = "close" /\ frame'[c] = frame[c]
          BY <2>1, <3>3 DEF Stays
        <4>2. Snap(c).closing <= now
          BY <4>1, Zenon DEF TableInv, CloserInv, ChosenOK
        <4>3. frame'[c].snap.closing <= now'
          BY <3>2, <4>1, <4>2, SMT DEF Snap
        <4>4. VersionMatches(c)' => Best(Snap(c).winner, bids[Lot(c)])'
          BY <4>1, Zenon DEF TableInv, CloserInv, ChosenOK, VersionMatches, Lot, Snap
        <4> QED
          BY <4>3, <4>4
      <3> QED
        BY <3>1, <3>3, Zenon DEF ChosenOK, Snap
    <2>2. CASE Leaves(c)
      BY <2>2 DEF Leaves, CopyOK, ChosenOK
    <2> QED
      BY <2>1, <2>2 DEF Goroutines
  <1>8. NoRetryUnderRowLock'
    BY DEF TableInv, NoRetryUnderRowLock, Stays, Leaves, Goroutines
  <1>9. PriceIsHighestBid' /\ WinnerInv'
    BY DEF TableInv, PriceIsHighestBid, WinnerInv, WinnerIsHighestBidder
  <1> QED
    BY <1>2, <1>5, <1>6, <1>7, <1>8, <1>9 DEF TableInv

\* The same when no lock changes hands: no goroutine that moves holds one.
LEMMA QuietUnlocked ==
  ASSUME TypeInv, TableInv,
         row' = row, bids' = bids, lock' = lock, forUpdate' = forUpdate,
         now' >= now, now' \in Nat,
         \A g \in Goroutines : Stays(g) \/ (Leaves(g) /\ pc[g] \notin {"insert", "update", "commit"})
  PROVE  TableInv'
  <1>1. ASSUME NEW l \in Lots
        PROVE  lock'[l] = IF lock[l] = Nobody \/ Stays(lock[l]) THEN lock[l] ELSE Nobody
    <2>1. CASE lock[l] = Nobody
      BY <2>1
    <2>2. CASE lock[l] # Nobody
      <3>1. lock[l] \in Goroutines /\ pc[lock[l]] \in {"insert", "update", "commit"}
        BY <2>2, Zenon DEF TableInv, LockInv, TypeInv, TypeOK, Goroutines
      <3> QED
        BY <3>1
    <2> QED
      BY <2>1, <2>2
  <1> QED
    BY <1>1, Quiet

\* One goroutine moves to place p with frame f.
LEMMA OneLeaves ==
  ASSUME TypeInv, NEW g \in Goroutines, NEW p \in Places, NEW f \in Frame,
         pc' = [pc EXCEPT ![g] = p], frame' = [frame EXCEPT ![g] = f],
         p \notin {"idle", "begin", "insert", "update", "commit", "check", "close"} \/
           (p = "idle" /\ g \notin Lots) \/ (p = "begin" /\ f.amount \in Amounts),
         forUpdate => f.attempts \in {0, frame[g].attempts}
  PROVE  \A h \in Goroutines : IF h = g THEN Leaves(h) ELSE Stays(h)
  <1>1. pc'[g] = p /\ frame'[g] = f
    BY DEF TypeInv, TypeOK
  <1>2. Leaves(g)
    BY <1>1, Zenon DEF Leaves
  <1>3. ASSUME NEW h \in Goroutines, h # g PROVE Stays(h)
    BY <1>3 DEF Stays, TypeInv, TypeOK
  <1> QED
    BY <1>2, <1>3

LEMMA OneReturns ==
  ASSUME TypeInv, NEW g \in Goroutines, NEW p \in Finished, p = "idle" => g \notin Lots,
         Return(g, p)
  PROVE  \A h \in Goroutines : IF h = g THEN Leaves(h) ELSE Stays(h)
  <1>1. NoFrame \in Frame /\ NoFrame.attempts = 0
    BY FrameTypes, ServingFields DEF NoFrame
  <1>2. p \in Places /\ (p \notin {"idle", "begin", "insert", "update", "commit", "check", "close"} \/ p = "idle")
    BY DEF Places, Finished
  <1> QED
    BY <1>1, <1>2, OneLeaves DEF Return

LEMMA OneGoes ==
  ASSUME TypeInv, NEW g \in Goroutines, NEW p \in Places \ Finished,
         p \notin {"begin", "insert", "update", "commit", "check", "close"},
         Goto(g, p)
  PROVE  \A h \in Goroutines : IF h = g THEN Leaves(h) ELSE Stays(h)
  <1>1. frame' = [frame EXCEPT ![g] = frame[g]] /\ frame[g] \in Frame
    BY SMT DEF Goto, TypeInv, TypeOK
  <1> QED
    BY <1>1, OneLeaves DEF Goto, Finished

LEMMA QuietBidder ==
  ASSUME TypeInv, TableInv, NEW q \in Bidders,
         \/ RefuseBid(q) \/ BroadcastNewBid(q) \/ BroadcastExtended(q)
         \/ \E l \in Lots, r \in Replicas, a \in Amounts : PlaceBid(q, l, r, a)
  PROVE  TableInv'
  <1>1. q \in Goroutines /\ now \in Nat /\ q \notin Lots
    BY DEF Goroutines, TypeInv, TypeOK
  <1>2. CASE RefuseBid(q)
    <2>1. \A h \in Goroutines : IF h = q THEN Leaves(h) ELSE Stays(h)
      BY <1>1, <1>2, OneReturns DEF RefuseBid, Finished
    <2> QED
      BY <1>1, <1>2, <2>1, QuietUnlocked DEF RefuseBid, CanSelect, world, db
  <1>3. CASE BroadcastNewBid(q)
    <2>1. \A h \in Goroutines : IF h = q THEN Leaves(h) ELSE Stays(h)
      BY <1>1, <1>3, OneReturns, OneGoes DEF BroadcastNewBid, Finished, Places
    <2> QED
      BY <1>1, <1>3, <2>1, QuietUnlocked DEF BroadcastNewBid, world, db
  <1>4. CASE BroadcastExtended(q)
    <2>1. \A h \in Goroutines : IF h = q THEN Leaves(h) ELSE Stays(h)
      BY <1>1, <1>4, OneReturns DEF BroadcastExtended, Finished
    <2> QED
      BY <1>1, <1>4, <2>1, QuietUnlocked DEF BroadcastExtended, world, db
  <1>5. ASSUME NEW l \in Lots, NEW r \in Replicas, NEW a \in Amounts, PlaceBid(q, l, r, a)
        PROVE  TableInv'
    <2>1. /\ Request(r, l, a) \in Frame /\ Request(r, l, a).amount \in Amounts
          /\ Request(r, l, a).attempts = 0
      BY <1>1, RequestFields
    <2>2. pc' = [pc EXCEPT ![q] = "begin"] /\ frame' = [frame EXCEPT ![q] = Request(r, l, a)]
          /\ "begin" \in Places
      BY <1>5 DEF PlaceBid, Places
    <2>3. \A h \in Goroutines : IF h = q THEN Leaves(h) ELSE Stays(h)
      BY <1>1, <2>1, <2>2, OneLeaves
    <2> QED
      BY <1>1, <1>5, <2>3, QuietUnlocked DEF PlaceBid, world, db
  <1> QED
    BY <1>2, <1>3, <1>4, <1>5

LEMMA QuietCloser ==
  ASSUME TypeInv, TableInv, NEW c \in Closers,
         CloseLost(c) \/ ClearTimer(c) \/ BroadcastClosed(c) \/ CloserFails(c)
  PROVE  TableInv'
  <1>1. c \in Goroutines /\ now \in Nat /\ c \notin Lots
    BY DEF Goroutines, TypeInv, TypeOK
  <1>2. CASE CloseLost(c)
    <2>1. \A h \in Goroutines : IF h = c THEN Leaves(h) ELSE Stays(h)
      BY <1>1, <1>2, OneReturns DEF CloseLost, Finished
    <2> QED
      BY <1>1, <1>2, <2>1, QuietUnlocked DEF CloseLost, world, db
  <1>3. CASE ClearTimer(c)
    <2>1. \A h \in Goroutines : IF h = c THEN Leaves(h) ELSE Stays(h)
      BY <1>1, <1>3, OneGoes DEF ClearTimer, Finished, Places
    <2> QED
      BY <1>1, <1>3, <2>1, QuietUnlocked DEF ClearTimer, world, db
  <1>4. CASE BroadcastClosed(c)
    <2>1. \A h \in Goroutines : IF h = c THEN Leaves(h) ELSE Stays(h)
      BY <1>1, <1>4, OneReturns DEF BroadcastClosed, Finished
    <2> QED
      BY <1>1, <1>4, <2>1, QuietUnlocked DEF BroadcastClosed, world, db
  <1>5. CASE CloserFails(c)
    <2>1. \A h \in Goroutines : IF h = c THEN Leaves(h) ELSE Stays(h)
      BY <1>1, <1>5, OneReturns DEF CloserFails, Finished
    <2> QED
      BY <1>1, <1>5, <2>1, QuietUnlocked DEF CloserFails, db
  <1> QED
    BY <1>2, <1>3, <1>4, <1>5

LEMMA QuietSchedule ==
  ASSUME TypeInv, TableInv, NEW g \in Goroutines, ScheduleStep(g)
  PROVE  TableInv'
  <1>1. /\ frame[g] \in Frame /\ now \in Nat /\ pc[g] \notin {"insert", "update", "commit"}
        /\ pc \in [Goroutines -> Places] /\ frame \in [Goroutines -> Frame]
    BY DEF ScheduleStep, ArmTimer, InstallTimer, CloseAtOnce, TypeInv, TypeOK
  <1>2. /\ Kept(g) \in Frame
        /\ Kept(g).attempts \in {0, frame[g].attempts}
        /\ Scheduled(g) \in Places
        /\ Scheduled(g) \notin {"begin", "insert", "update", "commit", "check", "close"}
        /\ Scheduled(g) = "idle" => g \notin Lots
    <2>1. [frame[g] EXCEPT !.armed = NoTimer].attempts = frame[g].attempts
      BY <1>1, SMT DEF Frame
    <2>2. NoFrame.attempts = 0
      BY ServingFields DEF NoFrame
    <2> QED
      BY <2>1, <2>2, KeptType DEF Kept, Scheduled, Goroutines
  <1>3. CASE ArmTimer(g)
    <2> DEFINE f == [frame[g] EXCEPT !.armed = Snap(g).closing]
    <2>1. f.attempts = frame[g].attempts
      BY <1>1, SMT DEF Frame
    <2>2. pc' = [pc EXCEPT ![g] = "install"] /\ frame' = [frame EXCEPT ![g] = f]
      BY <1>3 DEF ArmTimer
    <2> HIDE DEF f
    <2>3. \A h \in Goroutines : IF h = g THEN Leaves(h) ELSE Stays(h)
      BY <1>1, <2>1, <2>2, Zenon DEF Leaves, Stays
    <2> QED
      BY <1>1, <1>3, <2>3, QuietUnlocked DEF ArmTimer, world, db
  <1>4. CASE InstallTimer(g)
    <2>1. \A h \in Goroutines : IF h = g THEN Leaves(h) ELSE Stays(h)
      BY <1>2, <1>4, OneLeaves DEF InstallTimer
    <2> QED
      BY <1>1, <1>4, <2>1, QuietUnlocked DEF InstallTimer, world, db
  <1>5. ASSUME NEW c \in Closers, CloseAtOnce(g, c)
        PROVE  TableInv'
    <2> DEFINE f == Kept(g)
               p == Scheduled(g)
               s == Serving(frame[g].home, Lot(g))
    <2>1. s.attempts = 0
      BY ServingFields
    <2>2. /\ pc' = [pc EXCEPT ![g] = p, ![c] = "read"]
          /\ frame' = [frame EXCEPT ![g] = f, ![c] = s]
          /\ pc[c] \notin {"insert", "update", "commit"}
          /\ c \in Goroutines /\ c \notin Lots
      BY <1>5 DEF CloseAtOnce, Goroutines
    <2> HIDE DEF f, p, s
    <2>3. pc'[c] = "read" /\ frame'[c] = s
      BY <1>1, <2>2
    <2>4. g # c => pc'[g] = p /\ frame'[g] = f
      BY <1>1, <2>2
    <2>5. Leaves(c)
      BY <2>1, <2>2, <2>3 DEF Leaves
    <2>6. g # c => Leaves(g)
      BY <1>2, <2>4 DEF Leaves, f, p
    <2>7. ASSUME NEW h \in Goroutines, h # g, h # c PROVE Stays(h)
      BY <1>1, <2>2, <2>7 DEF Stays
    <2>8. \A h \in Goroutines : Stays(h) \/ (Leaves(h) /\ pc[h] \notin {"insert", "update", "commit"})
      BY <1>1, <2>2, <2>5, <2>6, <2>7
    <2> QED
      BY <1>1, <1>5, <2>8, QuietUnlocked DEF CloseAtOnce, world, db
  <1> QED
    BY <1>3, <1>4, <1>5 DEF ScheduleStep

LEMMA QuietFires ==
  ASSUME TypeInv, TableInv, NEW c \in Closers,
         \/ \E r \in Replicas, l \in Lots : FireTimer(r, l, c)
         \/ \E g \in Goroutines : FireUninstalled(g, c)
  PROVE  TableInv'
  <1>1. /\ c \in Goroutines /\ c \notin Lots /\ now \in Nat
        /\ pc \in [Goroutines -> Places] /\ frame \in [Goroutines -> Frame]
    BY DEF Goroutines, TypeInv, TypeOK
  <1>2. ASSUME NEW r \in Replicas, NEW l \in Lots, FireTimer(r, l, c)
        PROVE  TableInv'
    <2> DEFINE s == Serving(r, l)
    <2>1. s.attempts = 0
      BY ServingFields
    <2>2. pc[c] = "idle" /\ pc' = [pc EXCEPT ![c] = "read"] /\ frame' = [frame EXCEPT ![c] = s]
      BY <1>2 DEF FireTimer, SpawnCloser
    <2> HIDE DEF s
    <2>3. \A h \in Goroutines : IF h = c THEN Leaves(h) ELSE Stays(h)
      BY <1>1, <2>1, <2>2 DEF Leaves, Stays
    <2> QED
      BY <1>1, <1>2, <2>2, <2>3, QuietUnlocked DEF FireTimer, world, db
  <1>3. ASSUME NEW g \in Goroutines, FireUninstalled(g, c)
        PROVE  TableInv'
    <2> DEFINE s == Serving(frame[g].home, Lot(g))
               f == [frame[g] EXCEPT !.armed = NoTimer]
    <2>1. s.attempts = 0
      BY ServingFields
    <2>2. f.attempts = frame[g].attempts
      BY <1>1, SMT DEF Frame
    <2>3. /\ pc[g] = "install" /\ pc[c] = "idle"
          /\ pc' = [pc EXCEPT ![c] = "read"] /\ frame' = [frame EXCEPT ![g] = f, ![c] = s]
      BY <1>3 DEF FireUninstalled
    <2> HIDE DEF s, f
    <2>4. pc'[c] = "read" /\ frame'[c] = s
      BY <1>1, <2>3
    <2>5. pc'[g] = "install" /\ frame'[g] = f
      BY <1>1, <2>3
    <2>6. Leaves(c) /\ Leaves(g)
      BY <1>1, <2>1, <2>2, <2>4, <2>5 DEF Leaves
    <2>7. ASSUME NEW h \in Goroutines, h # g, h # c PROVE Stays(h)
      BY <1>1, <2>3, <2>7 DEF Stays
    <2>8. \A h \in Goroutines : Stays(h) \/ (Leaves(h) /\ pc[h] \notin {"insert", "update", "commit"})
      BY <1>1, <2>3, <2>6, <2>7
    <2> QED
      BY <1>1, <1>3, <2>8, QuietUnlocked DEF FireUninstalled, world, db
  <1> QED
    BY <1>2, <1>3

LEMMA QuietWorld ==
  ASSUME TypeInv, TableInv,
         \/ Tick \/ UNCHANGED vars
         \/ \E r \in Replicas : Restart(r) \/ RestartBlind(r)
  PROVE  TableInv'
  <1>1. /\ row' = row /\ bids' = bids /\ lock' = lock /\ forUpdate' = forUpdate
        /\ pc' = pc /\ frame' = frame
    BY DEF Tick, vars, Restart, RestartBlind, db, threads
  <1>2. now' >= now /\ now' \in Nat
    BY SMT DEF Tick, vars, Restart, RestartBlind, TypeInv, TypeOK
  <1> QED
    BY <1>1, <1>2, QuietUnlocked DEF Stays

LEMMA QuietRollback ==
  ASSUME TypeInv, TableInv, NEW q \in Bidders, CancelBid(q) \/ RetryBid(q)
  PROVE  TableInv'
  <1>1. /\ q \in Goroutines /\ now \in Nat /\ q \notin Lots /\ q # Nobody
        /\ pc \in [Goroutines -> Places] /\ frame \in [Goroutines -> Frame]
    BY DEF Goroutines, TypeInv, TypeOK
  <1>2. pc[q] \in {"begin", "insert", "update", "commit"} /\ lock' = Unlocked(q)
    BY DEF CancelBid, RetryBid, RolledBack
  <1>3. \A h \in Goroutines : IF h = q THEN Leaves(h) ELSE Stays(h)
    <2>1. CASE Return(q, "refused")
      BY <1>1, <2>1, OneReturns DEF Finished
    <2>2. CASE RetryBid(q) /\ TriesAgain(q)
      <3> DEFINE f == [frame[q] EXCEPT !.snap = NoRow, !.attempts = @ + 1]
      <3>1. f.amount = frame[q].amount
        <4> DEFINE e == [frame[q] EXCEPT !.snap = NoRow]
        <4>1. e \in Frame /\ e.amount = frame[q].amount
          BY <1>1, FrameTypes, SMT DEF Frame
        <4> HIDE DEF e
        <4>2. [e EXCEPT !.attempts = @ + 1].amount = e.amount
          BY <4>1, SMT DEF Frame
        <4> QED
          BY <4>1, <4>2 DEF e
      <3>2. pc' = [pc EXCEPT ![q] = "begin"] /\ frame' = [frame EXCEPT ![q] = f]
            /\ pc[q] = "update" /\ ~VersionMatches(q)
        BY <2>2 DEF RetryBid
      <3> HIDE DEF f
      <3>3. frame[q].amount \in Amounts /\ ~forUpdate
        BY <3>2, Zenon DEF TableInv, BidderInv, AdmittedOK
      <3>4. pc'[q] = "begin" /\ frame'[q] = f
        BY <1>1, <3>2
      <3>5. Leaves(q)
        BY <1>1, <3>1, <3>3, <3>4 DEF Leaves
      <3>6. ASSUME NEW h \in Goroutines, h # q PROVE Stays(h)
        BY <1>1, <3>2, <3>6 DEF Stays
      <3> QED
        BY <3>5, <3>6
    <2> QED
      BY <2>1, <2>2 DEF CancelBid, RetryBid
  <1>4. ~Stays(q)
    <2>1. CASE CancelBid(q)
      BY <1>1, <2>1 DEF CancelBid, Return, Stays
    <2>2. CASE RetryBid(q)
      BY <1>1, <2>2 DEF RetryBid, Return, Stays
    <2> QED
      BY <2>1, <2>2
  <1>5. ASSUME NEW l \in Lots
        PROVE  lock'[l] = IF lock[l] = Nobody \/ Stays(lock[l]) THEN lock[l] ELSE Nobody
    <2>1. lock[l] \in Bidders \cup {Nobody}
      BY DEF TypeInv, TypeOK
    <2>2. lock'[l] = IF lock[l] = q THEN Nobody ELSE lock[l]
      BY <1>2 DEF Unlocked
    <2>3. lock[l] # q /\ lock[l] # Nobody => Stays(lock[l])
      BY <1>3, <2>1 DEF Goroutines
    <2> QED
      BY <1>4, <2>2, <2>3
  <1>6. row' = row /\ bids' = bids /\ forUpdate' = forUpdate /\ now' = now
    BY DEF CancelBid, RetryBid, RolledBack, world
  <1>7. now' >= now /\ now' \in Nat
    BY <1>1, <1>6
  <1>8. \A g \in Goroutines : Stays(g) \/ Leaves(g)
    BY <1>3
  <1> QED
    BY <1>5, <1>6, <1>7, <1>8, Quiet

LEMMA QuietStop ==
  ASSUME TypeInv, TableInv, NEW r \in Replicas, Stop(r)
  PROVE  TableInv'
  <1>1. /\ now \in Nat /\ pc \in [Goroutines -> Places] /\ frame \in [Goroutines -> Frame]
        /\ lock \in [Lots -> Bidders \cup {Nobody}]
        /\ row' = row /\ bids' = bids /\ forUpdate' = forUpdate /\ now' = now
    BY DEF Stop, TypeInv, TypeOK
  <1>2. ASSUME NEW g \in Goroutines
        PROVE  IF g \in Killed(r) THEN Leaves(g) ELSE Stays(g)
    <2>1. CASE g \in Killed(r)
      <3>1. pc'[g] = IF g \in Closers THEN "idle" ELSE "gone"
        BY <2>1 DEF Stop
      <3>2. frame'[g].attempts = 0
        BY <2>1, ServingFields DEF Stop, NoFrame
      <3>3. pc'[g] \in {"idle", "gone"} /\ (g \in Lots => pc'[g] = "gone")
        BY <3>1
      <3> QED
        BY <2>1, <3>2, <3>3 DEF Leaves
    <2>2. CASE g \notin Killed(r)
      BY <2>2 DEF Stop, Stays
    <2> QED
      BY <2>1, <2>2
  <1>3. ASSUME NEW l \in Lots
        PROVE  lock'[l] = IF lock[l] = Nobody \/ Stays(lock[l]) THEN lock[l] ELSE Nobody
    <2>1. lock'[l] = IF lock[l] \in Killed(r) THEN Nobody ELSE lock[l]
      BY DEF Stop
    <2>2. CASE lock[l] = Nobody
      BY <2>1, <2>2
    <2>3. CASE lock[l] # Nobody
      <3>1. lock[l] \in Goroutines /\ pc[lock[l]] \in {"insert", "update", "commit"}
        BY <1>1, <2>3 DEF TableInv, LockInv, Goroutines
      <3>2. lock[l] \in Killed(r) => ~Stays(lock[l])
        BY <3>1 DEF Stop, Stays
      <3> QED
        BY <1>2, <2>1, <3>1, <3>2
    <2> QED
      BY <2>2, <2>3
  <1>4. now' >= now /\ now' \in Nat /\ \A g \in Goroutines : Stays(g) \/ Leaves(g)
    BY <1>1, <1>2
  <1> QED
    BY <1>1, <1>3, <1>4, Quiet

-----------------------------------------------------------------------------
(* Goroutines that stay while another one changes the tables. *)

LEMMA AtWork ==
  ASSUME TypeInv, NEW g \in Goroutines, pc[g] \notin Finished
  PROVE  /\ Lot(g) \in Lots /\ frame[g] \in Frame /\ Snap(g) \in Row /\ row[Lot(g)] \in Row
         /\ Snap(g).version \in Nat /\ Snap(g).price \in Nat /\ Snap(g).closing \in Int
         /\ row[Lot(g)].version \in Nat /\ row[Lot(g)].price \in Nat
         /\ row[Lot(g)].closing \in Int
         /\ frame[g].amount \in Nat /\ now \in Nat
  <1>1. Lot(g) \in Lots /\ frame[g] \in Frame /\ now \in Nat
    BY DEF TypeInv, TypeOK, Located
  <1>2. row[Lot(g)] \in Row
    BY <1>1 DEF TypeInv, TypeOK
  <1>3. Snap(g) \in Row /\ frame[g].amount \in Nat
    BY <1>1, SMT DEF Frame, Snap
  <1> QED
    BY <1>1, <1>2, <1>3, SMT DEF Row

BidderOK(q) ==
  /\ pc[q] \in {"begin", "insert", "update", "commit"} => frame[q].amount \in Amounts
  /\ AdmittedOK(q) /\ WrittenOK(q)

CloserOK(c) == CopyOK(c) /\ ChosenOK(c)

LEMMA BidderStays ==
  ASSUME TableInv, NEW q \in Bidders, Stays(q), forUpdate' = forUpdate,
         row'[Lot(q)] = row[Lot(q)]
  PROVE  BidderOK(q)'
  BY DEF Stays, TableInv, BidderInv, BidderOK, AdmittedOK, WrittenOK, Lot, Snap, VersionMatches

\* The row changes under a bidder that has neither written nor locked it.
BidderOverruns(q) ==
  /\ pc[q] # "commit" /\ (forUpdate => pc[q] \notin {"insert", "update"})
  /\ row'[Lot(q)].status # "absent"
  /\ row'[Lot(q)].version = row[Lot(q)].version + 1

LEMMA BidderOverrun ==
  ASSUME TypeInv, TableInv, NEW q \in Bidders, Stays(q), forUpdate' = forUpdate, BidderOverruns(q)
  PROVE  BidderOK(q)'
  <1>1. CASE pc[q] \in {"insert", "update"}
    <2>1. Snap(q).version \in Nat /\ row[Lot(q)].version \in Nat
      BY <1>1, AtWork DEF Finished, Goroutines
    <2>2. /\ frame[q].amount \in Amounts /\ Snap(q).status = "active"
          /\ Snap(q).version <= row[Lot(q)].version
          /\ frame[q].amount > Cent * Snap(q).price
          /\ frame[q].amount >= Cent * (Snap(q).price + Step)
      BY <1>1, Zenon DEF TableInv, BidderInv, AdmittedOK
    <2>3. Snap(q).version <= row'[Lot(q)].version /\ Snap(q).version # row'[Lot(q)].version
      BY <2>1, <2>2, SMT DEF BidderOverruns
    <2> QED
      BY <1>1, <2>2, <2>3, Zenon
         DEF Stays, BidderOverruns, BidderOK, AdmittedOK, WrittenOK, Lot, Snap, VersionMatches
  <1>2. CASE pc[q] \notin {"insert", "update"}
    BY <1>2 DEF Stays, BidderOverruns, TableInv, BidderInv, BidderOK, AdmittedOK, WrittenOK
  <1> QED
    BY <1>1, <1>2

LEMMA CloserStays ==
  ASSUME TableInv, NEW c \in Closers, Stays(c), now' = now,
         row'[Lot(c)] = row[Lot(c)], bids'[Lot(c)] = bids[Lot(c)]
  PROVE  CloserOK(c)'
  BY DEF Stays, TableInv, CloserInv, CloserOK, CopyOK, ChosenOK, Lot, Snap, VersionMatches

LEMMA CloserOverrun ==
  ASSUME TypeInv, TableInv, NEW c \in Closers, Stays(c), now' = now,
         row'[Lot(c)].status # "absent",
         row'[Lot(c)].version = row[Lot(c)].version + 1
  PROVE  CloserOK(c)'
  <1>1. CASE pc[c] \in {"check", "close"}
    <2>1. Snap(c).version \in Nat /\ row[Lot(c)].version \in Nat
      BY <1>1, AtWork DEF Finished, Goroutines
    <2>2. Snap(c).status = "active" /\ Snap(c).version <= row[Lot(c)].version
          /\ (pc[c] = "close" => Snap(c).closing <= now)
      BY <1>1, Zenon DEF TableInv, CloserInv, CopyOK, ChosenOK
    <2>3. Snap(c).version <= row'[Lot(c)].version /\ Snap(c).version # row'[Lot(c)].version
      BY <2>1, <2>2, SMT
    <2> QED
      BY <2>2, <2>3 DEF Stays, CloserOK, CopyOK, ChosenOK, Lot, Snap, VersionMatches
  <1>2. CASE pc[c] \notin {"check", "close"}
    BY <1>2 DEF Stays, CloserOK, CopyOK, ChosenOK
  <1> QED
    BY <1>1, <1>2

\* The rest of the invariant, once every goroutine is accounted for.
LEMMA Collect ==
  ASSUME \A q \in Bidders : BidderOK(q)', \A c \in Closers : CloserOK(c)'
  PROVE  BidderInv' /\ CloserInv'
  BY Zenon DEF BidderInv, BidderOK, CloserInv, CloserOK

-----------------------------------------------------------------------------
(* Steps that read or write the tables. *)

LEMMA ICreateLot ==
  ASSUME TypeInv, TableInv, NEW l \in Lots, NEW r \in Replicas, NEW t \in ClosingTimes,
         NEW z \in Offsets, CreateLot(l, r, t, z) \/ CreateReplyLost(l, r, t, z)
  PROVE  TableInv'
  <1> DEFINE new == OpenRow(t + z)
             f == [Serving(r, l) EXCEPT !.snap = OpenRow(t)]
  <1>1. new.status = "active" /\ new.price = Cents(StartPrice) /\ new.winner = Nobody
    BY DEF OpenRow
  <1>2. /\ pc[l] = "idle" /\ row' = [row EXCEPT ![l] = new]
        /\ bids' = bids /\ lock' = lock /\ now' = now /\ forUpdate' = forUpdate
    BY DEF CreateLot, CreateReplyLost, Opened, world
  <1> HIDE DEF new, f
  <1>3. /\ pc'[l] # "idle" /\ \A h \in Goroutines \ {l} : Stays(h)
    <2>1. pc \in [Goroutines -> Places] /\ frame \in [Goroutines -> Frame] /\ l \in Goroutines
      BY DEF TypeInv, TypeOK, Goroutines
    <2>2. CASE CreateLot(l, r, t, z)
      BY <2>1, <2>2 DEF CreateLot, Stays
    <2>3. CASE CreateReplyLost(l, r, t, z)
      BY <2>1, <2>3 DEF CreateReplyLost, Goto, Stays
    <2> QED
      BY <2>2, <2>3
  <1>4. /\ pc \in [Goroutines -> Places] /\ frame \in [Goroutines -> Frame]
        /\ row \in [Lots -> Row] /\ lock \in [Lots -> Bidders \cup {Nobody}]
        /\ l \in Goroutines /\ l \notin Bidders /\ l \notin Closers
    BY DEF TypeInv, TypeOK, Goroutines
  <1>5. /\ row[l].status = "absent" /\ bids[l] = {}
        /\ row'[l] = new /\ \A m \in Lots \ {l} : row'[m] = row[m]
    BY <1>2, <1>4 DEF TableInv, OpenInv
  <1>7. OpenInv'
    <2> SUFFICES ASSUME NEW m \in Lots
                 PROVE  /\ pc'[m] = "idle" => row'[m].status = "absent"
                        /\ row'[m].status = "absent" => bids'[m] = {}
      BY Zenon DEF OpenInv
    <2>1. m # l => Stays(m)
      BY <1>3 DEF Goroutines
    <2>2. m # l => row'[m] = row[m] /\ bids'[m] = bids[m]
      BY <1>2, <1>5
    <2> QED
      BY <1>1, <1>3, <1>5, <2>1, <2>2 DEF TableInv, OpenInv, Stays
  <1>8. LockInv'
    <2>1. ASSUME NEW m \in Lots, lock'[m] # Nobody
          PROVE  pc'[lock'[m]] \in {"insert", "update", "commit"} /\ frame'[lock'[m]].lot = m
      <3>1. lock'[m] = lock[m] /\ lock[m] \in Bidders
        BY <1>2, <1>4, <2>1
      <3>2. Stays(lock[m])
        BY <1>3, <1>4, <3>1 DEF Goroutines
      <3> QED
        BY <2>1, <3>1, <3>2 DEF TableInv, LockInv, Lot, Stays
    <2>2. ASSUME NEW q \in Bidders, pc'[q] = "commit" \/ (forUpdate' /\ pc'[q] \in {"insert", "update"})
          PROVE  lock'[frame'[q].lot] = q
      <3>1. Stays(q)
        BY <1>3, <1>4 DEF Goroutines
      <3> QED
        BY <1>2, <2>2, <3>1 DEF TableInv, LockInv, Lot, Stays
    <2> QED
      BY <2>1, <2>2, Zenon DEF LockInv, Lot
  <1>9. ASSUME NEW q \in Bidders PROVE BidderOK(q)'
    <2>1. Stays(q)
      BY <1>3, <1>4 DEF Goroutines
    <2>2. CASE pc[q] \in {"insert", "update", "commit"}
      <3>1. row[Lot(q)].status # "absent" /\ Lot(q) \in Lots
        BY <2>2, AtWork DEF TableInv, BidderInv, AdmittedOK, WrittenOK, Finished, Goroutines
      <3>2. row'[Lot(q)] = row[Lot(q)]
        BY <1>5, <3>1
      <3> QED
        BY <1>2, <2>1, <3>2, BidderStays
    <2>3. CASE pc[q] \notin {"insert", "update", "commit"}
      BY <2>1, <2>3 DEF Stays, TableInv, BidderInv, BidderOK, AdmittedOK, WrittenOK
    <2> QED
      BY <2>2, <2>3
  <1>10. ASSUME NEW c \in Closers PROVE CloserOK(c)'
    <2>1. Stays(c)
      BY <1>3, <1>4 DEF Goroutines
    <2>2. CASE pc[c] \in {"check", "close"}
      <3>1. row[Lot(c)].status # "absent" /\ Lot(c) \in Lots
        BY <2>2, AtWork DEF TableInv, CloserInv, CopyOK, Finished, Goroutines
      <3>2. row'[Lot(c)] = row[Lot(c)]
        BY <1>5, <3>1
      <3> QED
        BY <1>2, <2>1, <3>2, CloserStays
    <2>3. CASE pc[c] \notin {"check", "close"}
      BY <2>1, <2>3 DEF Stays, CloserOK, CopyOK, ChosenOK
    <2> QED
      BY <2>2, <2>3
  <1>11. NoRetryUnderRowLock'
    <2> SUFFICES ASSUME forUpdate, NEW q \in Bidders PROVE frame'[q].attempts = 0
      BY <1>2, Zenon DEF NoRetryUnderRowLock
    <2>1. Stays(q)
      BY <1>3, <1>4 DEF Goroutines
    <2> QED
      BY <2>1 DEF Stays, TableInv, NoRetryUnderRowLock
  <1>12. PriceIsHighestBid'
    <2> SUFFICES ASSUME NEW m \in Lots, row'[m].status # "absent"
                 PROVE  /\ \A b \in bids'[m] : b.amount <= row'[m].price
                        /\ IF bids'[m] = {} THEN row'[m].price = Cents(StartPrice)
                           ELSE \E b \in bids'[m] : b.amount = row'[m].price
      BY Zenon DEF PriceIsHighestBid
    <2>1. CASE m = l
      BY <1>1, <1>2, <1>5, <2>1
    <2>2. CASE m # l
      BY <1>2, <1>5, <2>2, Zenon DEF TableInv, PriceIsHighestBid
    <2> QED
      BY <2>1, <2>2
  <1>13. WinnerInv'
    <2>1. ASSUME NEW m \in Lots, row'[m].status # "closed" PROVE row'[m].winner = Nobody
      BY <1>1, <1>5, <2>1 DEF TableInv, WinnerInv
    <2>2. ASSUME NEW m \in Lots, row'[m].status = "closed" PROVE row'[m] = row[m]
      BY <1>1, <1>5, <2>2
    <2>3. WinnerIsHighestBidder'
      BY <1>2, <2>2, Zenon DEF TableInv, WinnerInv, WinnerIsHighestBidder
    <2> QED
      BY <2>1, <2>3, Zenon DEF WinnerInv
  <1> QED
    BY <1>7, <1>8, <1>9, <1>10, <1>11, <1>12, <1>13, Collect DEF TableInv

\* A bidder goes from one step of its transaction to the next; it takes the
\* lock if nobody else has it, or reads without one.
LEMMA OneTransaction ==
  ASSUME TypeInv, TableInv, NEW q \in Bidders, pc[q] \notin Finished,
         row' = row, bids' = bids, now' = now, forUpdate' = forUpdate,
         \A h \in Goroutines \ {q} : Stays(h),
         pc'[q] \in {"insert", "update", "commit"}, frame'[q].lot = Lot(q),
         frame'[q].attempts = frame[q].attempts,
         BidderOK(q)',
         \/ lock' = lock /\ pc'[q] # "commit" /\ (forUpdate => pc[q] = "insert")
         \/ CanWrite(q) /\ lock' = [lock EXCEPT ![Lot(q)] = q]
  PROVE  TableInv'
  <1>1. /\ lock \in [Lots -> Bidders \cup {Nobody}] /\ q \in Goroutines /\ q # Nobody
        /\ q \notin Lots /\ q \notin Closers /\ Lot(q) \in Lots
    BY AtWork DEF TypeInv, TypeOK, Goroutines
  <1>2. OpenInv'
    <2>1. \A l \in Lots : Stays(l)
      BY <1>1 DEF Goroutines
    <2> QED
      BY <2>1, Zenon DEF TableInv, OpenInv, Stays
  <1>3. LockInv'
    <2>1. ASSUME NEW l \in Lots, lock'[l] # Nobody
          PROVE  pc'[lock'[l]] \in {"insert", "update", "commit"} /\ frame'[lock'[l]].lot = l
      <3>1. CASE lock'[l] = q
        <4>1. l = Lot(q)
          BY <1>1, <2>1, <3>1 DEF TableInv, LockInv
        <4> QED
          BY <3>1, <4>1
      <3>2. CASE lock'[l] # q
        <4>1. lock'[l] = lock[l] /\ lock[l] \in Bidders
          BY <1>1, <2>1, <3>2
        <4>2. Stays(lock[l])
          BY <3>2, <4>1 DEF Goroutines
        <4> QED
          BY <2>1, <4>1, <4>2 DEF TableInv, LockInv, Lot, Stays
      <3> QED
        BY <3>1, <3>2
    <2>2. ASSUME NEW p \in Bidders, pc'[p] = "commit" \/ (forUpdate' /\ pc'[p] \in {"insert", "update"})
          PROVE  lock'[frame'[p].lot] = p
      <3>1. CASE p = q
        BY <1>1, <2>2, <3>1 DEF TableInv, LockInv
      <3>2. CASE p # q
        <4>1. Stays(p)
          BY <3>2 DEF Goroutines
        <4>2. lock[Lot(p)] = p /\ frame'[p].lot = Lot(p)
          BY <2>2, <4>1 DEF TableInv, LockInv, Lot, Stays
        <4>3. Lot(p) \in Lots
          BY <2>2, <4>1, AtWork DEF Stays, Goroutines, Finished
        <4>4. lock'[Lot(p)] = lock[Lot(p)]
          <5>1. CASE lock' = lock
            BY <5>1
          <5>2. CASE CanWrite(q) /\ lock' = [lock EXCEPT ![Lot(q)] = q]
            <6>1. Lot(p) # Lot(q)
              BY <1>1, <3>2, <4>2, <5>2 DEF CanWrite
            <6> QED
              BY <1>1, <4>3, <5>2, <6>1
          <5> QED
            BY <5>1, <5>2
        <4> QED
          BY <4>2, <4>4
      <3> QED
        BY <3>1, <3>2
    <2> QED
      BY <2>1, <2>2, Zenon DEF LockInv, Lot
  <1>4. ASSUME NEW p \in Bidders PROVE BidderOK(p)'
    BY BidderStays DEF Goroutines
  <1>5. ASSUME NEW c \in Closers PROVE CloserOK(c)'
    BY <1>1, CloserStays DEF Goroutines
  <1>6. NoRetryUnderRowLock'
    <2> SUFFICES ASSUME forUpdate, NEW p \in Bidders PROVE frame'[p].attempts = 0
      BY Zenon DEF NoRetryUnderRowLock
    <2>1. frame[p].attempts = 0
      BY DEF TableInv, NoRetryUnderRowLock
    <2>2. p # q => Stays(p)
      BY DEF Goroutines
    <2> QED
      BY <2>1, <2>2 DEF Stays
  <1>7. PriceIsHighestBid' /\ WinnerInv'
    BY DEF TableInv, PriceIsHighestBid, WinnerInv, WinnerIsHighestBidder
  <1> QED
    BY <1>2, <1>3, <1>4, <1>5, <1>6, <1>7, Collect DEF TableInv

LEMMA IAdmitBid ==
  ASSUME TypeInv, TableInv, NEW q \in Bidders, AdmitBid(q)
  PROVE  TableInv'
  <1> DEFINE f == [frame[q] EXCEPT !.snap = row[Lot(q)]]
  <1>1. /\ q \in Goroutines /\ pc[q] = "begin" /\ pc[q] \notin Finished
        /\ pc \in [Goroutines -> Places] /\ frame \in [Goroutines -> Frame]
    BY DEF AdmitBid, CanSelect, Goroutines, TypeInv, TypeOK, Finished
  <1>2. frame[q] \in Frame /\ row[Lot(q)] \in Row /\ Lot(q) \in Lots
    BY <1>1, AtWork
  <1>3. f.lot = frame[q].lot /\ f.attempts = frame[q].attempts /\ f.amount = frame[q].amount
        /\ f.snap = row[Lot(q)]
    BY <1>2, SMT DEF Frame
  <1>4. pc' = [pc EXCEPT ![q] = "insert"] /\ frame' = [frame EXCEPT ![q] = f]
    BY DEF AdmitBid
  <1> HIDE DEF f
  <1>5. /\ row' = row /\ bids' = bids /\ now' = now /\ forUpdate' = forUpdate
        /\ lock' = IF forUpdate THEN [lock EXCEPT ![Lot(q)] = q] ELSE lock
        /\ forUpdate => lock[Lot(q)] = Nobody
        /\ Acceptable(row[Lot(q)], frame[q].amount)
    BY DEF AdmitBid, CanSelect, world
  <1>6. pc'[q] = "insert" /\ frame'[q] = f /\ \A h \in Goroutines \ {q} : Stays(h)
    BY <1>1, <1>4 DEF Stays
  <1>7. BidderOK(q)'
    <2>1. frame[q].amount \in Amounts
      BY <1>1, Zenon DEF TableInv, BidderInv
    <2>2. AdmittedOK(q)'
      <3>1. /\ row'[frame'[q].lot] = row[Lot(q)] /\ frame'[q].snap = row[Lot(q)]
            /\ frame'[q].amount = frame[q].amount
        BY <1>3, <1>5, <1>6 DEF Lot
      <3>2. /\ row[Lot(q)].status = "active" /\ row[Lot(q)].version <= row[Lot(q)].version
            /\ frame[q].amount > Cent * row[Lot(q)].price
            /\ frame[q].amount >= Cent * (row[Lot(q)].price + Step)
        BY <1>5, <1>1, AtWork DEF Acceptable
      <3> QED
        BY <3>1, <3>2, Zenon DEF AdmittedOK, Lot, Snap, VersionMatches
    <2>3. WrittenOK(q)'
      BY <1>6 DEF WrittenOK
    <2> QED
      BY <1>3, <1>6, <2>1, <2>2, <2>3 DEF BidderOK
  <1> QED
    BY <1>1, <1>3, <1>5, <1>6, <1>7, OneTransaction DEF Lot, CanWrite

LEMMA ICreateBid ==
  ASSUME TypeInv, TableInv, NEW q \in Bidders, CreateBid(q)
  PROVE  TableInv'
  <1>1. /\ q \in Goroutines /\ pc[q] = "insert" /\ pc[q] \notin Finished
        /\ pc \in [Goroutines -> Places] /\ frame \in [Goroutines -> Frame]
    BY DEF CreateBid, Goroutines, TypeInv, TypeOK, Finished
  <1>2. /\ row' = row /\ bids' = bids /\ lock' = lock /\ now' = now /\ forUpdate' = forUpdate
        /\ pc'[q] = "update" /\ frame' = frame /\ \A h \in Goroutines \ {q} : Stays(h)
    BY <1>1 DEF CreateBid, Goto, world, Stays
  <1>3. BidderOK(q)'
    BY <1>1, <1>2, Zenon
       DEF TableInv, BidderInv, BidderOK, AdmittedOK, WrittenOK, Lot, Snap, VersionMatches
  <1> QED
    BY <1>1, <1>2, <1>3, OneTransaction DEF Lot

LEMMA IUpdateBid ==
  ASSUME TypeInv, TableInv, NEW q \in Bidders, UpdateBid(q)
  PROVE  TableInv'
  <1> DEFINE x == Raised(Snap(q), frame[q].amount)
             y == NearWire(Snap(q))
             f == [frame[q] EXCEPT !.snap = x, !.extended = y]
  <1>1. /\ q \in Goroutines /\ pc[q] = "update" /\ pc[q] \notin Finished
        /\ pc \in [Goroutines -> Places] /\ frame \in [Goroutines -> Frame]
    BY DEF UpdateBid, Goroutines, TypeInv, TypeOK, Finished
  <1>2. /\ Lot(q) \in Lots /\ frame[q] \in Frame /\ Snap(q) \in Row /\ frame[q].amount \in Nat
        /\ Snap(q).price \in Nat /\ Snap(q).closing \in Int /\ now \in Nat
    BY <1>1, AtWork
  <1>3. /\ x \in Row /\ x.price = Cents(frame[q].amount) /\ x.version = Snap(q).version + 1
        /\ x.status = Snap(q).status /\ x.winner = Snap(q).winner
    BY <1>2, RaisedFields
  <1>4. y \in BOOLEAN
    BY DEF NearWire
  <1>4a. SnipingWindow <= SnipingExtension => x.closing >= Snap(q).closing
    <2>1. x.closing = IF NearWire(Snap(q)) THEN now + SnipingExtension ELSE Snap(q).closing
      BY <1>2, RaisedFields
    <2>2. NearWire(Snap(q)) => Snap(q).closing - now <= SnipingWindow
      BY DEF NearWire
    <2> QED
      BY <1>2, <2>1, <2>2, BoundTypes, AtWork, SMT
  <1>5. pc' = [pc EXCEPT ![q] = "commit"] /\ frame' = [frame EXCEPT ![q] = f]
    BY DEF UpdateBid
  <1> HIDE DEF x, y
  <1>6. f.lot = frame[q].lot /\ f.attempts = frame[q].attempts /\ f.amount = frame[q].amount
        /\ f.snap = x
    <2> DEFINE e == [frame[q] EXCEPT !.snap = x]
    <2>1. e \in Frame /\ e.lot = frame[q].lot /\ e.attempts = frame[q].attempts
          /\ e.amount = frame[q].amount /\ e.snap = x
      BY <1>2, <1>3, SMT DEF Frame
    <2> HIDE DEF e
    <2> DEFINE k == [e EXCEPT !.extended = y]
    <2>2. k.lot = e.lot /\ k.attempts = e.attempts /\ k.amount = e.amount /\ k.snap = e.snap
      BY <1>4, <2>1, SMT DEF Frame
    <2> HIDE DEF k
    <2>3. f = k
      BY DEF k, e
    <2> HIDE DEF f
    <2> QED
      BY <2>1, <2>2, <2>3
  <1> HIDE DEF f
  <1>7. /\ row' = row /\ bids' = bids /\ now' = now /\ forUpdate' = forUpdate
        /\ CanWrite(q) /\ VersionMatches(q) /\ lock' = [lock EXCEPT ![Lot(q)] = q]
    BY DEF UpdateBid, world
  <1>8. pc'[q] = "commit" /\ frame'[q] = f /\ \A h \in Goroutines \ {q} : Stays(h)
    BY <1>1, <1>5 DEF Stays
  <1>9. /\ frame[q].amount \in Amounts
        /\ Snap(q) = row[Lot(q)] /\ Snap(q).status = "active"
        /\ frame[q].amount > Cent * Snap(q).price
        /\ frame[q].amount >= Cent * (Snap(q).price + Step)
    BY <1>1, <1>7, Zenon DEF TableInv, BidderInv, AdmittedOK
  <1>10. x.price >= Snap(q).price /\ x.price >= Snap(q).price + Step
    <2>1. Step \in Nat
      BY CentsType DEF Step
    <2>2. Snap(q).price + Step \in Nat
      BY <1>2, <2>1, SMT
    <2>3. Cents(frame[q].amount) >= Snap(q).price + Step
      BY <1>2, <1>9, <2>2, CentsReach
    <2>4. Cents(frame[q].amount) \in Nat
      BY <1>2, CentsType
    <2> QED
      BY <1>2, <1>3, <2>1, <2>3, <2>4, SMT
  <1>11. BidderOK(q)'
    <2>1. row'[frame'[q].lot] = Snap(q) /\ frame'[q].snap = x /\ frame'[q].amount = frame[q].amount
      BY <1>6, <1>7, <1>8, <1>9 DEF Lot
    <2>2. WrittenOK(q)'
      BY <1>3, <1>9, <1>10, <1>4a, <2>1, Zenon DEF WrittenOK, Lot, Snap
    <2>3. AdmittedOK(q)'
      BY <1>8 DEF AdmittedOK
    <2> QED
      BY <1>9, <2>1, <2>2, <2>3 DEF BidderOK
  <1> QED
    BY <1>1, <1>6, <1>7, <1>8, <1>11, OneTransaction DEF Lot

\* Goroutine g replaces the row of lot k by n, of the next version; a bidder
\* other than g that has the lock does not exist.
LEMMA OthersOverrun ==
  ASSUME TypeInv, TableInv, NEW g \in Goroutines, NEW k \in Lots, NEW n \in Row,
         row' = [row EXCEPT ![k] = n], n.status # "absent", n.version = row[k].version + 1,
         \A m \in Lots \ {k} : bids'[m] = bids[m],
         now' = now, forUpdate' = forUpdate,
         \A h \in Goroutines \ {g} : Stays(h),
         lock[k] \in {g, Nobody}
  PROVE  /\ \A p \in Bidders \ {g} : BidderOK(p)'
         /\ \A c \in Closers \ {g} : CloserOK(c)'
  <1>1. row \in [Lots -> Row] /\ Bidders \subseteq Goroutines /\ Closers \subseteq Goroutines
        /\ Nobody \notin Bidders
    BY DEF TypeInv, TypeOK, Goroutines
  <1>2. row'[k] = n /\ \A m \in Lots \ {k} : row'[m] = row[m]
    BY <1>1
  <1>3. ASSUME NEW p \in Bidders, p # g PROVE BidderOK(p)'
    <2>1. Stays(p)
      BY <1>1, <1>3
    <2>2. CASE pc[p] \in {"insert", "update", "commit"}
      <3>1. Lot(p) \in Lots
        BY <1>1, <2>2, AtWork DEF Finished
      <3>2. CASE Lot(p) = k
        <4>1. lock[Lot(p)] # p
          BY <1>1, <1>3, <3>2
        <4>2. BidderOverruns(p)
          BY <1>2, <3>2, <4>1 DEF TableInv, LockInv, BidderOverruns
        <4> QED
          BY <2>1, <4>2, BidderOverrun
      <3>3. CASE Lot(p) # k
        BY <1>2, <2>1, <3>1, <3>3, BidderStays
      <3> QED
        BY <3>2, <3>3
    <2>3. CASE pc[p] \notin {"insert", "update", "commit"}
      BY <2>1, <2>3 DEF Stays, TableInv, BidderInv, BidderOK, AdmittedOK, WrittenOK
    <2> QED
      BY <2>2, <2>3
  <1>4. ASSUME NEW c \in Closers, c # g PROVE CloserOK(c)'
    <2>1. Stays(c)
      BY <1>1, <1>4
    <2>2. CASE pc[c] \in {"check", "close"}
      <3>1. Lot(c) \in Lots
        BY <1>1, <2>2, AtWork DEF Finished
      <3>2. CASE Lot(c) = k
        BY <1>2, <2>1, <3>2, CloserOverrun
      <3>3. CASE Lot(c) # k
        BY <1>2, <2>1, <3>1, <3>3, CloserStays
      <3> QED
        BY <3>2, <3>3
    <2>3. CASE pc[c] \notin {"check", "close"}
      BY <2>1, <2>3 DEF Stays, CloserOK, CopyOK, ChosenOK
    <2> QED
      BY <2>2, <2>3
  <1> QED
    BY <1>3, <1>4

\* Where a goroutine stands that has just committed or given up.
LEMMA CommitMoves ==
  ASSUME TypeInv, NEW q \in Bidders, CommitBid(q) \/ CommitReplyLost(q)
  PROVE  /\ pc'[q] \in {"announce", "unknown"} /\ frame'[q].attempts \in {0, frame[q].attempts}
         /\ \A h \in Goroutines \ {q} : Stays(h)
         /\ now' = now /\ forUpdate' = forUpdate /\ Committed(q)
  <1>1. q \in Goroutines /\ pc \in [Goroutines -> Places] /\ frame \in [Goroutines -> Frame]
    BY DEF Goroutines, TypeInv, TypeOK
  <1>2. CASE CommitBid(q)
    BY <1>1, <1>2 DEF CommitBid, Goto, world, Stays
  <1>3. CASE CommitReplyLost(q)
    BY <1>1, <1>3, ServingFields DEF CommitReplyLost, Return, NoFrame, Stays
  <1> QED
    BY <1>2, <1>3

LEMMA ICommit ==
  ASSUME TypeInv, TableInv, NEW q \in Bidders, inserted[q] = {Mine(q)},
         CommitBid(q) \/ CommitReplyLost(q)
  PROVE  TableInv'
  <1> DEFINE k == Lot(q)
             n == Snap(q)
             b == Mine(q)
  <1>1. /\ pc'[q] \in {"announce", "unknown"} /\ frame'[q].attempts \in {0, frame[q].attempts}
        /\ \A h \in Goroutines \ {q} : Stays(h)
        /\ now' = now /\ forUpdate' = forUpdate /\ Committed(q)
    BY CommitMoves
  <1>2. pc[q] = "commit" /\ q \in Goroutines /\ q \notin Lots /\ q \notin Closers /\ q # Nobody
    BY <1>1 DEF Committed, Goroutines
  <1>3. k \in Lots /\ n \in Row /\ row[k].price \in Nat /\ n.price \in Nat
    BY <1>2, AtWork DEF Finished
  <1>4. /\ row[k].status = "active" /\ n.status = "active" /\ n.version = row[k].version + 1
        /\ n.winner = row[k].winner /\ n.price = b.amount /\ n.price >= row[k].price
    <2>1. Mine(q).amount = Cents(frame[q].amount)
      BY DEF Mine
    <2> QED
      BY <1>2, <2>1, Zenon DEF TableInv, BidderInv, WrittenOK
  <1>5. lock[k] = q
    BY <1>2 DEF TableInv, LockInv
  <1>6. /\ row' = [row EXCEPT ![k] = n] /\ bids' = [bids EXCEPT ![k] = bids[k] \cup {b}]
        /\ lock' = Unlocked(q)
    BY <1>1 DEF Committed
  <1>7. /\ row \in [Lots -> Row] /\ bids \in [Lots -> SUBSET [by : Bidders, amount : Nat, try : Nat]]
        /\ lock \in [Lots -> Bidders \cup {Nobody}]
    BY DEF TypeInv, TypeOK
  <1> HIDE DEF k, n, b
  <1>8. /\ row'[k] = n /\ bids'[k] = bids[k] \cup {b}
        /\ \A m \in Lots \ {k} : row'[m] = row[m] /\ bids'[m] = bids[m]
    BY <1>3, <1>6, <1>7
  <1>9. /\ \A p \in Bidders \ {q} : BidderOK(p)'
        /\ \A c \in Closers \ {q} : CloserOK(c)'
    BY <1>1, <1>2, <1>3, <1>4, <1>5, <1>6, <1>8, OthersOverrun
  <1>10. BidderOK(q)'
    BY <1>1 DEF BidderOK, AdmittedOK, WrittenOK
  <1>11. OpenInv'
    <2> SUFFICES ASSUME NEW m \in Lots
                 PROVE  /\ pc'[m] = "idle" => row'[m].status = "absent"
                        /\ row'[m].status = "absent" => bids'[m] = {}
      BY Zenon DEF OpenInv
    <2>1. Stays(m)
      BY <1>1, <1>2 DEF Goroutines
    <2>2. pc[m] = "idle" => row[m].status = "absent"
      BY DEF TableInv, OpenInv
    <2>3. row[m].status = "absent" => bids[m] = {}
      BY DEF TableInv, OpenInv
    <2>4. m = k => pc'[m] # "idle" /\ row'[m].status # "absent"
      BY <1>4, <1>8, <2>1, <2>2 DEF Stays
    <2> QED
      BY <1>8, <2>1, <2>2, <2>3, <2>4 DEF Stays
  <1>12. LockInv'
    <2>1. ASSUME NEW m \in Lots, lock'[m] # Nobody
          PROVE  pc'[lock'[m]] \in {"insert", "update", "commit"} /\ frame'[lock'[m]].lot = m
      <3>1. lock'[m] = lock[m] /\ lock[m] # q /\ lock[m] \in Goroutines
        BY <1>6, <1>7, <2>1 DEF Unlocked, Goroutines
      <3>2. Stays(lock[m])
        BY <1>1, <3>1
      <3> QED
        BY <2>1, <3>1, <3>2 DEF TableInv, LockInv, Lot, Stays
    <2>2. ASSUME NEW p \in Bidders, pc'[p] = "commit" \/ (forUpdate' /\ pc'[p] \in {"insert", "update"})
          PROVE  lock'[frame'[p].lot] = p
      <3>1. p # q /\ Stays(p)
        BY <1>1, <2>2 DEF Goroutines
      <3>2. lock[Lot(p)] = p /\ frame'[p].lot = Lot(p) /\ pc[p] \in {"insert", "update", "commit"}
        BY <1>1, <2>2, <3>1 DEF TableInv, LockInv, Lot, Stays
      <3>3. Lot(p) \in Lots
        BY <3>2, AtWork DEF Finished, Goroutines
      <3> QED
        BY <1>6, <3>1, <3>2, <3>3 DEF Unlocked
    <2> QED
      BY <2>1, <2>2, Zenon DEF LockInv, Lot
  <1>13. NoRetryUnderRowLock'
    <2> SUFFICES ASSUME forUpdate, NEW p \in Bidders PROVE frame'[p].attempts = 0
      BY <1>1, Zenon DEF NoRetryUnderRowLock
    <2>1. frame[p].attempts = 0
      BY DEF TableInv, NoRetryUnderRowLock
    <2>2. p # q => Stays(p)
      BY <1>1 DEF Goroutines
    <2> QED
      BY <1>1, <2>1, <2>2 DEF Stays
  <1>14. PriceIsHighestBid'
    <2> SUFFICES ASSUME NEW m \in Lots, row'[m].status # "absent"
                 PROVE  /\ \A d \in bids'[m] : d.amount <= row'[m].price
                        /\ IF bids'[m] = {} THEN row'[m].price = Cents(StartPrice)
                           ELSE \E d \in bids'[m] : d.amount = row'[m].price
      BY Zenon DEF PriceIsHighestBid
    <2>1. CASE m = k
      <3>1. \A d \in bids[k] : d.amount \in Nat /\ d.amount <= row[k].price
        BY <1>3, <1>4, <1>7 DEF TableInv, PriceIsHighestBid
      <3>2. \A d \in bids'[k] : d.amount <= n.price
        BY <1>3, <1>4, <1>8, <3>1
      <3> QED
        BY <1>4, <1>8, <2>1, <3>2
    <2>2. CASE m # k
      BY <1>8, <2>2, Zenon DEF TableInv, PriceIsHighestBid
    <2> QED
      BY <2>1, <2>2
  <1>15. WinnerInv'
    <2>1. ASSUME NEW m \in Lots, row'[m].status # "closed" PROVE row'[m].winner = Nobody
      BY <1>3, <1>4, <1>8, <2>1 DEF TableInv, WinnerInv
    <2>2. ASSUME NEW m \in Lots, row'[m].status = "closed" PROVE row'[m] = row[m] /\ bids'[m] = bids[m]
      BY <1>4, <1>8, <2>2
    <2>3. WinnerIsHighestBidder'
      BY <2>2, Zenon DEF TableInv, WinnerInv, WinnerIsHighestBidder
    <2> QED
      BY <2>1, <2>3, Zenon DEF WinnerInv
  <1>16. (\A p \in Bidders : BidderOK(p)') /\ (\A c \in Closers : CloserOK(c)')
    BY <1>2, <1>9, <1>10
  <1> QED
    BY <1>11, <1>12, <1>13, <1>14, <1>15, <1>16, Collect DEF TableInv

\* A closer reads on while the tables stay what they are.
LEMMA OneReader ==
  ASSUME TypeInv, TableInv, NEW c \in Closers, pc[c] \notin Finished,
         row' = row, bids' = bids, lock' = lock, now' = now, forUpdate' = forUpdate,
         \A h \in Goroutines \ {c} : Stays(h),
         CloserOK(c)'
  PROVE  TableInv'
  <1>1. /\ c \notin Lots /\ c \notin Bidders /\ Lots \subseteq Goroutines
        /\ Bidders \subseteq Goroutines /\ Closers \subseteq Goroutines
        /\ lock \in [Lots -> Bidders \cup {Nobody}]
    BY DEF Goroutines, TypeInv, TypeOK
  <1>2. (\A l \in Lots : Stays(l)) /\ (\A q \in Bidders : Stays(q))
    BY <1>1
  <1>3. OpenInv'
    BY <1>2, Zenon DEF TableInv, OpenInv, Stays
  <1>4. LockInv'
    <2>1. ASSUME NEW l \in Lots, lock'[l] # Nobody
          PROVE  pc'[lock'[l]] \in {"insert", "update", "commit"} /\ frame'[lock'[l]].lot = l
      <3>1. lock'[l] = lock[l] /\ lock[l] \in Bidders /\ Stays(lock[l])
        BY <1>1, <1>2, <2>1
      <3> QED
        BY <2>1, <3>1 DEF TableInv, LockInv, Lot, Stays
    <2>2. ASSUME NEW p \in Bidders, pc'[p] = "commit" \/ (forUpdate' /\ pc'[p] \in {"insert", "update"})
          PROVE  lock'[frame'[p].lot] = p
      <3>1. Stays(p)
        BY <1>2
      <3> QED
        BY <2>2, <3>1 DEF TableInv, LockInv, Lot, Stays
    <2> QED
      BY <2>1, <2>2, Zenon DEF LockInv, Lot
  <1>5. ASSUME NEW q \in Bidders PROVE BidderOK(q)'
    BY <1>2, BidderStays
  <1>6. ASSUME NEW d \in Closers PROVE CloserOK(d)'
    <2>1. d # c => Stays(d)
      BY <1>1
    <2> QED
      BY <2>1, CloserStays
  <1>7. NoRetryUnderRowLock'
    BY <1>2, Zenon DEF TableInv, NoRetryUnderRowLock, Stays
  <1>8. PriceIsHighestBid' /\ WinnerInv'
    BY DEF TableInv, PriceIsHighestBid, WinnerInv, WinnerIsHighestBidder
  <1> QED
    BY <1>3, <1>4, <1>5, <1>6, <1>7, <1>8, Collect DEF TableInv

LEMMA IReadForClose ==
  ASSUME TypeInv, TableInv, NEW c \in Closers, ReadForClose(c)
  PROVE  TableInv'
  <1> DEFINE f == [frame[c] EXCEPT !.snap = row[Lot(c)]]
  <1>1. /\ c \in Goroutines /\ pc[c] \notin Finished /\ now \in Nat /\ c \notin Lots
        /\ pc \in [Goroutines -> Places] /\ frame \in [Goroutines -> Frame]
        /\ row' = row /\ bids' = bids /\ lock' = lock /\ now' = now /\ forUpdate' = forUpdate
        /\ pc[c] = "read"
    BY DEF ReadForClose, world, db, Goroutines, TypeInv, TypeOK, Finished
  <1>2. CASE row[Lot(c)].status = "active"
    <2>1. f.lot = frame[c].lot /\ f.snap = row[Lot(c)]
      BY <1>1, AtWork, SMT DEF Frame
    <2>2. pc' = [pc EXCEPT ![c] = "check"] /\ frame' = [frame EXCEPT ![c] = f]
      BY <1>2 DEF ReadForClose
    <2> HIDE DEF f
    <2>3. pc'[c] = "check" /\ frame'[c] = f /\ \A h \in Goroutines \ {c} : Stays(h)
      BY <1>1, <2>2 DEF Stays
    <2>4. row'[frame'[c].lot] = row[Lot(c)] /\ frame'[c].snap = row[Lot(c)]
      BY <1>1, <2>1, <2>3 DEF Lot
    <2>5. row[Lot(c)].version <= row[Lot(c)].version
      BY <1>1, AtWork
    <2>6. CopyOK(c)'
      BY <1>2, <2>4, <2>5, Zenon DEF CopyOK, Lot, Snap, VersionMatches
    <2>7. ChosenOK(c)'
      BY <2>3 DEF ChosenOK
    <2> QED
      BY <1>1, <2>3, <2>6, <2>7, OneReader DEF CloserOK
  <1>3. CASE row[Lot(c)].status # "active"
    <2>1. \A h \in Goroutines : IF h = c THEN Leaves(h) ELSE Stays(h)
      BY <1>1, <1>3, OneReturns DEF ReadForClose, Finished
    <2> QED
      BY <1>1, <2>1, QuietUnlocked
  <1> QED
    BY <1>2, <1>3

\* Whoever the query of GetHighestBid returns placed a highest bid.
LEMMA HighestIsBest ==
  ASSUME NEW S, NEW w \in HighestBidders(S)
  PROVE  Best(w, S)
  BY DEF HighestBidders, Highest, Best

LEMMA ICheckClosing ==
  ASSUME TypeInv, TableInv, NEW c \in Closers, CheckClosing(c)
  PROVE  TableInv'
  <1>1. /\ c \in Goroutines /\ pc[c] \notin Finished /\ now \in Nat /\ c \notin Lots
        /\ pc \in [Goroutines -> Places] /\ frame \in [Goroutines -> Frame]
        /\ row' = row /\ bids' = bids /\ lock' = lock /\ now' = now /\ forUpdate' = forUpdate
        /\ pc[c] = "check"
    BY DEF CheckClosing, world, db, Goroutines, TypeInv, TypeOK, Finished
  <1>2. Snap(c) \in Row /\ Snap(c).closing \in Int /\ frame[c] \in Frame
    BY <1>1, AtWork
  <1>3. CASE now < Snap(c).closing
    <2>1. \A h \in Goroutines : IF h = c THEN Leaves(h) ELSE Stays(h)
      BY <1>1, <1>3, OneGoes DEF CheckClosing, Finished, Places
    <2> QED
      BY <1>1, <2>1, QuietUnlocked
  <1>4. CASE ~(now < Snap(c).closing)
    <2>1. PICK w \in HighestBidders(bids[Lot(c)]) :
            /\ pc' = [pc EXCEPT ![c] = "close"]
            /\ frame' = [frame EXCEPT ![c].snap.winner = w]
      BY <1>4 DEF CheckClosing
    <2> DEFINE x == [Snap(c) EXCEPT !.winner = w]
               f == [frame[c] EXCEPT !.snap = x]
    <2>2. /\ x.winner = w /\ x.status = Snap(c).status /\ x.version = Snap(c).version
          /\ x.price = Snap(c).price /\ x.closing = Snap(c).closing
      BY <1>2, SMT DEF Row
    <2>3. frame' = [frame EXCEPT ![c] = f]
      BY <2>1 DEF Snap
    <2> HIDE DEF x
    <2>4. f.lot = frame[c].lot /\ f.snap = x
      BY <1>2, SMT DEF Frame
    <2> HIDE DEF f
    <2>5. pc'[c] = "close" /\ frame'[c] = f /\ \A h \in Goroutines \ {c} : Stays(h)
      BY <1>1, <2>1, <2>3 DEF Stays
    <2>6. frame'[c].lot = Lot(c) /\ frame'[c].snap = x
      BY <2>4, <2>5 DEF Lot
    <2>7. CopyOK(c)'
      <3>1. /\ row[Lot(c)].status # "absent" /\ Snap(c).status = "active"
            /\ Snap(c).version <= row[Lot(c)].version
            /\ row[Lot(c)].version = Snap(c).version =>
                 /\ row[Lot(c)].status = "active"
                 /\ Snap(c).price = row[Lot(c)].price /\ Snap(c).closing = row[Lot(c)].closing
        BY <1>1, Zenon DEF TableInv, CloserInv, CopyOK, VersionMatches
      <3> QED
        BY <1>1, <2>2, <2>6, <3>1 DEF CopyOK, Lot, Snap, VersionMatches
    <2>8. ChosenOK(c)'
      <3>1. Best(w, bids[Lot(c)])
        BY HighestIsBest
      <3>2. x.closing <= now
        BY <1>1, <1>2, <1>4, <2>2
      <3> QED
        BY <1>1, <2>2, <2>6, <3>1, <3>2, Zenon DEF ChosenOK, Lot, Snap, Best
    <2> QED
      BY <1>1, <2>5, <2>7, <2>8, OneReader DEF CloserOK
  <1> QED
    BY <1>3, <1>4

LEMMA ICloseRow ==
  ASSUME TypeInv, TableInv, NEW c \in Closers, CloseRow(c) \/ CloseReplyLost(c)
  PROVE  TableInv'
  <1> DEFINE k == Lot(c)
             n == Closed(Snap(c))
  <1>1. /\ c \in Goroutines /\ pc[c] = "close" /\ pc[c] \notin Finished /\ now \in Nat
        /\ c \notin Lots /\ c \notin Bidders /\ c # Nobody
        /\ pc \in [Goroutines -> Places] /\ frame \in [Goroutines -> Frame]
        /\ row \in [Lots -> Row] /\ lock \in [Lots -> Bidders \cup {Nobody}]
    BY DEF CloseRow, CloseReplyLost, Shut, Goroutines, TypeInv, TypeOK, Finished
  <1>2. /\ row' = [row EXCEPT ![k] = n] /\ bids' = bids /\ lock' = lock
        /\ now' = now /\ forUpdate' = forUpdate /\ CanWrite(c) /\ VersionMatches(c)
    BY DEF CloseRow, CloseReplyLost, Shut, world
  <1>3. k \in Lots /\ Snap(c) \in Row
    BY <1>1, AtWork
  <1>4. /\ row[k].status = "active" /\ Snap(c).price = row[k].price
        /\ Best(Snap(c).winner, bids[k])
    BY <1>1, <1>2, Zenon DEF TableInv, CloserInv, CopyOK, ChosenOK
  <1>5. lock[k] = Nobody
    BY <1>1, <1>2, <1>3 DEF CanWrite
  <1>6. /\ n \in Row /\ n.status = "closed" /\ n.version = row[k].version + 1
        /\ n.price = row[k].price /\ n.winner = Snap(c).winner
    BY <1>2, <1>3, <1>4, ClosedFields DEF VersionMatches
  <1>7. /\ pc'[c] \in {"clear", "idle"} /\ frame'[c].attempts \in {0, frame[c].attempts}
        /\ \A h \in Goroutines \ {c} : Stays(h)
    <2>1. CASE CloseRow(c)
      BY <1>1, <2>1 DEF CloseRow, Goto, Stays
    <2>2. CASE CloseReplyLost(c)
      BY <1>1, <2>2, ServingFields DEF CloseReplyLost, Return, NoFrame, Stays
    <2> QED
      BY <2>1, <2>2
  <1> HIDE DEF k, n
  <1>8. row'[k] = n /\ \A m \in Lots \ {k} : row'[m] = row[m]
    BY <1>1, <1>2, <1>3
  <1>9. /\ \A p \in Bidders \ {c} : BidderOK(p)'
        /\ \A d \in Closers \ {c} : CloserOK(d)'
    <2>1. n.status # "absent" /\ (\A m \in Lots \ {k} : bids'[m] = bids[m]) /\ lock[k] \in {c, Nobody}
      BY <1>2, <1>5, <1>6
    <2> QED
      BY <1>1, <1>2, <1>3, <1>6, <1>7, <2>1, OthersOverrun
  <1>10. CloserOK(c)'
    BY <1>7 DEF CloserOK, CopyOK, ChosenOK
  <1>11. OpenInv'
    <2> SUFFICES ASSUME NEW m \in Lots
                 PROVE  /\ pc'[m] = "idle" => row'[m].status = "absent"
                        /\ row'[m].status = "absent" => bids'[m] = {}
      BY Zenon DEF OpenInv
    <2>1. Stays(m)
      BY <1>1, <1>7 DEF Goroutines
    <2>2. /\ pc[m] = "idle" => row[m].status = "absent"
          /\ row[m].status = "absent" => bids[m] = {}
      BY DEF TableInv, OpenInv
    <2> QED
      BY <1>2, <1>4, <1>6, <1>8, <2>1, <2>2 DEF Stays
  <1>12. LockInv'
    <2>1. \A p \in Bidders : Stays(p)
      BY <1>1, <1>7 DEF Goroutines
    <2>2. ASSUME NEW l \in Lots, lock'[l] # Nobody
          PROVE  pc'[lock'[l]] \in {"insert", "update", "commit"} /\ frame'[lock'[l]].lot = l
      <3>1. lock'[l] = lock[l] /\ lock[l] \in Bidders /\ Stays(lock[l])
        BY <1>1, <1>2, <2>1, <2>2
      <3> QED
        BY <2>2, <3>1 DEF TableInv, LockInv, Lot, Stays
    <2>3. ASSUME NEW p \in Bidders, pc'[p] = "commit" \/ (forUpdate' /\ pc'[p] \in {"insert", "update"})
          PROVE  lock'[frame'[p].lot] = p
      <3>1. Stays(p)
        BY <2>1
      <3> QED
        BY <1>2, <2>3, <3>1 DEF TableInv, LockInv, Lot, Stays
    <2> QED
      BY <2>2, <2>3, Zenon DEF LockInv, Lot
  <1>13. NoRetryUnderRowLock'
    <2>1. \A p \in Bidders : Stays(p)
      BY <1>1, <1>7 DEF Goroutines
    <2> QED
      BY <1>2, <2>1, Zenon DEF TableInv, NoRetryUnderRowLock, Stays
  <1>14. PriceIsHighestBid'
    <2> SUFFICES ASSUME NEW m \in Lots, row'[m].status # "absent"
                 PROVE  /\ \A d \in bids'[m] : d.amount <= row'[m].price
                        /\ IF bids'[m] = {} THEN row'[m].price = Cents(StartPrice)
                           ELSE \E d \in bids'[m] : d.amount = row'[m].price
      BY Zenon DEF PriceIsHighestBid
    <2>1. row'[m].price = row[m].price /\ row[m].status # "absent"
      BY <1>4, <1>6, <1>8
    <2> QED
      BY <1>2, <2>1, Zenon DEF TableInv, PriceIsHighestBid
  <1>15. WinnerInv'
    <2>1. ASSUME NEW m \in Lots, row'[m].status # "closed" PROVE row'[m].winner = Nobody
      BY <1>6, <1>8, <2>1 DEF TableInv, WinnerInv
    <2>2. ASSUME NEW m \in Lots, row'[m].status = "closed" PROVE Best(row'[m].winner, bids'[m])
      <3>1. CASE m = k
        BY <1>2, <1>4, <1>6, <1>8, <3>1
      <3>2. CASE m # k
        <4>1. row'[m] = row[m]
          BY <1>8, <3>2
        <4> QED
          BY <1>2, <2>2, <4>1, Zenon DEF TableInv, WinnerInv, WinnerIsHighestBidder, Best
      <3> QED
        BY <3>1, <3>2
    <2>3. WinnerIsHighestBidder'
      BY <2>2, Zenon DEF WinnerIsHighestBidder, Best
    <2> QED
      BY <2>1, <2>3, Zenon DEF WinnerInv
  <1>16. (\A p \in Bidders : BidderOK(p)') /\ (\A d \in Closers : CloserOK(d)')
    BY <1>1, <1>9, <1>10
  <1> QED
    BY <1>11, <1>12, <1>13, <1>14, <1>15, <1>16, Collect DEF TableInv

\* Every step keeps it, provided a transaction commits the row it inserted.
LEMMA TableStep ==
  ASSUME TypeInv, TableInv, [Next]_vars,
         \A q \in Bidders : pc[q] = "commit" => inserted[q] = {Mine(q)}
  PROVE  TableInv'
  <1>1. CASE Tick \/ UNCHANGED vars
    BY <1>1, QuietWorld
  <1>2. ASSUME NEW l \in Lots, NEW r \in Replicas,
               \/ \E t \in ClosingTimes, z \in Offsets :
                    CreateLot(l, r, t, z) \/ CreateReplyLost(l, r, t, z)
               \/ \E q \in Bidders, a \in Amounts : PlaceBid(q, l, r, a)
               \/ TimerFires(r, l)
        PROVE  TableInv'
    BY <1>2, ICreateLot, QuietBidder, QuietFires DEF TimerFires
  <1>3. ASSUME NEW q \in Bidders, BidderStep(q) \/ CancelBid(q) \/ CommitReplyLost(q)
        PROVE  TableInv'
    <2>1. CASE CommitBid(q) \/ CommitReplyLost(q)
      BY <2>1, ICommit DEF CommitBid, CommitReplyLost, Committed
    <2>2. CASE ~(CommitBid(q) \/ CommitReplyLost(q))
      BY <1>3, <2>2, IAdmitBid, ICreateBid, IUpdateBid, QuietBidder, QuietRollback DEF BidderStep
    <2> QED
      BY <2>1, <2>2
  <1>4. ASSUME NEW c \in Closers, CloserStep(c) \/ CloseReplyLost(c) \/ CloserFails(c)
        PROVE  TableInv'
    BY <1>4, IReadForClose, ICheckClosing, ICloseRow, QuietCloser DEF CloserStep
  <1>5. ASSUME NEW g \in Goroutines,
               ScheduleStep(g) \/ \E c \in Closers : FireUninstalled(g, c)
        PROVE  TableInv'
    BY <1>5, QuietSchedule, QuietFires
  <1>6. ASSUME NEW r \in Replicas, Stop(r) \/ Restart(r) \/ RestartBlind(r)
        PROVE  TableInv'
    BY <1>6, QuietStop, QuietWorld
  <1> QED
    BY <1>1, <1>2, <1>3, <1>4, <1>5, <1>6 DEF Next

-----------------------------------------------------------------------------
(* What an open transaction has inserted.                                  *)

\* Between its INSERT and its end a transaction holds the one row of the
\* attempt under way; at any other time it holds none.
InsertOK(q) == inserted[q] = IF pc[q] \in {"update", "commit"} THEN {Mine(q)} ELSE {}

InsertInv == \A q \in Bidders : InsertOK(q)

IInv == TableInv /\ InsertInv

LEMMA IInit == Init => IInv
  <1> SUFFICES ASSUME Init PROVE IInv
    OBVIOUS
  <1>1. InsertInv
    BY DEF Init, InsertInv, InsertOK, Goroutines
  <1> QED
    BY <1>1, TableInit DEF IInv

\* What the others do to the goroutine of a bid: nothing, unless its replica
\* stops.
LEMMA BidderMoves ==
  ASSUME TypeInv, [Next]_vars, NEW q \in Bidders
  PROVE  \/ Stays(q) /\ inserted'[q] = inserted[q] /\ now' >= now /\ now' \in Nat
         \/ \E l \in Lots, r \in Replicas, a \in Amounts : PlaceBid(q, l, r, a)
         \/ BidderStep(q) \/ CancelBid(q) \/ CommitReplyLost(q)
         \/ pc[q] \in {"arm", "install"} /\ pc'[q] \in {"install", "extended"}
            /\ inserted'[q] = inserted[q]
         \/ pc'[q] = "gone" /\ inserted'[q] = {}
  <1> DEFINE Moves ==
        \/ Stays(q) /\ inserted'[q] = inserted[q] /\ now' >= now /\ now' \in Nat
        \/ \E l \in Lots, r \in Replicas, a \in Amounts : PlaceBid(q, l, r, a)
        \/ BidderStep(q) \/ CancelBid(q) \/ CommitReplyLost(q)
        \/ pc[q] \in {"arm", "install"} /\ pc'[q] \in {"install", "extended"}
            /\ inserted'[q] = inserted[q]
        \/ pc'[q] = "gone" /\ inserted'[q] = {}
  <1> SUFFICES Moves
    OBVIOUS
  <1>1. /\ q \in Goroutines /\ q \notin Lots /\ q \notin Closers /\ now \in Nat
        /\ pc \in [Goroutines -> Places] /\ frame \in [Goroutines -> Frame]
        /\ inserted = [p \in Bidders |-> inserted[p]]
    BY DEF Goroutines, TypeInv, TypeOK
  <1>2. ASSUME now' = now, inserted'[q] = inserted[q], NEW g, g # q,
               \E p : pc' = [pc EXCEPT ![g] = p],
               \E f : frame' = [frame EXCEPT ![g] = f]
        PROVE  Moves
    BY <1>1, <1>2 DEF Stays
  <1>3. ASSUME now' >= now, now' \in Nat, inserted' = inserted, pc' = pc, frame' = frame
        PROVE  Moves
    BY <1>3 DEF Stays
  <1>4. CASE Tick \/ UNCHANGED vars
    <2>1. now' >= now /\ now' \in Nat
      BY <1>1, <1>4, SMT DEF Tick, vars
    <2> QED
      BY <1>3, <1>4, <2>1 DEF Tick, vars, threads, db
  <1>5. ASSUME NEW l \in Lots, NEW r \in Replicas, NEW t \in ClosingTimes, NEW z \in Offsets,
               CreateLot(l, r, t, z) \/ CreateReplyLost(l, r, t, z)
        PROVE  Moves
    <2>1. l # q /\ now' = now /\ inserted' = inserted
      BY <1>1, <1>5 DEF CreateLot, CreateReplyLost, Opened, world
    <2>2. pc'[q] = pc[q] /\ frame'[q] = frame[q]
      BY <1>1, <1>5, <2>1 DEF CreateLot, CreateReplyLost, Goto
    <2> QED
      BY <1>1, <2>1, <2>2 DEF Stays
  <1>6. ASSUME NEW l \in Lots, NEW r \in Replicas, NEW p \in Bidders, NEW a \in Amounts,
               PlaceBid(p, l, r, a)
        PROVE  Moves
    <2>1. CASE p = q
      BY <1>6, <2>1
    <2>2. CASE p # q
      BY <1>2, <1>6, <2>2 DEF PlaceBid, world, db
    <2> QED
      BY <2>1, <2>2
  <1>7. ASSUME NEW l \in Lots, NEW r \in Replicas, TimerFires(r, l)
        PROVE  Moves
    BY <1>1, <1>2, <1>7 DEF TimerFires, FireTimer, SpawnCloser, world, db
  <1>8. ASSUME NEW p \in Bidders, p # q, BidderStep(p) \/ CancelBid(p) \/ CommitReplyLost(p)
        PROVE  Moves
    <2>1. now' = now /\ (\E s : pc' = [pc EXCEPT ![p] = s])
      BY <1>8, Zenon DEF BidderStep, AdmitBid, RefuseBid, CreateBid, UpdateBid, RetryBid, CommitBid,
         BroadcastNewBid, BroadcastExtended, CancelBid, CommitReplyLost, Goto, Return, world
    <2>2. ASSUME ~ \E f : frame' = [frame EXCEPT ![p] = f] PROVE frame' = frame
      BY <1>8, <2>2, Zenon DEF BidderStep, AdmitBid, RefuseBid, CreateBid, UpdateBid, RetryBid, CommitBid,
         BroadcastNewBid, BroadcastExtended, CancelBid, CommitReplyLost, Goto, Return
    <2>2a. inserted'[q] = inserted[q]
      <3>1. CASE CreateBid(p) \/ CommitBid(p) \/ CommitReplyLost(p) \/ CancelBid(p) \/ RetryBid(p)
        BY <1>1, <1>8, <3>1
           DEF CreateBid, CommitBid, CommitReplyLost, Committed, CancelBid, RetryBid, RolledBack
      <3>2. CASE AdmitBid(p) \/ RefuseBid(p) \/ UpdateBid(p) \/ BroadcastNewBid(p)
                 \/ BroadcastExtended(p)
        BY <3>2 DEF AdmitBid, RefuseBid, UpdateBid, BroadcastNewBid, BroadcastExtended, db
      <3> QED
        BY <1>8, <3>1, <3>2 DEF BidderStep
    <2>3. Stays(q)
      <3>1. pc'[q] = pc[q]
        BY <1>1, <1>8, <2>1
      <3>2. frame'[q] = frame[q]
        BY <1>1, <1>8, <2>2
      <3> QED
        BY <3>1, <3>2 DEF Stays
    <2> QED
      BY <1>1, <2>1, <2>2a, <2>3
  <1>9. ASSUME NEW c \in Closers, CloserStep(c) \/ CloseReplyLost(c) \/ CloserFails(c)
        PROVE  Moves
    <2>1. now' = now /\ inserted' = inserted /\ (\E s : pc' = [pc EXCEPT ![c] = s])
      BY <1>9, Zenon DEF CloserStep, ReadForClose, CheckClosing, CloseRow, CloseReplyLost,
         Shut, CloseLost, ClearTimer, BroadcastClosed, CloserFails, Goto, Return, world, db
    <2>2. ASSUME ~ \E f : frame' = [frame EXCEPT ![c] = f] PROVE frame' = frame
      BY <1>9, <2>2, Zenon DEF CloserStep, ReadForClose, CheckClosing, CloseRow, CloseReplyLost,
         CloseLost, ClearTimer, BroadcastClosed, CloserFails, Goto, Return
    <2>3. Stays(q)
      <3>1. pc'[q] = pc[q]
        BY <1>1, <1>9, <2>1
      <3>2. frame'[q] = frame[q]
        BY <1>1, <1>9, <2>2
      <3> QED
        BY <3>1, <3>2 DEF Stays
    <2> QED
      BY <1>1, <2>1, <2>3
  <1>10. ASSUME NEW g \in Goroutines, ScheduleStep(g)
         PROVE  Moves
    <2>1. CASE ArmTimer(g) \/ InstallTimer(g)
      <3>1. CASE g # q
        BY <1>2, <2>1, <3>1 DEF ArmTimer, InstallTimer, world, db
      <3>2. CASE g = q
        BY <1>1, <2>1, <3>2 DEF ArmTimer, InstallTimer, Scheduled, db
      <3> QED
        BY <3>1, <3>2
    <2>2. ASSUME NEW c \in Closers, CloseAtOnce(g, c)
          PROVE  Moves
      <3>1. CASE g # q
        BY <1>1, <2>2, <3>1 DEF CloseAtOnce, Stays, world, db
      <3>2. CASE g = q
        BY <1>1, <2>2, <3>2 DEF CloseAtOnce, Scheduled, db
      <3> QED
        BY <3>1, <3>2
    <2> QED
      BY <1>10, <2>1, <2>2 DEF ScheduleStep
  <1>11. ASSUME NEW g \in Goroutines, NEW c \in Closers, FireUninstalled(g, c)
         PROVE  Moves
    <2>1. CASE g # q
      BY <1>1, <1>11, <2>1 DEF FireUninstalled, Stays, world, db
    <2>2. CASE g = q
      BY <1>1, <1>11, <2>2 DEF FireUninstalled, db, world, Stays
    <2> QED
      BY <2>1, <2>2
  <1>12. ASSUME NEW r \in Replicas, Stop(r)
         PROVE  Moves
    <2>1. CASE q \in Killed(r)
      BY <1>1, <1>12, <2>1 DEF Stop
    <2>2. CASE q \notin Killed(r)
      BY <1>1, <1>12, <2>2 DEF Stop, Stays
    <2> QED
      BY <2>1, <2>2
  <1>13. ASSUME NEW r \in Replicas, Restart(r) \/ RestartBlind(r)
         PROVE  Moves
    BY <1>1, <1>3, <1>13 DEF Restart, RestartBlind, threads, db
  <1> QED
    BY <1>4, <1>5, <1>6, <1>7, <1>8, <1>9, <1>10, <1>11, <1>12, <1>13, Zenon DEF Next

LEMMA InsertStep ==
  ASSUME TypeInv, InsertInv, [Next]_vars
  PROVE  InsertInv'
  <1> SUFFICES ASSUME NEW q \in Bidders PROVE InsertOK(q)'
    BY Zenon DEF InsertInv
  <1>1. /\ q \in Goroutines /\ pc \in [Goroutines -> Places] /\ frame \in [Goroutines -> Frame]
        /\ inserted = [p \in Bidders |-> inserted[p]]
    BY DEF Goroutines, TypeInv, TypeOK
  <1>2. InsertOK(q)
    BY DEF InsertInv
  <1>3. CASE Stays(q) /\ inserted'[q] = inserted[q]
    BY <1>2, <1>3 DEF Stays, InsertOK, Mine
  <1>4. CASE pc[q] \notin {"update", "commit"} /\ pc'[q] \notin {"update", "commit"}
             /\ inserted'[q] = inserted[q]
    BY <1>2, <1>4 DEF InsertOK
  <1>5. CASE pc'[q] \notin {"update", "commit"} /\ inserted'[q] = {}
    BY <1>5 DEF InsertOK
  <1>6. CASE CreateBid(q)
    <2>1. pc[q] = "insert" /\ pc'[q] = "update" /\ inserted'[q] = inserted[q] \cup {Mine(q)}
      BY <1>1, <1>6 DEF CreateBid, Goto
    <2>2. inserted[q] = {} /\ Mine(q)' = Mine(q)
      BY <1>2, <1>6, <2>1 DEF CreateBid, Goto, InsertOK, Mine
    <2> QED
      BY <2>1, <2>2 DEF InsertOK
  <1>7. CASE UpdateBid(q)
    <2> DEFINE x == Raised(Snap(q), frame[q].amount)
               y == NearWire(Snap(q))
               e == [frame[q] EXCEPT !.snap = x]
               f == [e EXCEPT !.extended = y]
    <2>1. /\ pc[q] = "update" /\ pc' = [pc EXCEPT ![q] = "commit"]
          /\ frame' = [frame EXCEPT ![q] = f] /\ inserted' = inserted
      BY <1>7 DEF UpdateBid
    <2>2. x \in Row
      BY <1>1, <2>1, AtWork, RaisedFields DEF Finished
    <2>3. frame[q] \in Frame /\ y \in BOOLEAN
      BY <1>1 DEF NearWire
    <2> HIDE DEF x, y
    <2>4. e \in Frame /\ e.amount = frame[q].amount /\ e.attempts = frame[q].attempts
      BY <2>2, <2>3, SMT DEF Frame
    <2> HIDE DEF e
    <2>5. f.amount = e.amount /\ f.attempts = e.attempts
      BY <2>3, <2>4, SMT DEF Frame
    <2> HIDE DEF f
    <2>6. pc'[q] = "commit" /\ frame'[q] = f /\ inserted'[q] = inserted[q]
      BY <1>1, <2>1
    <2> QED
      BY <1>2, <2>1, <2>4, <2>5, <2>6 DEF InsertOK, Mine
  <1>8. CASE AdmitBid(q) \/ RefuseBid(q) \/ BroadcastNewBid(q) \/ BroadcastExtended(q)
    <2>1. inserted' = inserted /\ pc[q] \notin {"update", "commit"}
      BY <1>8 DEF AdmitBid, RefuseBid, CanSelect, BroadcastNewBid, BroadcastExtended, db
    <2>2. pc'[q] \notin {"update", "commit"}
      BY <1>1, <1>8 DEF AdmitBid, RefuseBid, BroadcastNewBid, BroadcastExtended, Goto, Return
    <2> QED
      BY <1>4, <2>1, <2>2
  <1>9. CASE RetryBid(q) \/ CancelBid(q) \/ CommitBid(q) \/ CommitReplyLost(q)
    <2>1. inserted'[q] = {}
      BY <1>1, <1>9
         DEF RetryBid, CancelBid, RolledBack, CommitBid, CommitReplyLost, Committed
    <2>2. pc'[q] \notin {"update", "commit"}
      BY <1>1, <1>9 DEF RetryBid, CancelBid, CommitBid, CommitReplyLost, Goto, Return
    <2> QED
      BY <1>5, <2>1, <2>2
  <1>10. ASSUME NEW l \in Lots, NEW r \in Replicas, NEW a \in Amounts, PlaceBid(q, l, r, a)
         PROVE  InsertOK(q)'
    BY <1>1, <1>4, <1>10 DEF PlaceBid, db
  <1> QED
    BY <1>3, <1>4, <1>5, <1>6, <1>7, <1>8, <1>9, <1>10, BidderMoves DEF BidderStep

\* Every step keeps the invariant.
LEMMA IStep == TypeInv /\ IInv /\ [Next]_vars => IInv'
  <1> SUFFICES ASSUME TypeInv, IInv, [Next]_vars PROVE IInv'
    OBVIOUS
  <1>1. \A q \in Bidders : pc[q] = "commit" => inserted[q] = {Mine(q)}
    BY DEF IInv, InsertInv, InsertOK
  <1> QED
    BY <1>1, TableStep, InsertStep DEF IInv

LEMMA Invariant == Spec => [](TypeInv /\ IInv)
  BY TypeInit, TypeStep, IInit, IStep, PTL DEF Spec
=============================================================================
