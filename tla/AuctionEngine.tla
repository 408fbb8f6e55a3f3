--------------------------- MODULE AuctionEngine ---------------------------
(***************************************************************************)
(* The auction engine of internal/auction/engine.go, with the rows it      *)
(* keeps through internal/repository/postgres.go and the start-up and      *)
(* shutdown of cmd/goauction/main.go.                                      *)
(*                                                                         *)
(* Several replicas of the server share one database.  Each request and    *)
(* each timer callback is a goroutine with its own program counter and     *)
(* local variables; between two of its steps every other goroutine, the    *)
(* clock and the failures may act.  A goroutine serving the creation of    *)
(* lot l is named l, one serving a bid is named by its bidder, and one     *)
(* running closeLotByID is a member of Closers.                            *)
(***************************************************************************)
EXTENDS Integers

CONSTANTS
  Lots, Replicas,
  Bidders,            \* one PlaceBid request each
  Closers,            \* bound: closeLotByID goroutines alive at one time
  Nobody,
  Cent,               \* units in which amounts arrive, per cent stored
  Amounts,            \* what a request can offer, in those units
  StartPrice, MinStep,
  ClosingTimes,       \* what a seller can ask for
  Offsets,            \* zone offsets a closing time can arrive in
  SnipingWindow, SnipingExtension,
  RequestTimeout,     \* middleware.Timeout of main.go
  CommitDelay,        \* how long after it was sent a COMMIT may take effect
  MaxAttempts,        \* 3 in PlaceBid
  MaxTime,            \* bound of the clock
  LastBid,            \* bound: no request arrives later
  MaxFaults,          \* bound: crashes, database errors, lost replies
  Preempt,            \* may a timer fire before it is put in the map
  Locking             \* does the repository honour FOR UPDATE

ASSUME NamesAssumption ==
  /\ Nobody \notin Lots \cup Replicas \cup Bidders \cup Closers
  /\ Lots \cap Bidders = {} /\ Lots \cap Closers = {} /\ Bidders \cap Closers = {}
ASSUME MoneyAssumption ==
  Cent \in Nat \ {0} /\ Amounts \subseteq Nat /\ StartPrice \in Nat /\ MinStep \in Nat
ASSUME TimeAssumption ==
  /\ ClosingTimes \subseteq Nat /\ Offsets \subseteq Int
  /\ {SnipingWindow, SnipingExtension, RequestTimeout, CommitDelay} \subseteq Nat
  /\ {MaxTime, LastBid, MaxFaults} \subseteq Nat
  /\ MaxAttempts \in Nat \ {0} /\ Preempt \in BOOLEAN /\ Locking \subseteq BOOLEAN

VARIABLES
  now,        \* the clock the replicas and the database agree on
  up,         \* which replicas run
  faults,     \* failures so far
  forUpdate,  \* whether SELECT ... FOR UPDATE locks the row
  row,        \* table lots, committed
  bids,       \* table bids, committed
  inserted,   \* the rows each open transaction has added to table bids
  lock,       \* which transaction holds the row lock of a lot
  timers,     \* live timers in e.timers of each replica
  pc, frame   \* where each goroutine is, and its local variables

db      == <<row, bids, inserted, lock>>
threads == <<pc, frame>>
world   == <<now, up, faults, forUpdate>>
vars    == <<now, up, faults, forUpdate, row, bids, inserted, lock, timers, pc, frame>>

Goroutines == Lots \cup Bidders \cup Closers

NoTimer == -1

(***************************************************************************)
(* Money is DECIMAL(12,2): what is stored is the amount rounded to cents.  *)
(***************************************************************************)
Cents(x) == (2 * x + Cent) \div (2 * Cent)
Step == Cents(MinStep)

Row == [status : {"absent", "active", "closed"}, price : Nat, closing : Int,
        version : Nat, winner : Bidders \cup {Nobody}]
NoRow == [status |-> "absent", price |-> 0, closing |-> 0, version |-> 0, winner |-> Nobody]

(***************************************************************************)
(* The local variables of a goroutine: its replica, its lot id, its copy   *)
(* of the row, the request's amount and deadline, the loop counter of      *)
(* PlaceBid, the flag extended, and a timer it created but did not yet     *)
(* put in the map.                                                         *)
(***************************************************************************)
Frame == [home : Replicas \cup {Nobody}, lot : Lots \cup {Nobody}, snap : Row,
          amount : Nat, deadline : Nat, attempts : 0 .. (MaxAttempts - 1),
          extended : BOOLEAN, armed : Nat \cup {NoTimer}]
Serving(r, l) == [home |-> r, lot |-> l, snap |-> NoRow, amount |-> 0, deadline |-> 0,
                  attempts |-> 0, extended |-> FALSE, armed |-> NoTimer]
NoFrame == Serving(Nobody, Nobody)

\* The step a goroutine takes next, or how it ended.
Finished == {"idle", "accepted", "refused", "unknown", "gone"}
Places == Finished \cup
  {"begin", "insert", "update", "commit", "announce", "arm", "install", "extended",
   "read", "check", "close", "clear", "closed"}

Init ==
  /\ now = 0
  /\ up = [r \in Replicas |-> TRUE]
  /\ faults = 0
  /\ forUpdate \in Locking
  /\ row = [l \in Lots |-> NoRow]
  /\ bids = [l \in Lots |-> {}]
  /\ inserted = [q \in Bidders |-> {}]
  /\ lock = [l \in Lots |-> Nobody]
  /\ timers = [r \in Replicas |-> [l \in Lots |-> NoTimer]]
  /\ pc = [g \in Goroutines |-> "idle"]
  /\ frame = [g \in Goroutines |-> NoFrame]

-----------------------------------------------------------------------------
(* Moving a goroutine. *)

Lot(g)  == frame[g].lot
Snap(g) == frame[g].snap

Goto(g, p) == pc' = [pc EXCEPT ![g] = p] /\ UNCHANGED frame

Return(g, p) ==
  /\ pc' = [pc EXCEPT ![g] = p]
  /\ frame' = [frame EXCEPT ![g] = NoFrame]

\* go closeLotByID(l), or the callback of a timer for l, on replica r.
SpawnCloser(c, r, l) ==
  /\ pc[c] = "idle"
  /\ pc' = [pc EXCEPT ![c] = "read"]
  /\ frame' = [frame EXCEPT ![c] = Serving(r, l)]

Fault == faults < MaxFaults /\ faults' = faults + 1

-----------------------------------------------------------------------------
(* POST /lots: validation, INSERT, then scheduleClose on this replica.  The *)
(* column is TIMESTAMP without a zone, so the row keeps the wall clock the  *)
(* request wrote, while the timer is armed for the instant it meant.        *)

OpenRow(t) ==
  [status |-> "active", price |-> Cents(StartPrice), closing |-> t, version |-> 1,
   winner |-> Nobody]

Opened(l, r, t, z) ==
  /\ pc[l] = "idle" /\ up[r]
  /\ t >= now
  /\ row' = [row EXCEPT ![l] = OpenRow(t + z)]
  /\ UNCHANGED <<bids, inserted, lock, timers>>

CreateLot(l, r, t, z) ==
  /\ Opened(l, r, t, z)
  /\ pc' = [pc EXCEPT ![l] = "arm"]
  /\ frame' = [frame EXCEPT ![l] = [Serving(r, l) EXCEPT !.snap = OpenRow(t)]]
  /\ UNCHANGED world

\* The INSERT is durable but its reply is lost: the error returns before
\* scheduleClose, and the lot is active without a timer.
CreateReplyLost(l, r, t, z) ==
  /\ Opened(l, r, t, z)
  /\ Fault
  /\ Goto(l, "unknown")
  /\ UNCHANGED <<now, up, forUpdate>>

-----------------------------------------------------------------------------
(* POST /lots/{id}/bid: PlaceBid. *)

Request(r, l, a) ==
  [Serving(r, l) EXCEPT !.amount = a, !.deadline = now + RequestTimeout]

PlaceBid(q, l, r, a) ==
  /\ pc[q] = "idle" /\ up[r] /\ now <= LastBid
  /\ row[l].status # "absent"
  /\ pc' = [pc EXCEPT ![q] = "begin"]
  /\ frame' = [frame EXCEPT ![q] = Request(r, l, a)]
  /\ UNCHANGED <<world, db, timers>>

\* (mutant of Acceptable) The minimum step is not checked.
AcceptableAnyStep(lot, a) == lot.status = "active" /\ now <= lot.closing /\ a > Cent * lot.price

\* The checks of PlaceBid on the row it read, against the amount offered.
Acceptable(lot, a) ==
  /\ lot.status = "active"
  /\ now <= lot.closing
  /\ a > Cent * lot.price
  /\ a >= Cent * (lot.price + Step)

\* (mutant of CanSelect) The SELECT does not wait for the row lock.
CanSelectUnlocked(q) == pc[q] = "begin" /\ now <= frame[q].deadline

\* GetLotByID(ctx, lotID, true) returns: under FOR UPDATE it waits for the lock.
CanSelect(q) ==
  /\ pc[q] = "begin" /\ now <= frame[q].deadline
  /\ forUpdate => lock[Lot(q)] = Nobody

AdmitBid(q) ==
  /\ CanSelect(q)
  /\ Acceptable(row[Lot(q)], frame[q].amount)
  /\ lock' = IF forUpdate THEN [lock EXCEPT ![Lot(q)] = q] ELSE lock
  /\ pc' = [pc EXCEPT ![q] = "insert"]
  /\ frame' = [frame EXCEPT ![q].snap = row[Lot(q)]]
  /\ UNCHANGED <<world, row, bids, inserted, timers>>

RefuseBid(q) ==
  /\ CanSelect(q)
  /\ ~Acceptable(row[Lot(q)], frame[q].amount)
  /\ Return(q, "refused")
  /\ UNCHANGED <<world, db, timers>>

\* The row of table bids that this attempt of q writes.
Mine(q) == [by |-> q, amount |-> Cents(frame[q].amount), try |-> frame[q].attempts]

\* (mutant of CreateBid) The INSERT goes past the transaction.
CreateBidOutside(q) ==
  /\ pc[q] = "insert" /\ now <= frame[q].deadline
  /\ bids' = [bids EXCEPT ![Lot(q)] = @ \cup {Mine(q)}]
  /\ Goto(q, "update")
  /\ UNCHANGED <<world, row, inserted, lock, timers>>

\* INSERT INTO bids, seen by nobody else until the commit.
CreateBid(q) ==
  /\ pc[q] = "insert" /\ now <= frame[q].deadline
  /\ inserted' = [inserted EXCEPT ![q] = @ \cup {Mine(q)}]
  /\ Goto(q, "update")
  /\ UNCHANGED <<world, row, bids, lock, timers>>

\* (mutants of CanWrite, VersionMatches) The UPDATE ignores the row lock; it
\* lacks AND version = $8.
CanAlwaysWrite(g) == TRUE
AnyVersion(g) == TRUE

\* UPDATE lots ... WHERE id = $7 AND version = $8, once the row is not
\* locked by another transaction.
CanWrite(g) == lock[Lot(g)] \in {g, Nobody}

VersionMatches(g) == row[Lot(g)].version = Snap(g).version

\* (mutants of NearWire) Every bid moves the closing time; only a bid in
\* overtime does.
AlwaysNear(lot) == SnipingWindow > 0
OvertimeOnly(lot) == SnipingWindow > 0 /\ lot.closing < now

\* The anti-sniping test of PlaceBid.
NearWire(lot) == SnipingWindow > 0 /\ lot.closing - now <= SnipingWindow

\* The row PlaceBid writes, having read lot.
Raised(lot, a) ==
  [lot EXCEPT !.price = Cents(a), !.version = @ + 1,
              !.closing = IF NearWire(lot) THEN now + SnipingExtension ELSE @]

UpdateBid(q) ==
  /\ pc[q] = "update" /\ now <= frame[q].deadline
  /\ CanWrite(q) /\ VersionMatches(q)
  /\ lock' = [lock EXCEPT ![Lot(q)] = q]
  /\ pc' = [pc EXCEPT ![q] = "commit"]
  /\ frame' = [frame EXCEPT ![q].snap = Raised(Snap(q), frame[q].amount),
                            ![q].extended = NearWire(Snap(q))]
  /\ UNCHANGED <<world, row, bids, inserted, timers>>

Unlocked(q) == [l \in Lots |-> IF lock[l] = q THEN Nobody ELSE lock[l]]

\* Rollback: the row lock and the inserted bid are gone.
RolledBack(q) ==
  /\ lock' = Unlocked(q)
  /\ inserted' = [inserted EXCEPT ![q] = {}]
  /\ UNCHANGED <<row, bids>>

\* (mutant of TriesAgain) attempts <= 3.
TriesOnceMore(q) == frame[q].attempts + 1 <= MaxAttempts

\* attempts < 3 after attempts++.
TriesAgain(q) == frame[q].attempts + 1 < MaxAttempts

\* ErrOptimisticLock: roll back, then go round the loop or give up.
RetryBid(q) ==
  /\ pc[q] = "update" /\ now <= frame[q].deadline
  /\ CanWrite(q) /\ ~VersionMatches(q)
  /\ RolledBack(q)
  /\ IF TriesAgain(q)
     THEN /\ pc' = [pc EXCEPT ![q] = "begin"]
          /\ frame' = [frame EXCEPT ![q].snap = NoRow, ![q].attempts = @ + 1]
     ELSE Return(q, "refused")
  /\ UNCHANGED <<world, timers>>

\* COMMIT makes the new row and the inserted bid visible and releases the
\* lock.  The deadline is looked at when it is sent; it takes effect later.
Committed(q) ==
  /\ pc[q] = "commit" /\ now <= frame[q].deadline + CommitDelay
  /\ row' = [row EXCEPT ![Lot(q)] = Snap(q)]
  /\ bids' = [bids EXCEPT ![Lot(q)] = @ \cup inserted[q]]
  /\ inserted' = [inserted EXCEPT ![q] = {}]
  /\ lock' = Unlocked(q)

CommitBid(q) ==
  /\ Committed(q)
  /\ Goto(q, "announce")
  /\ UNCHANGED <<world, timers>>

\* The commit is durable but its reply is lost: PlaceBid returns the error.
CommitReplyLost(q) ==
  /\ Committed(q)
  /\ Fault
  /\ Return(q, "unknown")
  /\ UNCHANGED <<now, up, forUpdate, timers>>

\* The request's context ends (timeout, client gone) or the database fails
\* before the commit: the transaction rolls back.
CancelBid(q) ==
  /\ pc[q] \in {"begin", "insert", "update", "commit"}
  /\ RolledBack(q)
  /\ Return(q, "refused")
  /\ UNCHANGED <<world, timers>>

\* BroadcastToLot new_bid.
BroadcastNewBid(q) ==
  /\ pc[q] = "announce"
  /\ IF frame[q].extended THEN Goto(q, "arm") ELSE Return(q, "accepted")
  /\ UNCHANGED <<world, db, timers>>

\* BroadcastToLot lot_extended.
BroadcastExtended(q) ==
  /\ pc[q] = "extended"
  /\ Return(q, "accepted")
  /\ UNCHANGED <<world, db, timers>>

-----------------------------------------------------------------------------
(* scheduleClose, called by the creator of a lot, a bidder who extended it  *)
(* and a closer who came early, each for the closing time it holds.         *)

\* Where the caller of scheduleClose goes on.
Scheduled(g) ==
  CASE g \in Lots    -> "accepted"
    [] g \in Bidders -> "extended"
    [] g \in Closers -> "idle"

\* A bidder still has to announce the extension; the others are done.
Kept(g) == IF g \in Bidders THEN [frame[g] EXCEPT !.armed = NoTimer] ELSE NoFrame

Due(g) == Snap(g).closing <= now

\* A closer that ends leaves its name to the one it starts (c = g).
CloseAtOnce(g, c) ==
  /\ pc[g] = "arm" /\ (pc[c] = "idle" \/ c = g)
  /\ Due(g)
  /\ pc' = [pc EXCEPT ![g] = Scheduled(g), ![c] = "read"]
  /\ frame' = [frame EXCEPT ![g] = Kept(g), ![c] = Serving(frame[g].home, Lot(g))]
  /\ UNCHANGED <<world, db, timers>>

\* time.AfterFunc: the timer runs from here, though the map lacks it.
ArmTimer(g) ==
  /\ pc[g] = "arm"
  /\ ~Due(g)
  /\ pc' = [pc EXCEPT ![g] = "install"]
  /\ frame' = [frame EXCEPT ![g].armed = Snap(g).closing]
  /\ UNCHANGED <<world, db, timers>>

\* Under timersMu: stop the timer in the map, put the new one there, even
\* one that has fired already (armed = NoTimer).
InstallTimer(g) ==
  /\ pc[g] = "install"
  /\ timers' = [timers EXCEPT ![frame[g].home][Lot(g)] = frame[g].armed]
  /\ pc' = [pc EXCEPT ![g] = Scheduled(g)]
  /\ frame' = [frame EXCEPT ![g] = Kept(g)]
  /\ UNCHANGED <<world, db>>

FireTimer(r, l, c) ==
  /\ timers[r][l] # NoTimer /\ timers[r][l] <= now
  /\ timers' = [timers EXCEPT ![r][l] = NoTimer]
  /\ SpawnCloser(c, r, l)
  /\ UNCHANGED <<world, db>>

\* The timer a goroutine has created fires before it takes timersMu.
FireUninstalled(g, c) ==
  /\ Preempt
  /\ pc[g] = "install" /\ frame[g].armed # NoTimer /\ frame[g].armed <= now
  /\ pc[c] = "idle"
  /\ pc' = [pc EXCEPT ![c] = "read"]
  /\ frame' = [frame EXCEPT ![g].armed = NoTimer, ![c] = Serving(frame[g].home, Lot(g))]
  /\ UNCHANGED <<world, db, timers>>

-----------------------------------------------------------------------------
(* closeLotByID and CloseLot. *)

ReadForClose(c) ==
  /\ pc[c] = "read"
  /\ IF row[Lot(c)].status = "active"
     THEN /\ pc' = [pc EXCEPT ![c] = "check"]
          /\ frame' = [frame EXCEPT ![c].snap = row[Lot(c)]]
     ELSE Return(c, "idle")
  /\ UNCHANGED <<world, db, timers>>

\* (mutant of Highest) ORDER BY amount, ascending.
Lowest(S) == {b \in S : \A d \in S : d.amount >= b.amount}

\* ORDER BY amount DESC LIMIT 1: any of the bids no other bid exceeds.
Highest(S) == {b \in S : \A d \in S : d.amount <= b.amount}
HighestBidders(S) == IF S = {} THEN {Nobody} ELSE {b.by : b \in Highest(S)}

\* (mutant of CheckClosing) A closer that came early leaves it at that.
CheckWithoutRearm(c) ==
  /\ pc[c] = "check"
  /\ IF now < Snap(c).closing
     THEN Return(c, "idle")
     ELSE \E w \in HighestBidders(bids[Lot(c)]) :
            /\ pc' = [pc EXCEPT ![c] = "close"]
            /\ frame' = [frame EXCEPT ![c].snap.winner = w]
  /\ UNCHANGED <<world, db, timers>>

CheckClosing(c) ==
  /\ pc[c] = "check"
  /\ IF now < Snap(c).closing
     THEN Goto(c, "arm")
     ELSE \E w \in HighestBidders(bids[Lot(c)]) :
            /\ pc' = [pc EXCEPT ![c] = "close"]
            /\ frame' = [frame EXCEPT ![c].snap.winner = w]
  /\ UNCHANGED <<world, db, timers>>

Closed(lot) == [lot EXCEPT !.status = "closed", !.version = @ + 1]

Shut(c) ==
  /\ pc[c] = "close"
  /\ CanWrite(c) /\ VersionMatches(c)
  /\ row' = [row EXCEPT ![Lot(c)] = Closed(Snap(c))]
  /\ UNCHANGED <<bids, inserted, lock, timers>>

CloseRow(c) ==
  /\ Shut(c)
  /\ Goto(c, "clear")
  /\ UNCHANGED world

\* The UPDATE is durable but its reply is lost: CloseLot returns the error,
\* the timer stays in the map and nobody is told.
CloseReplyLost(c) ==
  /\ Shut(c)
  /\ Fault
  /\ Return(c, "idle")
  /\ UNCHANGED <<now, up, forUpdate>>

\* ErrOptimisticLock is logged; nobody tries again.
CloseLost(c) ==
  /\ pc[c] = "close"
  /\ CanWrite(c) /\ ~VersionMatches(c)
  /\ Return(c, "idle")
  /\ UNCHANGED <<world, db, timers>>

ClearTimer(c) ==
  /\ pc[c] = "clear"
  /\ timers' = [timers EXCEPT ![frame[c].home][Lot(c)] = NoTimer]
  /\ Goto(c, "closed")
  /\ UNCHANGED <<world, db>>

\* BroadcastToLot lot_closed.
BroadcastClosed(c) ==
  /\ pc[c] = "closed"
  /\ Return(c, "idle")
  /\ UNCHANGED <<world, db, timers>>

\* A database error on the way is logged; nobody tries again.
CloserFails(c) ==
  /\ pc[c] \in {"read", "check", "close"}
  /\ Fault
  /\ Return(c, "idle")
  /\ UNCHANGED <<now, up, forUpdate, db, timers>>

-----------------------------------------------------------------------------
(* Replicas, and the clock. *)

Killed(r) == {g \in Goroutines : frame[g].home = r}

\* Crash or shutdown: goroutines and timers are lost, open transactions roll
\* back.
Stop(r) ==
  /\ up[r] /\ Fault
  /\ up' = [up EXCEPT ![r] = FALSE]
  /\ pc' = [g \in Goroutines |->
              IF g \notin Killed(r) THEN pc[g] ELSE IF g \in Closers THEN "idle" ELSE "gone"]
  /\ frame' = [g \in Goroutines |-> IF g \in Killed(r) THEN NoFrame ELSE frame[g]]
  /\ lock' = [l \in Lots |-> IF lock[l] \in Killed(r) THEN Nobody ELSE lock[l]]
  /\ inserted' = [q \in Bidders |-> IF q \in Killed(r) THEN {} ELSE inserted[q]]
  /\ timers' = [timers EXCEPT ![r] = [l \in Lots |-> NoTimer]]
  /\ UNCHANGED <<now, forUpdate, row, bids>>

\* GetActiveLots: status = 'active' AND closing_at > NOW().
Restored(l) == row[l].status = "active" /\ row[l].closing > now

Restart(r) ==
  /\ ~up[r]
  /\ up' = [up EXCEPT ![r] = TRUE]
  /\ timers' = [timers EXCEPT ![r] =
                  [l \in Lots |-> IF Restored(l) THEN row[l].closing ELSE NoTimer]]
  /\ UNCHANGED <<now, faults, forUpdate, db, threads>>

\* GetActiveLots fails: logged, and the server serves without timers.
RestartBlind(r) ==
  /\ ~up[r] /\ Fault
  /\ up' = [up EXCEPT ![r] = TRUE]
  /\ UNCHANGED <<now, forUpdate, db, timers, threads>>

Tick ==
  /\ now < MaxTime
  /\ now' = now + 1
  /\ UNCHANGED <<up, faults, forUpdate, db, timers, threads>>

-----------------------------------------------------------------------------
BidderStep(q) ==
  \/ AdmitBid(q) \/ RefuseBid(q) \/ CreateBid(q) \/ UpdateBid(q) \/ RetryBid(q) \/ CommitBid(q)
  \/ BroadcastNewBid(q) \/ BroadcastExtended(q)

CloserStep(c) ==
  \/ ReadForClose(c) \/ CheckClosing(c) \/ CloseRow(c) \/ CloseLost(c)
  \/ ClearTimer(c) \/ BroadcastClosed(c)

ScheduleStep(g) ==
  \/ ArmTimer(g) \/ InstallTimer(g)
  \/ \E c \in Closers : CloseAtOnce(g, c)

TimerFires(r, l) == \E c \in Closers : FireTimer(r, l, c)

Next ==
  \/ Tick
  \/ \E l \in Lots, r \in Replicas :
       \/ \E t \in ClosingTimes, z \in Offsets : CreateLot(l, r, t, z) \/ CreateReplyLost(l, r, t, z)
       \/ \E q \in Bidders, a \in Amounts : PlaceBid(q, l, r, a)
       \/ TimerFires(r, l)
  \/ \E q \in Bidders : BidderStep(q) \/ CancelBid(q) \/ CommitReplyLost(q)
  \/ \E c \in Closers : CloserStep(c) \/ CloseReplyLost(c) \/ CloserFails(c)
  \/ \E g \in Goroutines : ScheduleStep(g) \/ \E c \in Closers : FireUninstalled(g, c)
  \/ \E r \in Replicas : Stop(r) \/ Restart(r) \/ RestartBlind(r)

Spec == Init /\ [][Next]_vars

(***************************************************************************)
(* The clock advances, the Go scheduler runs every goroutine, timers that  *)
(* are due fire, requests past their deadline are cancelled, and a stopped *)
(* replica is started again.  Nothing obliges anyone to create a lot, to   *)
(* bid or to give up early, and no failure has to happen.                  *)
(***************************************************************************)
Expire(q) == frame[q].deadline < now /\ CancelBid(q)

Fairness ==
  /\ WF_vars(Tick)
  /\ \A q \in Bidders : WF_vars(BidderStep(q)) /\ WF_vars(Expire(q))
  /\ \A c \in Closers : WF_vars(CloserStep(c))
  /\ \A g \in Goroutines : WF_vars(ScheduleStep(g))
  /\ \A r \in Replicas : WF_vars(Restart(r)) /\ \A l \in Lots : WF_vars(TimerFires(r, l))

FairSpec == Spec /\ Fairness
-----------------------------------------------------------------------------
(* Properties. *)

\* Every variable has its type; the loop counter of PlaceBid stays below its
\* limit however often a bid meets a newer version of the row.
TypeOK ==
  /\ now \in Nat /\ up \in [Replicas -> BOOLEAN] /\ faults \in Nat /\ forUpdate \in BOOLEAN
  /\ row \in [Lots -> Row]
  /\ bids \in [Lots -> SUBSET [by : Bidders, amount : Nat, try : Nat]]
  /\ inserted \in [Bidders -> SUBSET [by : Bidders, amount : Nat, try : Nat]]
  /\ lock \in [Lots -> Bidders \cup {Nobody}]
  /\ timers \in [Replicas -> [Lots -> Nat \cup {NoTimer}]]
  /\ pc \in [Goroutines -> Places]
  /\ frame \in [Goroutines -> Frame]

\* No update of the price is lost: whatever order bids commit in, lots.current_price
\* is the highest amount in table bids, or the start price when there is none.
PriceIsHighestBid ==
  \A l \in Lots : row[l].status # "absent" =>
    /\ \A b \in bids[l] : b.amount <= row[l].price
    /\ IF bids[l] = {} THEN row[l].price = Cents(StartPrice)
       ELSE \E b \in bids[l] : b.amount = row[l].price

\* CloseLot reads the bids and writes the winner in two statements outside a
\* transaction; still no bid committed in between can be robbed of the lot.
WinnerIsHighestBidder ==
  \A l \in Lots : row[l].status = "closed" =>
    IF bids[l] = {} THEN row[l].winner = Nobody
    ELSE \E b \in bids[l] : b.by = row[l].winner /\ \A d \in bids[l] : d.amount <= b.amount

\* While SELECT ... FOR UPDATE holds the row, the closer's concurrent UPDATE
\* included, no bid ever meets ErrOptimisticLock: the loop of PlaceBid runs once.
NoRetryUnderRowLock ==
  forUpdate => \A q \in Bidders : frame[q].attempts = 0

\* What the client is told is what the history shows: table bids has exactly
\* one row of a bid PlaceBid accepts and none of one it refuses, through the
\* INSERT, retries and rollbacks; only a lost commit reply leaves it open.
AnswerMatchesHistory ==
  \A q \in Bidders :
    /\ pc[q] = "accepted" =>
         \E l \in Lots : \E b \in bids[l] :
           b.by = q /\ \A k \in Lots : \A d \in bids[k] : d.by = q => k = l /\ d = b
    /\ pc[q] = "refused" => \A l \in Lots : \A b \in bids[l] : b.by # q

\* A closed lot is never reopened, repriced or bid on: a transaction that read
\* it as active and commits later fails.
NoBidAfterClose ==
  [][\A l \in Lots : row[l].status = "closed" =>
       row'[l] = row[l] /\ bids'[l] = bids[l]]_<<row, bids>>

\* A lot is closed only when the closing time it has at that moment is past,
\* also when it was extended after the closer read it.
NeverClosedEarly ==
  [][\A l \in Lots : row[l].status = "active" /\ row'[l].status = "closed" =>
       now >= row[l].closing]_row

\* Anti-sniping only ever moves the closing time of a lot later.
ClosingNeverEarlier ==
  [][\A l \in Lots : row[l].status = "active" =>
       row'[l].closing >= row[l].closing]_row

\* After every bid the others keep the shorter of window and extension to
\* answer, less the time the bid's request and its COMMIT may take: nothing
\* is left of it when the timeout is as long as the window.
AntiSnipingMargin ==
  [][\A l \in Lots : SnipingWindow > 0 /\ bids'[l] # bids[l] =>
       \/ row'[l].closing + RequestTimeout + CommitDelay >= now + SnipingWindow
       \/ row'[l].closing + RequestTimeout + CommitDelay >= now + SnipingExtension]_<<row, bids>>

\* Whoever has to close an active lot exists: a live timer, a goroutine about
\* to arm one, or a closer whose copy of the row is current.
InCharge(g, l) ==
  /\ Lot(g) = l
  /\ \/ pc[g] \in {"read", "arm", "install"}
     \/ pc[g] = "announce" /\ frame[g].extended
     \/ pc[g] \in {"check", "close"} /\ VersionMatches(g)

NeverStranded ==
  \A l \in Lots : row[l].status = "active" =>
    \/ \E r \in Replicas : timers[r][l] # NoTimer
    \/ \E g \in Goroutines : InCharge(g, l)

\* Every lot that is opened is closed in the end.
EventuallyClosed ==
  \A l \in Lots : row[l].status = "active" ~> row[l].status = "closed"

\* A lot that is active while a replica is down is closed in the end, by the
\* timers that replica restores when it restarts or by anyone else.
ClosedAfterRestart ==
  \A r \in Replicas, l \in Lots :
    (~up[r] /\ row[l].status = "active") ~> row[l].status = "closed"

\* A bid that is recorded raises the current price of its lot: "bid must be
\* higher than current price".
EveryBidRaisesPrice ==
  [][\A l \in Lots : bids'[l] # bids[l] => row'[l].price > row[l].price]_<<row, bids>>

-----------------------------------------------------------------------------
(* The abstract auction this engine implements. *)

Leader(l) ==
  IF bids[l] = {} THEN Nobody
  ELSE (CHOOSE b \in bids[l] : \A d \in bids[l] : d.amount <= b.amount).by

Promise == INSTANCE Auction WITH
  Start  <- Cents(StartPrice),
  Prices <- {Cents(a) : a \in Amounts},
  status <- [l \in Lots |-> row[l].status],
  price  <- [l \in Lots |-> row[l].price],
  leader <- [l \in Lots |-> Leader(l)],
  winner <- [l \in Lots |-> row[l].winner]

\* Committed rows change only the way the abstract auction allows: opened
\* once, raised by at least the minimum step, closed once for the leader.
ImplementsAuction == Promise!Spec
=============================================================================
