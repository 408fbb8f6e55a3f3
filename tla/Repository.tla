----------------------------- MODULE Repository -----------------------------
(***************************************************************************)
(* PostgresRepo under load: a bounded pool of connections, row locks, and  *)
(* requests of every kind that need them.  A bid runs in WithinTx and      *)
(* keeps one connection from BEGIN to COMMIT; everything else takes a      *)
(* connection per statement.  What the statements do to a lot is cut to    *)
(* what the lists and the profiles of the site show; AuctionEngine has the *)
(* rest.                                                                   *)
(***************************************************************************)
EXTENDS Integers, Sequences, FiniteSets

CONSTANTS
  Bidders, Closers, Creators, Walkers, Viewers,   \* one request (or walk) each
  Existing,    \* lots 1..Existing are there at the start
  MaxConns,    \* SetMaxOpenConns: 25
  MaxLimit,    \* rows of a page at most: 100
  Asked,       \* the limits people ask for, some of them above MaxLimit
  MaxViews,    \* bound: how often a viewer loads the profile
  MaxFaults,   \* bound: statements that fail, requests that time out
  None

Requests == Bidders \cup Closers \cup Creators \cup Walkers \cup Viewers

ASSUME RepositoryAssumption ==
  /\ MaxConns \in Nat \ {0} /\ MaxLimit \in Nat \ {0} /\ Existing \in Nat
  /\ Asked \subseteq Nat \ {0} /\ MaxViews \in Nat /\ MaxFaults \in Nat
  /\ IsFiniteSet(Requests) /\ None \notin Requests

VARIABLES
  lots,       \* committed rows: id -> [status, winner]; ids are in the order of created_at
  bids,       \* committed bids: id -> sequence of bidders, the price is their number
  stamp,      \* last created_at given out
  request,    \* each request: [stage, ...]
  conns,      \* requests that hold a connection
  locked,     \* row locks: id -> request or None
  faults

vars == <<lots, bids, stamp, request, conns, locked, faults>>

Ids == 1..(Existing + Cardinality(Creators))
Filters == {"all", "active", "closed"}

New == [stage |-> "new"]

\* NewPostgresRepo: a pool with no connection in use.
Init ==
  /\ lots \in [1..Existing -> {[status |-> "active", winner |-> None]}]
  /\ bids = [l \in Ids |-> <<>>]
  /\ stamp = Existing
  /\ request = [r \in Requests |-> New]
  /\ conns = {}
  /\ locked = [l \in Ids |-> None]
  /\ faults = 0

-----------------------------------------------------------------------------
(* The pool *)

At(r, stage) == request[r].stage = stage
Enter(r, rec) == request' = [request EXCEPT ![r] = rec]
Move(r, stage) == request' = [request EXCEPT ![r].stage = stage]
Done(r) == At(r, "done")

\* Mutant: one connection too many.
NearlyFree == Cardinality(conns) <= MaxConns

Free == Cardinality(conns) < MaxConns

\* database/sql waits here when all connections are in use.
Acquire(r) == r \notin conns /\ Free /\ conns' = conns \cup {r}

Unlock(r) == locked' = [l \in Ids |-> IF locked[l] = r THEN None ELSE locked[l]]

\* Mutant: a statement of a transaction is sent to the pool, not to the
\* transaction's connection.
OnAnother(r) == Free

\* exec: inside WithinTx the connection of the transaction.
OnTx(r) == r \in conns

\* Commit or Rollback.
EndTx(r) == conns' = conns \ {r} /\ Unlock(r)

\* Mutant: the rows stay open when a Scan fails.
LeftOpen(r) == UNCHANGED conns

\* The deferred rows.Close after an error.
RowsClosed(r) == conns' = conns \ {r}

\* The row is locked by nobody else.
MayLock(r, l) == locked[l] \in {None, r}

-----------------------------------------------------------------------------
(* Bids: WithinTx *)

Price(l) == Len(bids[l])

BeginTx(r) ==
  /\ At(r, "new") /\ Acquire(r)
  /\ \E l \in DOMAIN lots : Enter(r, [stage |-> "begun", lot |-> l])
  /\ UNCHANGED <<lots, bids, stamp, locked, faults>>

\* SELECT ... FOR UPDATE; a refused bid rolls back.
LockLot(r) ==
  LET l == request[r].lot IN
    /\ At(r, "begun") /\ OnTx(r) /\ MayLock(r, l)
    /\ IF lots[l].status = "active"
         THEN /\ locked' = [locked EXCEPT ![l] = r]
              /\ Move(r, "read")
              /\ UNCHANGED conns
         ELSE Move(r, "done") /\ EndTx(r)
    /\ UNCHANGED <<lots, bids, stamp, faults>>

\* CreateBid and UpdateLot, seen by others at the commit.
CreateBid(r) ==
  /\ At(r, "read") /\ OnTx(r) /\ Move(r, "inserted")
  /\ UNCHANGED <<lots, bids, stamp, conns, locked, faults>>

UpdateInTx(r) ==
  /\ At(r, "inserted") /\ OnTx(r) /\ Move(r, "updated")
  /\ UNCHANGED <<lots, bids, stamp, conns, locked, faults>>

Commit(r) ==
  /\ At(r, "updated") /\ Move(r, "done") /\ EndTx(r)
  /\ bids' = [bids EXCEPT ![request[r].lot] = Append(@, r)]
  /\ UNCHANGED <<lots, stamp, faults>>

-----------------------------------------------------------------------------
(* Closers: three statements, a connection each *)

Begin(r, from, to) ==
  /\ At(r, from) /\ Acquire(r) /\ Move(r, to)
  /\ UNCHANGED <<lots, bids, stamp, locked, faults>>

\* A timer fires for some lot.
StartClose(r) ==
  /\ At(r, "new") /\ Acquire(r)
  /\ \E l \in DOMAIN lots : Enter(r, [stage |-> "reading", lot |-> l])
  /\ UNCHANGED <<lots, bids, stamp, locked, faults>>

\* GetLotByID: a plain read, not held up by row locks.
GetLot(r) ==
  LET l == request[r].lot IN
    /\ At(r, "reading") /\ conns' = conns \ {r}
    /\ Enter(r, IF lots[l].status = "active"
                  THEN [stage |-> "open", lot |-> l, version |-> Price(l)]
                  ELSE [stage |-> "done"])
    /\ UNCHANGED <<lots, bids, stamp, locked, faults>>

Highest(l) == IF bids[l] = <<>> THEN None ELSE bids[l][Price(l)]

GetHighestBid(r) ==
  /\ At(r, "ranking") /\ conns' = conns \ {r}
  /\ request' = [request EXCEPT ![r] = [stage |-> "ranked", lot |-> @.lot, version |-> @.version,
                                        winner |-> Highest(@.lot)]]
  /\ UNCHANGED <<lots, bids, stamp, locked, faults>>

\* Mutant: the UPDATE has no look at the version.
AnyVersion(l, version) == lots[l].status = "active"

\* A bid and a closer raise the version.
SameVersion(l, version) == lots[l].status = "active" /\ Price(l) = version

\* UPDATE ... WHERE id AND version: waits for the row lock with a connection
\* in hand and touches no row that has changed.
UpdateLot(r) ==
  LET l == request[r].lot IN
    /\ At(r, "updating") /\ MayLock(r, l)
    /\ conns' = conns \ {r} /\ Move(r, "done")
    /\ IF SameVersion(l, request[r].version)
         THEN lots' = [lots EXCEPT ![l] = [status |-> "closed", winner |-> request[r].winner]]
         ELSE UNCHANGED lots
    /\ UNCHANGED <<bids, stamp, locked, faults>>

CloseLot(r) ==
  \/ StartClose(r) \/ GetLot(r)
  \/ Begin(r, "open", "ranking") \/ GetHighestBid(r)
  \/ Begin(r, "ranked", "updating") \/ UpdateLot(r)

-----------------------------------------------------------------------------
(* New lots: created_at is the time of the statement, not of its commit *)

\* The handlers refuse a lot without a title, with prices that are not positive
\* or with a closing time in the past before they come near the database.
RefuseLot(r) ==
  /\ At(r, "new") /\ Move(r, "done")
  /\ UNCHANGED <<lots, bids, stamp, conns, locked, faults>>

StartCreate(r) ==
  /\ At(r, "new") /\ Acquire(r)
  /\ stamp' = stamp + 1
  /\ Enter(r, [stage |-> "creating", lot |-> stamp + 1])
  /\ UNCHANGED <<lots, bids, locked, faults>>

CreateLot(r) ==
  /\ At(r, "creating") /\ conns' = conns \ {r} /\ Move(r, "done")
  /\ lots' = [l \in DOMAIN lots \cup {request[r].lot} |->
                IF l \in DOMAIN lots THEN lots[l] ELSE [status |-> "active", winner |-> None]]
  /\ UNCHANGED <<bids, stamp, locked, faults>>

-----------------------------------------------------------------------------
(* Lists *)

Matching(table, filter) ==
  {l \in DOMAIN table : filter = "all" \/ table[l].status = filter}

\* Mutant: the dearest first.
DearestFirst(l, m) == Price(l) > Price(m) \/ (Price(l) = Price(m) /\ l > m)

\* ORDER BY created_at DESC.  No two lots have the same created_at here: the
\* column is NOW() at the INSERT, in microseconds.  The query has no second key,
\* so that lots of one microsecond could change places between two pages.
Before(l, m) == l > m

\* Where a row stands in the order: the number of rows before it.
Rank(l, rows) == Cardinality({m \in rows : Before(m, l)})

\* GetAllLots: one statement, one snapshot.  The rows of a page: LIMIT of them,
\* but no more than MaxLimit, after the first OFFSET.
GetAllLots(filter, limit, offset) ==
  LET rows == Matching(lots, filter)
      last == offset + (IF limit > MaxLimit THEN MaxLimit ELSE limit) - 1
  IN  {l \in rows : Rank(l, rows) \in offset..last}

\* GET /api/lots page after page: somebody asks for limit rows from offset on
\* until a page comes back short.  start is what was there when the walk began.
StartWalk(r) ==
  /\ At(r, "new") /\ Acquire(r)
  /\ \E filter \in Filters, limit \in Asked :
       Enter(r, [stage |-> "listing", filter |-> filter, limit |-> limit, offset |-> 0,
                 seen |-> {}, start |-> lots])
  /\ UNCHANGED <<lots, bids, stamp, locked, faults>>

\* The rows are read to their end or to the first error (queryLots).
ListLots(r) ==
  LET w == request[r]  page == GetAllLots(w.filter, w.limit, w.offset) IN
    /\ At(r, "listing") /\ conns' = conns \ {r}
    /\ Enter(r, [w EXCEPT !.seen = @ \cup page,
                          !.offset = @ + w.limit,
                          !.stage = IF Cardinality(page) < w.limit THEN "done" ELSE "turning"])
    /\ UNCHANGED <<lots, bids, stamp, locked, faults>>

Walk(r) == StartWalk(r) \/ ListLots(r) \/ Begin(r, "turning", "listing")

-----------------------------------------------------------------------------
(* Profiles *)

\* Mutant: lots in which the user leads count as won.
Led(u) == {l \in DOMAIN lots : Highest(l) = u}

Won(u) == {l \in DOMAIN lots : lots[l].winner = u}

BidsOf(u, l) == {i \in DOMAIN bids[l] : bids[l][i] = u}

\* GetUserStats: one statement.  Its two COUNTs and its SUM are kept as what
\* they count and add up: the bids, the lots won and the price of each.
GetUserStats(u) ==
  [placed |-> [l \in Ids |-> BidsOf(u, l)],
   wins   |-> Won(u),
   spent  |-> [l \in Won(u) |-> Price(l)]]

NoStats == [placed |-> [l \in Ids |-> {}], wins |-> {}, spent |-> [l \in {} |-> 0]]

\* Somebody opens the profile of a user, and opens it again.
StartView(r) ==
  /\ At(r, "new") /\ Acquire(r)
  /\ \E u \in Bidders : Enter(r, [stage |-> "viewing", user |-> u, views |-> 0,
                                  shown |-> NoStats])
  /\ UNCHANGED <<lots, bids, stamp, locked, faults>>

UserProfile(r) ==
  LET v == request[r] IN
    /\ At(r, "viewing") /\ conns' = conns \ {r}
    /\ Enter(r, [v EXCEPT !.shown = GetUserStats(v.user), !.views = @ + 1,
                          !.stage = IF v.views + 1 < MaxViews THEN "shown" ELSE "done"])
    /\ UNCHANGED <<lots, bids, stamp, locked, faults>>

View(r) == StartView(r) \/ UserProfile(r) \/ Begin(r, "shown", "viewing")

-----------------------------------------------------------------------------
(* Errors *)

\* A statement fails, or the 30 seconds of the request are over while it waits
\* for a connection, for a row or for the database: an error is the answer,
\* and WithinTx rolls back.
Fail(r) ==
  /\ ~Done(r) /\ faults < MaxFaults
  /\ faults' = faults + 1
  /\ Enter(r, [stage |-> "done"])
  /\ IF r \in Bidders THEN EndTx(r) ELSE RowsClosed(r) /\ UNCHANGED locked
  /\ UNCHANGED <<lots, bids, stamp>>

-----------------------------------------------------------------------------
PlaceBid(r) == BeginTx(r) \/ LockLot(r) \/ CreateBid(r) \/ UpdateInTx(r) \/ Commit(r)

Step(r) ==
  \/ r \in Bidders  /\ PlaceBid(r)
  \/ r \in Closers  /\ CloseLot(r)
  \/ r \in Creators /\ (RefuseLot(r) \/ StartCreate(r) \/ CreateLot(r))
  \/ r \in Walkers  /\ Walk(r)
  \/ r \in Viewers  /\ View(r)

Next == \E r \in Requests : Step(r) \/ Fail(r)

\* As long as some request can go on, one does: the database answers, and
\* database/sql gives a connection that comes back to a request that waits.
Fairness == WF_vars(\E r \in Requests : Step(r))

Spec == Init /\ [][Next]_vars /\ Fairness

-----------------------------------------------------------------------------
(* Properties *)

\* Every variable keeps its type and the pool its limit.
TypeOK ==
  /\ DOMAIN lots \subseteq 1..stamp /\ stamp <= Cardinality(Ids)
  /\ \A l \in DOMAIN lots :
       lots[l].status \in {"active", "closed"} /\ lots[l].winner \in Bidders \cup {None}
  /\ \A l \in Ids : bids[l] \in Seq(Bidders)
  /\ conns \subseteq Requests /\ Cardinality(conns) <= MaxConns
  /\ locked \in [Ids -> Bidders \cup {None}]

\* No request that has its answer, good or bad, keeps a connection or a row
\* lock, and who has a row lock has the connection he needs to give it back
\* (postgres.go:76-90, 192-196, 256-260).
NothingLeftHeld ==
  /\ \A r \in conns : ~Done(r)
  /\ \A l \in Ids : locked[l] # None => ~Done(locked[l]) /\ locked[l] \in conns

\* Every request gets its answer, with all connections in use and bids
\* queueing for one row: nobody waits for a second connection with the first
\* in hand (postgres.go:33, 69-74, 76-90).
EveryRequestAnswered == <>(\A r \in Requests : Done(r))

\* Who pages through the list, in pages no larger than the server gives
\* (openapi.yaml:76), sees every lot that was there when he began, in spite of
\* new lots pushing the pages and of statements that commit late: rows only
\* move down.  Among the active ones he misses at most as many as were closed
\* during the walk, which moves rows up (postgres.go:132-162,
\* api/handlers.go:63-87).  Who asks for more is cut off at MaxLimit rows, and
\* takes the first page for the last.
WalkMissesNothing ==
  \A r \in Walkers : Done(r) /\ "seen" \in DOMAIN request[r] =>
    LET w == request[r]
        missed == Matching(w.start, w.filter) \ w.seen
        closed == Matching(lots, "closed") \ Matching(w.start, "closed")
    IN  w.limit <= MaxLimit =>
          Cardinality(missed) <= IF w.filter = "active" THEN Cardinality(closed) ELSE 0

\* Seen again, a profile still counts every bid and every lot won that it
\* counted before, each at the same price: no number on it falls
\* (postgres.go:231-249).
ProfileGrows ==
  \A r \in Viewers : "shown" \in DOMAIN request[r] /\ "shown" \in DOMAIN request'[r] =>
    LET old == request[r].shown  new == request'[r].shown IN
      /\ \A l \in Ids : old.placed[l] \subseteq new.placed[l]
      /\ old.wins \subseteq new.wins
      /\ \A l \in old.wins : old.spent[l] = new.spent[l]
ProfileOnlyGrows == [][ProfileGrows]_vars

\* The money a profile shows as spent is, lot by lot, the last and highest that
\* the user himself bid for the lots it shows as won, although closers read the
\* winner and write it in statements of their own (postgres.go:110-125,
\* 170-179, 231-249).
SpentIsOwnBids ==
  \A r \in Viewers : "shown" \in DOMAIN request[r] =>
    LET v == request[r] IN
      \A l \in v.shown.wins :
        /\ v.shown.spent[l] \in BidsOf(v.user, l)
        /\ \A i \in BidsOf(v.user, l) : i <= v.shown.spent[l]
=============================================================================
