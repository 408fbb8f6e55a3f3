# Verification of GoAuction

TLA+ specifications of the auction server of this repository, checked with TLC on
small instances, with theorems proved by TLAPS for every value of the constants.
The specifications are written from the source. Where a comment of theirs names a
function, it is the Go function of that name.

    tlc -workers 2 -config engine_bids.cfg MCAuctionEngine.tla    # a model-checking run
    tlapm AuctionEngineTheorems.tla                               # the proofs of a module

## 1. The system

| Part | State | Operations | Talks to |
|---|---|---|---|
| Auction engine, `internal/auction/engine.go` | `timers` per replica; local variables of each goroutine | `CreateLot`, `PlaceBid`, `CloseLot`, `closeLotByID`, `scheduleClose`, `clearTimer` | repository (transactions), hub (broadcasts), itself (timer callbacks) |
| Postgres repository, `internal/repository` | tables `lots`, `bids`, `users` | `WithinTx`, `GetLotByID` with `FOR UPDATE`, `UpdateLot` with a version test, `CreateBid`, `GetHighestBid`, `GetActiveLots`, queries | the database |
| Start-up and shutdown, `cmd/goauction/main.go` | – | restore timers, serve with a 30 s request timeout, stop | engine, repository |
| Handlers, `internal/api/handlers.go`, `internal/web/handlers.go` | – | validate, call the engine, render | engine, auth |
| WebSocket hub, `internal/api/websocket.go` | subscriptions under an `RWMutex` | subscribe, unsubscribe, `BroadcastToLot` | browsers |
| Live lot page, script in `views/lot.templ` | price, closing time and history shown | on message, reconnect | hub |
| Rate limiter, `internal/httpx/ratelimit.go` | buckets and last-seen times | `allow`, `gcLoop` | – |
| Accounts, `internal/auth/auth.go` | users, tokens | `Register`, `Login`, `ParseToken` | repository |
| Browser demo, `web/src` | `localStorage`, a cache and timers per tab | the engine again in TypeScript, bots | event bus |
| Metrics, configuration, views, deployment | – | – | – |

What is hard here is concurrency. In the server a bid is a goroutine that opens a transaction,
waits for a row lock, computes on what it read, writes, commits, broadcasts and
arms a timer. A timer callback is another goroutine that closes the lot with
separate statements and no transaction. Replicas share only the database. All this
goes on across crashes, lost replies, expired requests and clock ticks. What
makes each part correct:

- **engine and repository**: no lost update of the price; the highest bidder wins;
  a lot is closed once, not early, for good and eventually; anti-sniping leaves time
  to answer and only ever moves the closing time later; clients are told the truth;
  all of it is one implementation of a simple abstract auction;
- **start-up**: every lot that was open when the server stopped is closed in the end;
- **repository**: no connection or row lock outlives its request, a full pool never
  stops for good, and lists and profiles read between statements of others add up;
- **hub**: the map holds exactly the live connections, a failing connection costs no other
  its event, and broadcasts end unless a client stops reading;
- **live page**: what it shows is never invented, is final once the lot is closed, and is
  stale for known reasons only;
- **rate limiter**: never more than `burst + rate * t` requests admitted in time t under one
  key, and none refused under a key that waited;
- **accounts**: one account per email and name, no request in a borrowed name, no faster
  guessing of passwords under one key than the limiter allows;
- **demo**: in every tab an auction whose lots are closed in the end, though timers are
  clamped and tabs overwrite each other's store.

`PROJECT.json` lists the hazards, each at its line and with the properties about it.

## 2. Modules

| Module | What it holds |
|---|---|
| `Auction` | the abstract auction: `Open`, `Outbid`, `Close` on status, price, leader, winner; no database, goroutine or clock |
| `AuctionEngine` | the engine over the tables, with every goroutine, timer, replica and failure; its properties; the refinement mapping `Promise` |
| `Repository` | `PostgresRepo` under load: pool, transactions, row locks, lists and profiles |
| `WebSocketHub` | `WebSocketManager`: the `RWMutex`, the handlers of connections, broadcasts write by write |
| `LivePage` | a lot as its pages show it: two reads, a connection, messages, reloads, the bid form |
| `RateLimiter` | `httpx.RateLimiter`: buckets, refill, collector |
| `Gateway` | extends `RateLimiter` by accounts, tokens, cookies and the middleware of the routes |
| `DemoEngine` | the engine of `web/src` in several tabs over one `localStorage`; instantiates `Auction` per tab |
| `MC*` | the instances: symmetry sets and the values of structured constants |
| `AuctionEngineInvariant` | proofs: cents, rows, type correctness and the inductive invariant `IInv` |
| `AuctionEngineTheorems` | proofs: what the engine guarantees, and that it implements `Auction` |
| `RateLimiterTheorems` | proofs: types, budget and patience of the limiter |
| `WebSocketHubTheorems` | proofs: the map and the lock, order and delivery of events |
| `GatewayTheorems` | proofs: the gateway implements `RateLimiter`; accounts, tokens, guesses |
| `RepositoryTheorems` | proofs: the pool and the row locks, walks through the list, profiles |
| `LivePageTheorems` | proofs: what a page may show, and why it may be stale |
| `DemoEngineTheorems` | proofs: every open lot has its timer, and every tab implements `Auction` |

How they compose. `AuctionEngine` and `DemoEngine` both implement `Auction`. `Gateway`
extends `RateLimiter` and takes its steps whole, so that what is proved of the limiter
holds behind the routes. The others meet at an interface that one side establishes and the
other assumes: `AuctionEngine` broadcasts in steps that return, which is what
`WebSocketHub` shows when nobody stalls; `LivePage` takes from the engine that bids commit one
after the other at rising prices and that events are sent after the commit, and from the
hub that an event reaches the connections of its replica (`PriceIsHighestBid`,
`PassedMeansDelivered`); `Repository` repeats of a bid and a closer only when they hold a
connection and a row.

### How AuctionEngine corresponds to the code

- `row[l]` and `bids[l]` are the committed rows. `lock[l]` is the row lock a
  transaction holds. What a transaction has written but not committed is its rows
  `inserted[q]` of table bids and, of the lot, the goroutine's `frame` (its copy `snap` of the
  row, `amount`, `attempts`, `extended`). A row of `bids` carries the attempt that wrote it, so
  that a row an earlier attempt left behind would count as a second one.
- `timers[r][l]` is the closing time the live timer in `e.timers[l]` of replica r
  waits for, `NoTimer` when there is none or it has fired. `armed` in a frame is a
  timer that `time.AfterFunc` has started but `timersMu` has not yet let into the map.
- `pc[g]` is the next step of a goroutine. The creation of lot l runs as goroutine
  l, a bid as its bidder's, `closeLotByID` as a member of `Closers`.

| Code | Actions |
|---|---|
| `CreateLot` | `CreateLot` (validation, INSERT) or `CreateReplyLost`, then `ArmTimer`/`InstallTimer` or `CloseAtOnce` |
| `PlaceBid` | `PlaceBid` (request arrives), `AdmitBid` or `RefuseBid` (SELECT FOR UPDATE and checks), `CreateBid` (INSERT), `UpdateBid` or `RetryBid` (UPDATE with version test), `CommitBid`, `CommitReplyLost` or `CancelBid`, `BroadcastNewBid`, `scheduleClose`, `BroadcastExtended` |
| `scheduleClose` | `CloseAtOnce` (the closing time is past), `ArmTimer`, `InstallTimer`; `FireTimer`, `FireUninstalled` |
| `closeLotByID`, `CloseLot` | `ReadForClose`, `CheckClosing` (clock, highest bid), `CloseRow`, `CloseReplyLost` or `CloseLost`, `ClearTimer`, `BroadcastClosed`; `CloserFails` |
| `main` | `Stop`, `Restart` (GetActiveLots, timers), `RestartBlind` (the query failed) |
| the clock | `Tick` |

Goroutines interleave at every statement, lock, commit and broadcast.

Choices of the model:

- **Row lock.** `forUpdate` is chosen once, from `Locking`. With `TRUE` the SELECT
  waits for the lock, as in Postgres. With `FALSE` it does not, as in the mock
  repository of `engine_test.go`; then the version test alone must protect the row.
  An UPDATE waits for the row lock in both cases, and re-evaluates its version test
  on the committed row, as Postgres does under READ COMMITTED.
- **Money.** Requests offer whole units, `Cent` of them to a cent; the row keeps
  `Cents(x)`, rounded, as `DECIMAL(12,2)` does. Floating-point error and `NaN` are
  abstracted away.
- **Time.** One clock, on which replicas and database agree. Reading the clock twice
  within one step gives one value. `Offsets` are the zones a closing time can arrive
  in: `TIMESTAMP` keeps the wall clock and drops the zone. The server itself is taken
  to run in UTC.
- **Lost replies.** A statement or COMMIT can take effect and its reply be lost; the code
  then takes the path of an error. A creation leaves an active lot without a timer
  (engine.go:54-56), a bid stands though its bidder was told of an error, a closer leaves
  the timer in the map and tells nobody (engine.go:173-175).
- **A slow COMMIT.** The request's deadline is looked at when COMMIT is sent, not when the
  database executes it: a commit may come up to `CommitDelay` after the deadline.
- **Stop** is a crash or a shutdown. In both, closers and timers vanish and open
  transactions roll back; a request that was running ends as `gone`. A restart and
  its restoring of timers is one step.
- **Broadcasts** are steps that return. That they do is the hub's business.

### How the other modules correspond to the code

- **`Repository`.** `conns` is who holds one of the `MaxConns` connections, `locked` the row
  locks, `request[r].stage` the place of a request. `BeginTx` ... `Commit` are the statements
  of a bid inside `WithinTx`, on one connection; a closer's three statements, a page of
  `GetAllLots` and `GetUserStats` take a connection each (`Acquire`) and give it back. A walk
  through the list is a reader that asks for page after page until one comes back short; who
  asks for more than `MaxLimit` rows gets `MaxLimit`, takes that for a short page and stops, and
  nothing is promised to him (postgres.go:146-148).
  `created_at` is the time of the INSERT, not of its commit: `stamp`. No two lots share one:
  the column is `NOW()` in microseconds, and lots that did share one could change places
  between two pages, because the query has no second key (postgres.go:149). A lot is its status,
  its winner and its bidders in order; the price is their number. A page is the set of rows
  whose `Rank`, the number of rows before them in the order of `created_at`, lies in the window
  of `OFFSET` and `LIMIT`. `GetUserStats` keeps what its `COUNT` and `SUM` count and add up: the
  user's bids and lots won, and the price of each. `Fail` is any error or the
  request timeout, with the rollback or the deferred `rows.Close`.
- **`WebSocketHub`.** `subscriptions` is the map; `writer` and `readers` are the `RWMutex` with
  Go's rule that a waiting writer stops new readers. `HandleWebSocket` is `Upgrade`,
  `AskLock`, `Subscribe`, `ReadFails`, `AskLock`, `Unsubscribe`. `BroadcastToLot` is `Broadcast`,
  then `BeginWrite` and `WriteSucceeds` or `WriteFails` per connection, then `Return`. A write is
  two steps because two broadcasts hold the read lock together and may write to one
  connection at once; gorilla/websocket forbids that, and the model lets it deliver, garble,
  fail or panic. A panic is recovered in a request (`HandlerPanics`) and ends the process
  in a timer's goroutine (`CloserPanics`).
- **`LivePage`.** `Load` and `Render` are the two reads of `LotPage`; `Connect`, `Receive` and
  `Drop` the script in `lot.templ`; `Submit`, `AdmitForm`, `Refuse`, `Fail`, `Reread`, `Answer` the bid form. A bid, a form's or somebody
  else's, is admitted (`Admission`: row lock, status, clock) and later committed, rolled back or
  committed unheard. `overdue` is the clock past `closing_at` (`Expire`): from then on a bid is refused
  though the row is still active. `post` remembers why a bid was refused: by its price, because the
  lot is closed or its time over, or by an error; the form that comes back is that of a later read.
  Either read of `LotPage` may fail (`LoadFails`: the 404 or 500 page has no script), and so may that
  after a refusal (`RereadFails`).
  `txs` holds transactions that have begun: bids are listed by `created_at`, the start of
  their transaction, not by commit or amount. `missed` and `overtaken` are history variables
  that remember why a page may be stale.
- **`RateLimiter`.** One action per critical section: `Allow`, `Collect`. Tokens are counted in
  parts, so that rates are integers; a level is exact where the code's float is rounded.
  `opened` and `count` are an observer who may start counting at any instant.
- **`Gateway`.** Every request names its key, `X-Forwarded-For` or the address it comes from
  (ratelimit.go:91-99): a client may change keys from request to request and share them with
  others. A text is a word and how it is typed (plain, in capitals, padded). A slow
  request is three steps: `Submit` (limiter), `Register` or `Login` (bcrypt and statement),
  `Deliver` or `LoseAnswer`. `PlaceBid` is the chain of middleware in front of a bid. Tokens
  are what `ParseToken` returns of them; signatures and bcrypt are taken for correct.
- **`DemoEngine`.** An action is a task of the event loop. `cache[t]` is a tab's copy, read once
  (`Boot`) and saved whole to `disk` at every change (`Save`); `timers` and `micro` are its
  timeouts, cut to `MaxDelay`, and queued microtasks.

## 3. Model-checking runs

| Run | Instance | Shows |
|---|---|---|
| `engine_bids` | 1 lot, 1 replica, 2 bidders, 1 closer at a time, 3 amounts, both values of `forUpdate`, no failures; 1270000 states, depth 39 | `TypeOK`, `PriceIsHighestBid`, `WinnerIsHighestBidder`, `NoRetryUnderRowLock`, `ClosingNeverEarlier`, `AntiSnipingMargin`, `ImplementsAuction` |
| `engine_closers` | 1 lot, 2 replicas, 1 bidder, 2 closers, 2 failures, zones 0 and 1; symmetric in replicas and closers; 538000 states, depth 36 | `AnswerMatchesHistory`, `NoBidAfterClose`, `NeverClosedEarly`; fires every action |
| `engine_liveness` | 1 lot, 1 replica, 2 bidders, 2 closers, no failures, COMMITs in time, fair; 288000 states | `NeverStranded`, `EventuallyClosed` |
| `find_lostclose`, `find_restart`, `find_subcent` | 1 bidder | counterexamples, section 5 |
| `repository` | 2 bids, 1 closer, 1 new lot, 1 reader of lists or profiles on 2 lots and 2 connections, 1 failure; fair; 740000 states | `TypeOK`, `NothingLeftHeld`, `WalkMissesNothing`, `SpentIsOwnBids`, `ProfileOnlyGrows`, `EveryRequestAnswered` |
| `hub` | 2 lots, 2 connections of which one may stall, a request's and a timer's goroutine, 2 broadcasts; fair; 191000 states | `TypeOK`, `RegistryIsExact`, `NoWriteAfterReturn`, `PassedMeansDelivered`, `EventsInOrder`, `BroadcastsEnd`, `LeaversForgotten` |
| `live_page` | 1 page, 2 replicas, 2 bids, 1 failure (connection, reply, transaction, request, restart); fair; 1450000 states | `TypeOK`, `ClosedPageIsFinal`, `RefusalIsExplained`, `StaleForAReason`, `ClosingReachesPage` |
| `find_stale` | 1 page, 1 replica, no faults | counterexample, section 5 |
| `gateway` | 2 clients, 2 keys, 4 forms, 2 accounts, both limiters; symmetric in clients and keys; 312000 states | `TypeOK`, `WithinBudget`, `OneAccountPerAddress`, `GuessesAreLimited`, `PatientAdmitted`, `BidsOnlyForSelf` |
| `demo` | 2 tabs, 1 lot, 2 users, clock to 5, timeouts cut to 2; fair; 78000 states | `TypeOK`, `ArmedWhileOpen`, `EachTabIsAnAuction`, `ClosedInTheEnd` |

Bounds of the engine's runs, and why they are enough:

- One lot: no action relates two lots but through `up` and the clock.
- Two bidders: every conflict in the code is between one transaction and one other
  goroutine. In `engine_bids` both of them meet a closer as well.
- `MaxAttempts` is 2 (3 in the code). One retry that succeeds and one that exhausts
  the loop both occur; the theorems hold for every number.
- `Closers` bounds how many `closeLotByID` goroutines are alive together, not how
  many run in all. With the bound reached a timer fires late, as it may in Go.
- Each bidder places one bid. `LastBid` stops new requests so that the clock,
  bounded by `MaxTime`, can pass every closing time they lead to.
- `MaxFaults` counts crashes, database errors in closers, lost replies (of a creation, a commit
  or a close) and failed restarts together. `CancelBid` (client gone, request timeout, database error before
  the commit) is not counted: it can always happen.
- `ClosingNeverEarlier` is checked with an extension as long as the window, the
  default (30 s each, `config.go`). `NeverStranded` also needs a window no shorter
  than the request timeout and `CommitDelay` together; at the defaults that leaves a COMMIT no
  delay at all, and `engine_liveness` has `CommitDelay = 0`.
- `AntiSnipingMargin` is checked where window, extension, timeout and delay are 1: what it leaves the
  others is the shorter of window and extension less the two delays. At the defaults (30 s each)
  that is nothing: a bid that waits its whole timeout for the row may commit as
  late as the closing time it computed. A bid that commits at once leaves the whole extension.

Bounds of the other runs:

- `repository`: two bids on two connections are the smallest load that fills the pool while
  one of them waits for the other's row; the closer, the new lot and the readers then queue
  behind them. Pages of one row and of two make walks that end exactly at, and past, the
  last row.
- `hub`: two goroutines meet on a connection, one connection fails while the other does not, and
  a writer waits for both. One lot more than goroutines need shows events of the wrong lot.
- `live_page`: two bids are what can be swapped, two replicas what can miss each other.
  `PageRows = 1` makes the list of bids overflow. The page may be reloaded any number of times.
- `gateway`: the second key is in use only early in a run (`SecondKeyEarly` in `MCGateway`: until time 1,
  before anybody bids or holds a session); with one key for all, nothing is left out. Two keys
  are enough to let one client change keys while another shares one of them; the theorems hold
  for any number and at any time. A bucket of one and a half requests for `auth` and of one for `bid` tells a part of
  a token from a whole one; two ticks of the clock refill a bucket, let a token expire and
  let the collector run.
- `demo`: `MaxDelay = 2` of 5 makes a timeout wake early twice; an extension longer than the
  window moves a closing time past a timer that is already set.

`CHECK_DEADLOCK FALSE` in all runs: requests, transactions and the clock are bounded, and a bounded
world comes to rest. In the engine's runs, once the clock has reached its bound and every request and
closer has ended, nothing is left to do.

`NeverStranded` is checked with `Preempt = FALSE`: no goroutine is held, between
`time.AfterFunc` and taking `timersMu`, for as long as the timer it has just created
runs. With `Preempt = TRUE` (as in the safety runs) TLC finds it violated: the timer
of a creation fires uninstalled, a bid extends the lot and installs its own timer,
and the late creation then stops that timer and puts its dead one in the map. The
hazard is real but needs a goroutine preempted for the whole duration of a timer.
Theorem `NobodyStranded` proves it of every instance under `Timely`: no failure, no such
preemption, a window that is positive and no shorter than the extension nor than the request
timeout and `CommitDelay` together, and no closing time stored later than it was meant. The
defaults are 30 s for window, extension and timeout (`config.go:15-16`, `main.go:73`): they meet it only
as long as no COMMIT takes effect after the deadline of its request. The condition is needed: with
an extension longer than the window, a bid can extend a lot whose creator, or whose last
extender, has not yet taken `timersMu`; that goroutine then puts its earlier timer in the place of
the later one, and the closer it starts finds the lot not yet due, or its copy outdated
by a bid that commits without extending, and gives up.

## 4. Fairness

`FairSpec` asks for weak fairness of `Tick` (time passes), of every step of a bidder,
a closer and of `scheduleClose` (the Go scheduler runs every goroutine), of
`TimerFires` for each lot and replica (the runtime fires due timers), of `Expire`
(`middleware.Timeout` ends a request, `database/sql` rolls its transaction back) and
of `Restart` (the supervisor of the deployment). Weak fairness is enough: none of
these is disabled by others for ever, because every transaction ends by its commit
or its deadline. There is no fairness of `CreateLot`, `PlaceBid`, of giving up before
the deadline, or of any failure: nobody is obliged to do those. A COMMIT that is late may be
overtaken by the cancelling of its request; either of the two ends the transaction.

In the other modules:

- `Repository`: weak fairness of all steps together. As long as some request can go on one does; that
  alone must bring every request, each of which has finitely many steps, to its answer.
- `WebSocketHub`: weak fairness of the goroutine of each broadcast; strong fairness of each handler,
  because the handlers compete for the write lock and `sync.RWMutex` starves nobody (a
  waiting writer stops new readers, and a mutex is handed to who waited longest). A client
  that stalls is under no obligation: the liveness properties except it by name.
- `LivePage`: weak fairness of what a browser does by itself: render, receive, reload. A request is
  answered, but the answer may be an error page, which `ClosingReachesPage` names as an outcome.
- `DemoEngine`: weak fairness of the clock, of due timers and of microtasks.

`Gateway` and `RateLimiter` state no liveness: all they promise is at most, and at once.

## 5. Findings

- `find_restart`: README.md:27 says "Auto-close timers restored on restart".
  `GetActiveLots` asks for `closing_at > NOW()`, so a lot that expires while the server
  is down gets no closer at all. It refuses bids and stays active for ever.
- `find_lostclose`: README.md:27 promises that lots close by themselves ("Auto-close timers restored on
  restart"); README.md:25 has "Optimistic locking + bounded retry" for bids. The closer's
  UPDATE shares the lock but not the retry. With `SNIPING_WINDOW=0`, a bid
  admitted in time that commits between the closer's read and its UPDATE makes the
  closer give up, and no timer is left. With anti-sniping on, that bid extends the lot and
  arms a new timer, which is why `engine_liveness` passes.
- `find_subcent`: engine.go:94 says "bid must be higher than current price". The
  comparison is on floats, the column keeps cents. With a minimum step that
  rounds to 0.00, a bid is recorded that leaves the price where it was. Theorem `BidRaisesPrice` says when this cannot happen.
- `find_stale`: api/openapi.yaml:173-174 says of the feed "Upgrade to a WebSocket and receive JSON
  events as they happen". `PlaceBid` broadcasts after the commit and outside any lock, so the
  events of two bids may arrive in the opposite order of their commits. The page takes the
  price of the last message (`lot.templ`), so that one page on one replica whose connection never broke shows
  the lower price until the next bid. `StaleForAReason` in `live_page` says that this, and
  an event sent while the page was not connected to the replica that sent it, are all the reasons there are.

## 6. Proofs

### The engine

All theorems of this part hold for every set of lots, replicas, bidders and closers, every amount,
clock bound and number of failures, with and without `FOR UPDATE`, from the named
assumptions of `AuctionEngine` alone (names are distinct, quantities are natural
numbers, `Cent` and `MaxAttempts` are positive).

| Theorem | States |
|---|---|
| `TypeCorrect` | `Spec => []TypeOK` |
| `PriceCorrect`, `WinnerCorrect`, `NoRetry` | the three safety invariants of `engine_bids` |
| `ClosedForGood`, `ClosedInTime` | `NoBidAfterClose`, `NeverClosedEarly` |
| `AnswersAreTrue` | `AnswerMatchesHistory` |
| `MarginKept` | `AntiSnipingMargin` |
| `NobodyStranded` | `NeverStranded`, under `Timely` (section 3) |
| `OnlyLater` | `ClosingNeverEarlier`, when the extension is at least the window |
| `BidRaisesPrice`, `Refinement` | `EveryBidRaisesPrice` and `ImplementsAuction`, when the minimum step is at least a cent |

The argument. None of the properties is inductive: each speaks of committed rows
only, while the next commit depends on what some goroutine remembers. `IInv` says
what it remembers is worth:

- `LockInv`: who holds a row lock is a transaction under way on that lot, and whoever is
  about to commit holds it (so nobody else can change the row under it);
- `AdmittedOK`: a bid whose copy has the current version has the current row, and passed the checks on it;
- `WrittenOK`: what a bid is about to commit raises the row it replaces by the
  step, in the next version;
- `CopyOK`, `ChosenOK`: the same for a closer, and the winner it chose from an
  earlier read is still right if the version is: every commit of a bid moves the version, so the version test of one UPDATE also guards the other statement's read;
- `OpenInv`, `WinnerInv`: no row, no bids; no winner before the close;
- `InsertInv`: what an open transaction has put into table bids is the one row of its present attempt
  from the INSERT on, and nothing before it or after a rollback. So a commit adds one row, and
  the parts above, which make up `TableInv`, may speak of `Mine(q)` in place of whatever was inserted.

Most steps touch neither tables nor locks: lemma `Quiet` covers them all
(goroutines stay, or leave for a place about which `IInv` says nothing, and take their
locks with them). The four that do (`ICreateLot`, `ICommit`, `ICloseRow`, and the
UPDATE that takes the lock) are proved one by one, with `OthersOverrun` for what they
do to everyone else. `WhoWrites` then reduces every action property, and the
refinement, to a creation (`Opened`), a commit (`Committed`) and a close (`Shut`), whether or not
the reply arrives. The refinement needs one more
invariant, `Distinct`: no two bids on a lot are equal, so `ORDER BY amount DESC LIMIT 1` has one answer.
`IInv` was first checked with TLC on the instances of `engine_bids` and `engine_closers`.

`AnswersAreTrue` rests on `HistoryInv`: before its commit a bid has no row in the table, after it, at every
later place of its goroutine, exactly one (`Single`). `MarginKept` adds that until its commit a bid has at most its
timeout and `CommitDelay` left, and that the closing time it is about to write leaves the window or the extension from the
moment that timeout began (`MarginOK`). `NobodyStranded` needs more, since a timer that is
replaced, or a closer that gives up, strands a lot much later. `CalmInv` says for every lot:
as long as its closing time is more than a window away, or a bid that saw it so is
about to commit (`Early`), nobody but its creator touches its timer and no timer is early
(`Untouched`); and an active lot is always attended (`Attended`). A bid that extends
comes when the closing time is near, so that from then on every commit either extends
again, and arms a timer, or came in before the window, and ends, with its request, before the lot closes
(`WrittenInTime`); that is where the request timeout and `CommitDelay` enter. `Follows` says what a step of one goroutine may
do to a lot, and is proved action by action.

### The limiter and the gateway

These hold for every number of scopes, clients and keys, every rate, burst, token
life, set of forms and bound, from `LimiterAssumption` (a full bucket admits a request and refills
within `GcAfter`) and `GatewayAssumption`.

| Theorem | States |
|---|---|
| `LimiterTypeCorrect` | `LimiterSpec => []LimiterTypeOK` |
| `NeverOverBudget`, `PatienceIsRewarded` | `WithinBudget`, `PatientAdmitted` |
| `GatewayLimits`, `GatewayBudget` | `Spec => LimiterSpec`, and so `[]WithinBudget` behind the routes |
| `NoOrphanTokens` | `Spec => []TypeOK` |
| `AccountsDiffer`, `NoBorrowedName` | `OneAccountPerAddress`, `BidsOnlyForSelf` |
| `GuessesBounded` | `GuessesAreLimited` |

`WithinBudget` is not inductive: it says nothing of what is still in a bucket. `Budget` adds that,
in requests and tokens together. A request moves a token from one to the other (`AllowLevel`),
a tick adds at most the rate to both sides (`TickLevel`), and the collector changes nothing: whom it
forgets had time to fill the bucket (`CollectLevel`, the one place that needs
`Burst <= Rate * GcAfter`; main.go's five minutes are ample).

`NoBorrowedName` and `NoOrphanTokens` rest on `HandInv`: every token in an answer, a cookie jar or
a header was backed by a row and a password given no earlier than its life ago. The only
steps that put a token into somebody's hand are `Register` and `Login` (`IssueSession`); all
others hand on or drop. `TableInv` adds that rows are normalised, so that the comparison of
the UNIQUE columns is the comparison of what people mean. `GuessesBounded` counts, key by key, comparisons
made and pending (`GuessInv`): each was let in by the limiter under that key since the count began, or
was past it then. It is a bound per key and not per person: nothing in the code limits how many keys the
requests of one client may have (ratelimit.go:91-95), and no theorem says anything about that.

### The hub

These hold for every number of lots, connections, goroutines, closers, stalling clients and
broadcasts, from `HubAssumption` (names are distinct, closers are goroutines), and whatever the
library does with two writers at once.

| Theorem | States |
|---|---|
| `RegistryExact`, `NoLateWrite` | `RegistryIsExact`, `NoWriteAfterReturn` |
| `InOrder` | `EventsInOrder` |
| `Delivered` | `PassedMeansDelivered` |
| `HubTypes` | `TypeOK` |

`LockInv` says that the read lock is held by exactly the goroutines that are in the loop and that nobody else
has work left. Subscribing and leaving need `readers = {}`, so they
meet empty lists, and nobody on a list can return. `EventInv` adds `PastInv`: of an
event that a client has, its goroutine is past that client in the call of that number, so whatever it still writes there is later.
`DeliveredInv` is `PassedMeansDelivered` with the reason of a clash: the target of a write that
overlapped another has been spoiled. The map cannot gain a connection during a loop
(`DeliveredNobodyWrites`), so a connection is passed only by a write that ends
(`DeliveredWrite`).

### The live page

These hold for every number of replicas, pages, bids and faults and every length of the list, from
`PageAssumption` (`None` is no replica, a list has room for a row).

| Theorem | States |
|---|---|
| `PageTypeOK` | `TypeOK` |
| `ClosedPagesAreFinal` | `ClosedPageIsFinal` |
| `RefusalsAreExplained` | `RefusalIsExplained` |
| `PagesAreStaleForAReason` | `StaleForAReason` |

Lemma `LotGrows` says once what all of them need: prices and extensions only grow, and nothing
changes after the close. `MsgInv` and `ShownInv` then say that no message announces and no page shows what was not
committed, `FinalInv` that a page which read a closed row has the last word, `FormInv`
that a form refused because of its price proposed no more than the price, and that one refused because
the lot was closed or its time over was refused when nobody held the row. From then on the price is final (`Over`,
`OverStays`): a bid needs the time, and an extension needs a bid. The form may still be active and propose the very
amount just refused, until a closer has written its row; `RefusalIsExplained` does not deny it.
`StaleForAReason` speaks of a page with nothing on its way; its strengthening `FeedInv` speaks
of all: every bid and extension that a page does not show is in its channel or in the hands
of a goroutine that has yet to send it, unless the page missed a message or an older one
came last. `missed` and `overtaken` are set at the steps that lose or reorder, and nowhere else.

### The demo

These hold for every number of tabs, lots and users, every window, extension and longest timeout, from
`DemoAssumption` (a starting price is possible, `Never` is no time, a timeout and an extension take time).

| Theorem | States |
|---|---|
| `DemoTypes` | `TypeOK` |
| `AlwaysArmed` | `ArmedWhileOpen` |
| `TabsAreAuctions` | `EachTabIsAnAuction` |

`DemoInv` says of a store, on disk or in a tab, that the bids on a lot rise strictly and none is above its price,
so that the last one leads (`Good`); and of a tab that its
timers and microtasks are for lots it knows, that no microtask comes before its time, and that each open lot
has one of them. The clamped timeout is the case in point: a callback that comes early finds the lot open and sets
another one (`schedule`), and one that comes in time closes it.

### The repository

These hold for every finite number of requests of each kind, every size of the pool and of a page, every list of
limits asked for (`NothingMissed` speaks of the walks in pages of at most `MaxLimit`), and any number of
failures, from `RepositoryAssumption`.

| Theorem | States |
|---|---|
| `RepositoryTypes` | `TypeOK`, with the size of the pool |
| `NothingKept` | `NothingLeftHeld` |
| `NothingMissed` | `WalkMissesNothing` |
| `SpentIsOwn`, `ProfilesGrow` | `SpentIsOwnBids`, `ProfileOnlyGrows` |

`IInv` was first checked with TLC on the instance of `repository`. Its parts:

- `PoolInv` and `LockInv`: a request holds a connection exactly in the stages of a statement or a
  transaction, and a row lock exactly from its SELECT to its end; a locked lot stays open.
- `WinnerInv`: a closed lot belongs to its last bidder. A closer reads the version, then the
  winner, then writes: if a bid came between, the version has moved and the UPDATE finds no row.
- `ShownInv`: what a profile has shown is still so. With `WinnerInv`, the price of a lot won is the winner's last bid.
- `WalkInv`: what a walk can no longer see is at most what was closed since it began. The
  rows a walk has lost (`Lost`) left the filter or have moved up to where it has been. `Rank` is
  injective and onto 0..n-1, by counting, so that a page with a row after it is full (`FullPage`); a
  row that leaves the filter is a lot closed and makes at most one row lost (`LostOne`); new rows come
  first and make none lost (`LostGrow`).
- `StampInv`: who has not begun to create a lot still has a number to take.

### Model-checked only

Liveness under fairness is beyond TLAPS: `EventuallyClosed`, `BroadcastsEnd`,
`LeaversForgotten`, `ClosingReachesPage`, `EveryRequestAnswered` and `ClosedInTheEnd` are checked by TLC on
the instances of section 3. Every invariant and every action property of a passing run, and both
refinements, are theorems. `OnlyLater`, `BidRaisesPrice`, `Refinement` and `NobodyStranded`
have hypotheses on the configuration; without them the property can fail, and sections 3 and 5 say how.

## 7. Not modelled, and the plan

Not modelled for good: rendering and templates but for what the lot page shows, routing,
JSON, password hashing and token signing, metrics, configuration parsing, migrations and
deployment: pure functions, input and output, or state the program never reads. Of the demo:
its accounts (plain text in `localStorage`, a convenience of the demo), the lots
`seed.ts` makes at the first visit, and a storage that is full; nothing in the repository says what
the demo does then. Of the handlers: the decoding of a request and the redirects of the
site. A burst below one token is excluded by `LimiterAssumption`; the limiter would
then admit a first request that a full bucket does not cover (`ratelimit.go:47`). `NaN` as an
amount is left out: what the database does with it is not in this repository.

What is left:

1. Theorems about a restart: which lots `Restart` leaves without a timer (exactly those whose
   closing time is past, `find_restart`), as an invariant with failures that says who is stranded and why.
2. `OnlyLater` and `NobodyStranded` for an extension shorter or longer than the window: the
   weakest condition under which each holds.
3. The four findings as theorems of the form "the property holds but for this reason", as
   `StaleForAReason` is for the page.
