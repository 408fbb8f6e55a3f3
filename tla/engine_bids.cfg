SPECIFICATION Spec
CONSTANTS
  Lots = {l1}
  Replicas = {r1}
  Bidders = {b1, b2}
  Closers = {c1}
  Nobody = Nobody
  Cent = 2
  Amounts = {7, 10, 12}
  StartPrice = 2
  MinStep = 4
  ClosingTimes = {2}
  Offsets = {0}
  SnipingWindow = 1
  SnipingExtension = 1
  RequestTimeout = 1
  CommitDelay = 1
  MaxAttempts = 2
  MaxTime = 4
  LastBid = 2
  MaxFaults = 0
  Preempt = TRUE
  Locking = {TRUE, FALSE}
CHECK_DEADLOCK FALSE
INVARIANTS
  TypeOK PriceIsHighestBid WinnerIsHighestBidder NoRetryUnderRowLock
PROPERTIES
  ClosingNeverEarlier AntiSnipingMargin ImplementsAuction
