SPECIFICATION Spec
CONSTANTS
  Lots = {l1}
  Replicas = {r1}
  Bidders = {b1}
  Closers = {c1}
  Nobody = Nobody
  Cent = 4
  Amounts = {5}
  StartPrice = 4
  MinStep = 1
  ClosingTimes = {1}
  Offsets = {0}
  SnipingWindow = 1
  SnipingExtension = 1
  RequestTimeout = 1
  CommitDelay = 0
  MaxAttempts = 3
  MaxTime = 3
  LastBid = 1
  MaxFaults = 0
  Preempt = FALSE
  Locking = {TRUE}
CHECK_DEADLOCK FALSE
PROPERTIES
  EveryBidRaisesPrice
