SPECIFICATION FairSpec
CONSTANTS
  Lots = {l1}
  Replicas = {r1}
  Bidders = {b1}
  Closers = {c1}
  Nobody = Nobody
  Cent = 2
  Amounts = {4}
  StartPrice = 2
  MinStep = 2
  ClosingTimes = {1}
  Offsets = {0}
  SnipingWindow = 1
  SnipingExtension = 1
  RequestTimeout = 1
  CommitDelay = 0
  MaxAttempts = 3
  MaxTime = 3
  LastBid = 1
  MaxFaults = 1
  Preempt = FALSE
  Locking = {TRUE}
CHECK_DEADLOCK FALSE
PROPERTIES
  ClosedAfterRestart
