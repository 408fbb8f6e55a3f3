SPECIFICATION FairSpec
CONSTANTS
  Lots = {l1}
  Replicas = {r1}
  Bidders = {b1, b2}
  Closers = {c1, c2}
  Nobody = Nobody
  Cent = 2
  Amounts = {4, 8}
  StartPrice = 2
  MinStep = 2
  ClosingTimes = {1}
  Offsets = {0}
  SnipingWindow = 1
  SnipingExtension = 1
  RequestTimeout = 1
  CommitDelay = 0
  MaxAttempts = 2
  MaxTime = 3
  LastBid = 1
  MaxFaults = 0
  Preempt = FALSE
  Locking = {TRUE}
CHECK_DEADLOCK FALSE
INVARIANTS
  NeverStranded
PROPERTIES
  EventuallyClosed
