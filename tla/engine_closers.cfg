SPECIFICATION Spec
CONSTANTS
  Lots = {l1}
  Replicas = {r1, r2}
  Bidders = {b1}
  Closers = {c1, c2}
  Nobody = Nobody
  Cent = 2
  Amounts = {5}
  StartPrice = 2
  MinStep = 2
  ClosingTimes = {2}
  Offsets = {0, 1}
  SnipingWindow = 1
  SnipingExtension = 1
  RequestTimeout = 1
  CommitDelay = 1
  MaxAttempts = 2
  MaxTime = 4
  LastBid = 2
  MaxFaults = 2
  Preempt = TRUE
  Locking = {TRUE, FALSE}
SYMMETRY Symmetry
CHECK_DEADLOCK FALSE
INVARIANTS
  AnswerMatchesHistory
PROPERTIES
  NoBidAfterClose NeverClosedEarly
