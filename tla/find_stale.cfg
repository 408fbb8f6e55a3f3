SPECIFICATION Spec
CONSTANTS
  Pages = {p1}
  Replicas = {r1}
  MaxBids = 2
  PageRows = 2
  MaxFaults = 0
  None = None
INVARIANTS
  ShowsCurrentPrice
CHECK_DEADLOCK FALSE
