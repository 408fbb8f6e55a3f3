SPECIFICATION Spec
CONSTANTS
  Pages = {p1}
  Replicas = {r1, r2}
  MaxBids = 2
  PageRows = 1
  MaxFaults = 1
  None = None
INVARIANTS
  TypeOK
  ClosedPageIsFinal
  
  StaleForAReason
PROPERTIES
  ClosingReachesPage
CHECK_DEADLOCK FALSE
