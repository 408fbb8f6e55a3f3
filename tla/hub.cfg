SPECIFICATION Spec
CONSTANTS
  Lots = {l1, l2}
  Conns = {c1, c2}
  Broadcasters = {b1, b2}
  Closers = {b2}
  MaxCalls = 2
  Stalling = {c1}
  None = None
INVARIANTS
  TypeOK
  RegistryIsExact
  NoWriteAfterReturn
  PassedMeansDelivered
  EventsInOrder
PROPERTIES
  BroadcastsEnd
  LeaversForgotten
CHECK_DEADLOCK FALSE
