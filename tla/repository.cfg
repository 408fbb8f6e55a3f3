SPECIFICATION Spec
CONSTANTS
  Bidders = {b1, b2}
  Closers = {c1}
  Creators = {n1}
  Walkers = {v1}
  Viewers = {v1}
  Existing = 2
  MaxConns = 2
  MaxLimit = 2
  Asked = {1, 2, 3}
  MaxViews = 2
  MaxFaults = 1
  None = None
INVARIANTS
  TypeOK
  NothingLeftHeld
  WalkMissesNothing
  SpentIsOwnBids
PROPERTIES
  ProfileOnlyGrows
  EveryRequestAnswered
CHECK_DEADLOCK FALSE
