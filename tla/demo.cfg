SPECIFICATION Spec
CONSTANTS
  Tabs = {t1, t2}
  Lots = {l1}
  Users = {u1, u2}
  Nobody = Nobody
  Start = 1
  MinStep = 1
  Window = 1
  Extension = 2
  MaxDelay = 2
  MaxPrice = 3
  MaxTime = 5
  Never = Never
INVARIANTS
  TypeOK
  ArmedWhileOpen
PROPERTIES
  EachTabIsAnAuction
  ClosedInTheEnd
CHECK_DEADLOCK FALSE
