SPECIFICATION FairSpec
CONSTANTS
  p1 = p1
  p2 = p2
  q1 = q1
  i1 = i1
  i2 = i2
  None = None
  Process = {p1, p2, q1}
  Instance = {i1, i2}
  InstanceOf <- Restarted
  Event = {1, 2}
  Malformed = {}
  MaxLen = 1
  Count = 2
  MaxRemembered = 1
  MaxLog = 2
  MaxFaults = 1
CHECK_DEADLOCK FALSE
INVARIANTS
  TypeOK
  NoGap
  DeliveredOnce
PROPERTIES
  EventuallyDelivered
  NoZombie
