SPECIFICATION Spec
CONSTANTS
  None = None
  Request = {r1, r2, r3}
  Process = {p1}
  Lifetime = 2
  CacheTTL = 1
  MaxClock = 3
  MaxFaults = 2
SYMMETRY Symmetry
CHECK_DEADLOCK FALSE
INVARIANT TypeOK
PROPERTIES
  OldTokensShutOut
  BanKept
