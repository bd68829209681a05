SPECIFICATION FairSpec
CONSTANTS
  None = None
  Gateway = {g1, g2}
  Client = {c1, c2}
  Buffer = 1
  Signals = 1
  MaxFaults = 1
INVARIANTS
  TypeOK
  NoPanic
PROPERTIES
  OpenIsOnline
  NoneIsOffline
  SlowIsDropped
