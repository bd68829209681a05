SPECIFICATION Spec
CONSTANTS
  None = None
  a = a
  b = b
  Message = {1, 2}
  User = {a, b}
  Founder = a
  Request = {r1, r2}
  MaxClock = 3
  MaxOps = 3
SYMMETRY Symmetry
CHECK_DEADLOCK FALSE
INVARIANTS
  TypeOK
  NoPhantomUnread
  CountExact
  UnreadIsVisible
