SPECIFICATION FairSpec
CONSTANTS
  r1 = r1
  r2 = r2
  A = A
  w1 = w1
  w2 = w2
  Row = {r1, r2}
  Chat = {A}
  ChatOf <- OneChat
  User = {u1}
  Worker = {w1, w2}
  BatchSize = 2
  Concurrency = 1
  MaxAttempts = 2
  MaxFaults = 1
  MaxStalls = 1
INVARIANTS
  TypeOK
  ProjectedBeforeSent
  ChatOrder
PROPERTIES
  ImplementsEventLog
  EventuallySettled
