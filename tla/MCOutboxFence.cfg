SPECIFICATION Spec
CONSTANTS
  r1 = r1
  r2 = r2
  A = A
  w1 = w1
  w2 = w2
  Row = {r1}
  Chat = {A}
  ChatOf <- One
  User = {u1}
  Worker = {w1, w2}
  BatchSize = 1
  Concurrency = 1
  MaxAttempts = 2
  MaxFaults = 0
  MaxStalls = 1
INVARIANT ProjectedOnce
