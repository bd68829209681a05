SPECIFICATION Spec
CONSTANTS
  u1 = u1
  u2 = u2
  s1 = s1
  s2 = s2
  w1 = w1
  w2 = w2
  Event = {e1}
  Device = {d1}
  User = {u1, u2}
  Session = {s1, s2}
  UserOf <- TwoAccounts
  FcmToken = {t1, t2}
  Worker = {w1}
  Caller = {c1, c2}
  MaxAttempts = 1
  MaxFaults = 0
  MaxChanges = 4
INVARIANTS
  TypeOK
  OptOutRespected
PROPERTIES
  DisablesRefusedToken
  UnregisterSticks
