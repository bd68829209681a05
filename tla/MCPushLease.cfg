SPECIFICATION FairSpec
CONSTANTS
  u1 = u1
  u2 = u2
  s1 = s1
  s2 = s2
  w1 = w1
  w2 = w2
  Event = {e1}
  Device = {d1}
  User = {u1}
  Session = {s1}
  UserOf <- OneSession
  FcmToken = {t1}
  Worker = {w1, w2}
  Caller = {c1}
  MaxAttempts = 2
  MaxFaults = 2
  MaxChanges = 2
INVARIANT DuplicateBound
PROPERTIES
  FinishedIsFinal
  EventuallyFinished
