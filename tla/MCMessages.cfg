SPECIFICATION FairSpec
CONSTANTS
  m1 = m1
  m2 = m2
  u1 = u1
  None = None
  Message = {m1, m2}
  Media = {1}
  User = {u1}
  SenderOf <- OneSender
  UploaderOf <- OneUploader
  Request = {r1, r2}
  BatchSize = 1
  MaxOps = 4
  MaxFaults = 1
INVARIANTS
  TypeOK
  MessageShape
  InUseIsStored
  LeakedOnlyByFallback
PROPERTIES
  NotStolen
  OrphansCollected
