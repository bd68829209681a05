SPECIFICATION Spec
CONSTANTS
  Group = {g1}
  User = {u1, u2, u3}
  SysAdmin = {}
  Request = {r1, r2}
  MaxGroupMembers = 2
  MaxOps = 4
  MaxChanges = 1
SYMMETRY UserSymmetry
CHECK_DEADLOCK FALSE
INVARIANTS
  TypeOK
  OneOwner
  WithinCapacity
PROPERTIES
  RankRespected
  OwnerStepsDown
