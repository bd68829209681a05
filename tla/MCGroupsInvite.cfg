SPECIFICATION Spec
CONSTANTS
  Group = {g1}
  User = {u1, u2, u3}
  SysAdmin = {}
  Request = {r1, r2}
  MaxGroupMembers = 3
  MaxOps = 4
  MaxChanges = 0
SYMMETRY Symmetry
CHECK_DEADLOCK FALSE
INVARIANT InviteMatchesVisibility
