SPECIFICATION Spec
CONSTANTS
  u1 = u1
  u2 = u2
  u3 = u3
  u4 = u4
  Null = Null
  Users <- TwoUsers
  Silent <- NoneSilent
INVARIANT AttachedAreListed
