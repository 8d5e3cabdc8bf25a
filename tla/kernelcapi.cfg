\* Three clients for two numbers; three users, of whom one has no callback.
SPECIFICATION JointSpec
CONSTANTS
  c1 = c1
  c2 = c2
  c3 = c3
  r1 = r1
  u1 = u1
  u2 = u2
  u3 = u3
  Null = Null
  Token = Token
  Appls <- ThreeClients
  Readers <- OneReader
  MaxAppls = 2
  IdLimit = 4
  Users <- ThreeUsers
  Silent <- LastSilent
INVARIANTS
  NoDanglingSlot
  NoForeignSlot
  ListedAreAttached
PROPERTY TableImplemented
SYMMETRY Alike
CHECK_DEADLOCK FALSE
