SPECIFICATION Spec
CONSTANTS
  u1 = u1
  u2 = u2
  u3 = u3
  h1 = h1
  h2 = h2
  h3 = h3
  Users <- MCUsers
  Handles <- MCHandles
  FaultSets <- MCFaultSets
  MaxLeft = 1
INVARIANTS
  TypeOK
  FdsOwned
  MappingsOwned
  NoBoLeft
  DeviceWhileUsed
CHECK_DEADLOCK FALSE
