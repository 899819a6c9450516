SPECIFICATION FairSpec
CONSTANTS
  c1 = c1
  c2 = c2
  Callers <- MCCallers
  MaxRegs = 2
  NoCallback = NoCallback
INVARIANTS
  AtMostOneLate
  CallbackAlive
PROPERTIES
  EnabledIsServed
  DestructorTerminates
