SPECIFICATION FairSpec
CONSTANTS
  c1 = c1
  c2 = c2
  Callers <- MCCallers
  MaxRegs = 1
  NoCallback = NoCallback
INVARIANTS
  WorkerSurvivesInit
