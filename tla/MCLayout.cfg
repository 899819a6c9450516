SPECIFICATION LayoutSpec
CONSTANTS
  Word = 256
  Requests <- MCRequests
INVARIANTS
  PlanesFit
CHECK_DEADLOCK FALSE
