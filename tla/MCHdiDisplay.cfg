SPECIFICATION Spec
CONSTANTS
  d1 = d1
  d2 = d2
  b1 = b1
  Displays <- MCDisplays
  Buffers <- MCBuffers
  NoBuffer = NoBuffer
  Zorders = {0, 1, 2}
  CallerTypes = {"CLIENT", "DEVICE", "CURSOR"}
  InitZ = 2
  MaxLayers = 3
  Callers <- MCCallers
CHECK_DEADLOCK FALSE
INVARIANTS
  Registry
  IdsUnique
  ChangesReported
  ChangesAlive
PROPERTIES
  ImplementsLayerStack
