CONSTANTS
  b1 = b1
  b2 = b2
  b0 = b0
  Buffers = {b1, b2}
  FirstBuffer = b0
  Modes = {0, 1}
  Setups <- MCSetups
  MaxCursorFences = 1
SPECIFICATION Spec
SYMMETRY BufferSymmetry
INVARIANTS RawPointersOwned NoFbLeak HandlesOwned ModeApplied ReportedOnIsLit FenceQueueShort FbsOwned
PROPERTIES NewFrameShown NeverDark FenceLagsByOne
CHECK_DEADLOCK FALSE
