CONSTANTS
  b1 = b1
  b2 = b2
  b0 = b0
  Buffers = {b1, b2}
  FirstBuffer = b0
  Modes = {0, 1}
  Setups <- MCDanglingSetups
  MaxCursorFences = 2
SPECIFICATION Spec
SYMMETRY BufferSymmetry
INVARIANT ReleasedIsAlive
