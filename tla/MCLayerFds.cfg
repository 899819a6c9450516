SPECIFICATION Spec
CONSTANTS
  n1 = n1
  n2 = n2
  n3 = n3
  n4 = n4
  n5 = n5
  n6 = n6
  NoFd = NoFd
  l1 = l1
  b0 = b0
  b1 = b1
  b2 = b2
  f1 = f1
  f2 = f2
  Fds = {n1, n2, n3, n4, n5, n6}
  Layers = {l1}
  Buffers = {b1, b2}
  Fences = {f1, f2}
  FirstBuffer = b0
VIEW UpToRenaming
INVARIANTS HeldAreOwn OnlyFirstHandleLost WaitsForLastFence
PROPERTIES CursorShowsLayer
