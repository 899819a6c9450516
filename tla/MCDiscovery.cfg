SPECIFICATION Spec
CONSTANTS
  NCrtcs = 2
  e1 = e1
  e2 = e2
  k1 = k1
  k2 = k2
  p1 = p1
  p2 = p2
  cur = cur
  Encoders <- MCEncoders
  Connectors <- MCConnectors
  Planes <- MCPlanes
  Nobody = Nobody
  Topologies <- WiredTopologies
  Faults = {"device", "gfx", "frame"}
  MaxLost = 1
  Callbacks = {cb1, cb2}
INVARIANTS
  BindingsAgree
  CrtcReachable
  NoCrtcWasted
  DedicatedExclusive
  EveryDisplayAnnounced
