SPECIFICATION Spec
CONSTANTS
  c1 = c1
  c2 = c2
  Clients <- MCClients
  MaxToggles = 2
  Room = 3
  Setups <- MCBlobSetups
CHECK_DEADLOCK FALSE
INVARIANT OnlySuccessTold
