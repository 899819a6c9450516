SPECIFICATION FairSpec
CONSTANTS
  c1 = c1
  c2 = c2
  Clients <- MCClients
  MaxToggles = 4
  Room = 3
  Setups <- MCSetups
CHECK_DEADLOCK FALSE
INVARIANTS ToldTheTruth
PROPERTIES RecordSettles EveryMessageHandled
