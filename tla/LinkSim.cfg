SPECIFICATION Spec
CONSTANTS
  Second = 4
  DelayModulus = 8
  MIN_PKT_LEN = 12
  Hosts = {client, server, alien}
  Dest = server
  NoHost = NoHost
  client = client
  server = server
  alien = alien
  loss_rate = 10
  cut_rate = 10
  err_rate = 10
  Options <- MCOptions
  Lengths = {11, 13}
  Horizon = 4
  EndOfTime = 20
  MaxDatagrams = 2
  MaxDelays = 1
INVARIANTS
  TypeOK
  LinkInv
PROPERTIES
  DeliveredNearDue
  ConstantDelayKeepsOrder
  ImplementsRelay
  DelayedLeave
CHECK_DEADLOCK FALSE
