\* Two clients, every command, every failure but those of the network.
SPECIFICATION FairSpec
CONSTANTS
  Clients = {c1, c2}
  Ids = {i1, i2}
  NoId = NoId
  Operator = Operator
  Orders = {"EXIT", "UNHEALTHY", "QUERY"}
  Faults = {"io", "signal"}
CHECK_DEADLOCK FALSE
INVARIANTS TypeOK NoGhosts ExportWithinInterval
PROPERTIES UnhealthyRetires JoinEnds
