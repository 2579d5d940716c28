\* Datagrams arrive and everything else may fail, until an allocated server stops.
SPECIFICATION FairSpec
CONSTANTS
  Requests = {r1, r2}
  Servers = {s1}
  NoServer = NoServer
  Mortal = {s1}
  Cells = {c1, c2}
  NoCell = NoCell
  MaxPlayers = 1
  ServiceFaults = {"get", "create", "crash"}
  MatchmakerFaults = {"datastore", "crash"}
CONSTRAINT ServersRun
INVARIANTS TypeOK NoServerForgotten
PROPERTIES ImplementsMatchmaker EveryRequestReturns
