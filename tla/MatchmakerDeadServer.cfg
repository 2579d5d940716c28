\* A recorded server stops; nothing else fails.
SPECIFICATION FairSpec
CONSTANTS
  Requests = {r1, r2}
  Servers = {s1, s2}
  NoServer = NoServer
  Mortal = {s1}
  Cells = {c1}
  NoCell = NoCell
  MaxPlayers = 1
  Faults = {}
  MaxListed = 2
CONSTRAINT ShortLists
PROPERTY EveryRequestReturns
