\* Two threads, two cells and two servers, one of which may stop and come back
\* at its address; every fault.
SPECIFICATION Spec
CONSTANTS
  Requests = {r1, r2}
  Servers = {s1, s2}
  NoServer = NoServer
  Mortal = {s1}
  Cells = {c1, c2}
  NoCell = NoCell
  MaxPlayers = 1
  Faults = {"udp", "datastore", "http", "crash"}
  MaxListed = 1
SYMMETRY MCSymmetry
CONSTRAINTS ShortLists OneCellUnhurt
INVARIANTS TypeOK OneHome SpentServersOnRecord OvershootBound
PROPERTY KeepsContract
