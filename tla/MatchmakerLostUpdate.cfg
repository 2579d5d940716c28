\* Two threads of one cell; nothing fails.
SPECIFICATION Spec
CONSTANTS
  Requests = {r1, r2}
  Servers = {s1, s2}
  NoServer = NoServer
  Mortal = {}
  Cells = {c1}
  NoCell = NoCell
  MaxPlayers = 1
  Faults = {}
  MaxListed = 2
PROPERTY RecordedServersStay
