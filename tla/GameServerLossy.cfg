\* Two clients on a network that loses, repeats and reorders datagrams.
SPECIFICATION Spec
CONSTANTS
  Clients = {c1, c2}
  Ids = {i1, i2, i3}
  NoId = NoId
  Operator = Operator
  Orders = {"EXIT"}
  Faults = {"udp"}
CHECK_DEADLOCK FALSE
SYMMETRY ClientSymmetry
INVARIANTS ClientsCounted
