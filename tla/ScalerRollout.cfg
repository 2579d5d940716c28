\* Two processes, one fault, six exports a minute; two players ask for a
\* buffer of six servers, more than the maximum.
SPECIFICATION FairSpec
CONSTANTS
  Scalers = {p1, p2}
  DefaultReplica = 2
  SamplesPerPeriod = 6
  MaxReplicas = 4
  NoFas = NoFas
  NoData = NoData
  MaxTotal = 2
  MaxEdit = 3
  MaxFaults = 1
INVARIANTS TypeOK NeverBelowDefault
PROPERTIES BufferSettles DefaultRestored
