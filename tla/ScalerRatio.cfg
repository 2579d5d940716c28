\* One process, no faults, at most three players, the default of four servers
\* that the README starts with and six exports a minute.
SPECIFICATION FairSpec
CONSTANTS
  Scalers = {p1}
  DefaultReplica = 4
  SamplesPerPeriod = 6
  MaxReplicas = 50
  NoFas = NoFas
  NoData = NoData
  MaxTotal = 3
  MaxEdit = 4
  MaxFaults = 0
PROPERTY BufferKeepsRatio
