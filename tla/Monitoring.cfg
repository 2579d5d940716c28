\* Up to two servers, three faults.
SPECIFICATION FairSpec
CONSTANTS
  MaxServers = 2
  MaxFaults = 3
  NoPoint = NoPoint
INVARIANTS TypeOK SeriesTruthful
PROPERTY SeriesSettles
