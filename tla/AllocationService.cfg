\* Two connections, three addresses (one of them mortal), every fault.
SPECIFICATION FairSpec
CONSTANTS
  Requests = {r1, r2}
  Servers = {s1, s2, s3}
  NoServer = NoServer
  Mortal = {s3}
  Faults = {"get", "create", "crash"}
INVARIANTS TypeOK AnswerMatchesCode SpentServersKnown
PROPERTIES ImplementsFleet EveryCallEnds
