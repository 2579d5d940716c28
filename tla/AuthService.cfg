\* Two players, one of them with capitals in the address, two threads, a
\* request that outlives its handler, every fault.
SPECIFICATION Spec
CONSTANTS
  p1 = p1
  p2 = p2
  a1 = a1
  a2 = a2
  k1 = k1
  k2 = k2
  k3 = k3
  Players = {p1, p2}
  Accounts = {a1, a2}
  AccountOf <- OwnAccounts
  Keys = {k1, k2, k3}
  KeyOf <- OwnKeys
  AccountKey <- OwnAccountKeys
  Workers = {w1, w2}
  Late = {t1}
  NoRecord = NoRecord
  NoCall = NoCall
  MaxTime = 2
  Faults = {"firebase", "timeout", "crash"}
SYMMETRY WorkerSymmetry
CONSTRAINT OnePlayerAtATime
INVARIANTS TypeOK AnswersStand TokensFindRecords 
PROPERTIES OnlyOverlapTurnsBack ActsAtOnce
