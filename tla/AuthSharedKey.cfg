\* Two players whose addresses have the same key; no faults at all.
SPECIFICATION Spec
CONSTANTS
  p1 = p1
  p2 = p2
  a1 = a1
  a2 = a2
  k1 = k1
  k2 = k2
  k3 = k3
  Players = {p1, p2}
  Accounts = {a1, a2}
  AccountOf <- OwnAccounts
  Keys = {k1}
  KeyOf <- SharedKey
  AccountKey <- SharedAccountKey
  Workers = {w1, w2}
  Late = {}
  NoRecord = NoRecord
  NoCall = NoCall
  MaxTime = 4
  Faults = {}
SYMMETRY WorkerSymmetry
INVARIANT AnswersStand
