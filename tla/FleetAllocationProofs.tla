----------------------- MODULE FleetAllocationProofs -----------------------
(* Theorems about FleetAllocation, for every set of calls and of servers.   *)
EXTENDS FleetAllocation, TLAPS

(* Every reachable state of the contract is well typed.                     *)
THEOREM AllocTyped == AllocSpec => []AllocTypeOK
<1>1. AllocInit => AllocTypeOK
  BY FleetAssumption DEF AllocInit, AllocTypeOK
<1>2. AllocTypeOK /\ [AllocNext]_allocVars => AllocTypeOK'
  <2> SUFFICES ASSUME AllocTypeOK, [AllocNext]_allocVars PROVE AllocTypeOK'
    OBVIOUS
  <2> USE FleetAssumption DEF AllocTypeOK
  <2>1. ASSUME NEW r \in Requests, Ask(r) PROVE AllocTypeOK'
    BY <2>1 DEF Ask
  <2>2. ASSUME NEW r \in Requests, Collect(r) PROVE AllocTypeOK'
    BY <2>2 DEF Collect
  <2>3. ASSUME NEW r \in Requests, NEW s \in Servers, Grant(r, s)
        PROVE  AllocTypeOK'
    BY <2>3 DEF Grant
  <2>4. ASSUME NEW R \in SUBSET Requests, Refuse(R) PROVE AllocTypeOK'
    BY <2>4 DEF Refuse
  <2>5. ASSUME NEW s \in Servers, Spawn(s) PROVE AllocTypeOK'
    BY <2>5 DEF Spawn
  <2>6. ASSUME NEW s \in Servers, Exit(s) PROVE AllocTypeOK'
    BY <2>6 DEF Exit
  <2>7. CASE UNCHANGED allocVars
    BY <2>7 DEF allocVars
  <2>8. QED
    BY <2>1, <2>2, <2>3, <2>4, <2>5, <2>6, <2>7 DEF AllocNext
<1>3. QED
  BY <1>1, <1>2, PTL DEF AllocSpec

(* No game server that cannot stop is held by two calls.  The invariant is  *)
(* inductive together with the types: Grant takes a Ready server, and a     *)
(* server that somebody holds is Allocated.                                 *)
THEOREM AllocExclusive == AllocSpec => []OneHolder
<1>1. AllocInit => OneHolder
  BY FleetAssumption DEF AllocInit, OneHolder
<1>2. AllocTypeOK /\ OneHolder /\ [AllocNext]_allocVars => OneHolder'
  <2> SUFFICES ASSUME AllocTypeOK, OneHolder, [AllocNext]_allocVars
               PROVE  OneHolder'
    OBVIOUS
  <2> USE FleetAssumption DEF AllocTypeOK, OneHolder
  <2>1. ASSUME NEW r \in Requests, Ask(r) PROVE OneHolder'
    BY <2>1 DEF Ask
  <2>2. ASSUME NEW r \in Requests, Collect(r) PROVE OneHolder'
    BY <2>2 DEF Collect
  <2>3. ASSUME NEW r \in Requests, NEW s \in Servers, Grant(r, s)
        PROVE  OneHolder'
    BY <2>3 DEF Grant
  <2>4. ASSUME NEW R \in SUBSET Requests, Refuse(R) PROVE OneHolder'
    BY <2>4 DEF Refuse
  <2>5. ASSUME NEW s \in Servers, Spawn(s) PROVE OneHolder'
    BY <2>5 DEF Spawn
  <2>6. ASSUME NEW s \in Servers, Exit(s) PROVE OneHolder'
    BY <2>6 DEF Exit
  <2>7. CASE UNCHANGED allocVars
    BY <2>7 DEF allocVars
  <2>8. QED
    BY <2>1, <2>2, <2>3, <2>4, <2>5, <2>6, <2>7 DEF AllocNext
<1>3. QED
  BY <1>1, <1>2, AllocTyped, PTL DEF AllocSpec

=============================================================================
