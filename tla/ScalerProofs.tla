---------------------------- MODULE ScalerProofs ----------------------------
(* Theorems about Scaler, for any number of processes, players and faults   *)
(* and every default.                                                       *)
EXTENDS Scaler, Integers, TLAPS

-----------------------------------------------------------------------------
(* The desired buffer is at least the default, and is the least such number *)
(* whose servers, at default players each, hold all players.                *)
LEMMA DesiredSize ==
  ASSUME NEW n \in Nat
  PROVE  /\ DesireBufferSize(n) \in Nat
         /\ DesireBufferSize(n) >= DefaultReplica
         /\ DesireBufferSize(n) * DefaultReplica >= n
         /\ \A k \in Nat : k >= DefaultReplica /\ k * DefaultReplica >= n
                             => k >= DesireBufferSize(n)
<1> DEFINE D == DefaultReplica
           c == (n + D - 1) \div D
<1>1. D \in Nat /\ D > 0
  BY ScalerAssumption
<1>2. c \in Int /\ c * D <= n + D - 1 /\ n + D - 1 < (c + 1) * D
  BY <1>1
<1>3. c \in Nat
  BY <1>1, <1>2
<1>4. c * D >= n
  BY <1>1, <1>2, <1>3
<1>5. \A k \in Nat : k * D >= n => k >= c
  BY <1>1, <1>2, <1>3
<1>6. QED
  BY <1>1, <1>3, <1>4, <1>5 DEF DesireBufferSize

-----------------------------------------------------------------------------
(* The numbers the loop starts with and the resources it writes are typed.  *)
LEMMA StoredTyped ==
  /\ DefaultReplica \in Nat
  /\ [buffer |-> DefaultReplica, min |-> DefaultReplica + 1] \in Autoscalers
  /\ \A n \in Nat : [buffer |-> n, min |-> 0] \in Autoscalers
  /\ \A f \in Autoscalers, n \in Nat : [f EXCEPT !.buffer = n] \in Autoscalers
  BY ScalerAssumption DEF Autoscalers

(* The scaling service is well typed in every reachable state.              *)
THEOREM ScalerTyped == Spec => []TypeOK
<1>1. Init => TypeOK
  <2>1. Init => byHand \in BOOLEAN
    BY DEF Init
  <2>2. QED
    BY <2>1, ScalerAssumption DEF Init, TypeOK
<1>2. TypeOK /\ [Next]_vars => TypeOK'
  <2> SUFFICES ASSUME TypeOK, [Next]_vars
               PROVE  TypeOK'
    OBVIOUS
  <2> USE DEF world, locals, Goto, Stop, Store, ServiceStores, Fault
  <2>1. ASSUME NEW p \in Scalers, Start(p)
        PROVE  TypeOK'
    BY <2>1, StoredTyped DEF Start, TypeOK
  <2>2. ASSUME NEW p \in Scalers, CheckFasStatus(p)
        PROVE  TypeOK'
    <3>1. created' \in [Scalers -> BOOLEAN]
      BY <2>2 DEF CheckFasStatus, TypeOK
    <3>2. left' \in Nat
      BY <2>2 DEF CheckFasStatus, TypeOK
    <3>3. current' \in [Scalers -> Nat]
      BY <2>2, StoredTyped DEF CheckFasStatus, TypeOK, Autoscalers
    <3>4. QED
      BY <2>2, <3>1, <3>2, <3>3 DEF CheckFasStatus, TypeOK
  <2>3. ASSUME NEW p \in Scalers, ReadTimeSeries(p)
        PROVE  TypeOK'
    BY <2>3, DesiredSize DEF ReadTimeSeries, TypeOK
  <2>4. ASSUME NEW p \in Scalers, CreateFas(p)
        PROVE  TypeOK'
    BY <2>4, StoredTyped DEF CreateFas, TypeOK
  <2>5. ASSUME NEW p \in Scalers, GetLatestVersion(p)
        PROVE  TypeOK'
    BY <2>5 DEF GetLatestVersion, TypeOK
  <2>6. ASSUME NEW p \in Scalers, PerformAutoScale(p)
        PROVE  TypeOK'
    <3>1. byHand' \in BOOLEAN
      BY <2>6 DEF PerformAutoScale, TypeOK
    <3>2. fas' \in Autoscalers \cup {NoFas}
      BY <2>6, StoredTyped DEF PerformAutoScale, TypeOK
    <3>3. QED
      BY <2>6, <3>1, <3>2 DEF PerformAutoScale, TypeOK
  <2>7. ASSUME NEW p \in Scalers, Wake(p)
        PROVE  TypeOK'
    BY <2>7 DEF Wake, TypeOK
  <2>8. ASSUME NEW p \in Scalers, AnswerLost(p)
        PROVE  TypeOK'
    <3>1. byHand' \in BOOLEAN
      BY <2>8 DEF AnswerLost, TypeOK
    <3>2. fas' \in Autoscalers \cup {NoFas}
      BY <2>8, StoredTyped DEF AnswerLost, TypeOK
    <3>3. QED
      BY <2>8, <3>1, <3>2 DEF AnswerLost, TypeOK
  <2>9. ASSUME NEW p \in Scalers, Killed(p)
        PROVE  TypeOK'
    BY <2>9 DEF Killed, TypeOK
  <2>10. ASSUME NEW n \in 0..MaxTotal, PlayersChange(n)
         PROVE  TypeOK'
    BY <2>10, ScalerAssumption DEF PlayersChange, TypeOK
  <2>11. CASE Align
    BY <2>11, ScalerAssumption DEF Align, TypeOK
  <2>12. CASE EditByHand
    BY <2>12, StoredTyped, ScalerAssumption DEF EditByHand, TypeOK
  <2>13. CASE UNCHANGED vars
    BY <2>13 DEF vars, TypeOK
  <2>14. QED
    BY <2>1, <2>2, <2>3, <2>4, <2>5, <2>6, <2>7, <2>8, <2>9, <2>10, <2>11,
       <2>12, <2>13 DEF Next, Loop
<1>3. QED
  BY <1>1, <1>2, PTL DEF Spec

-----------------------------------------------------------------------------
(* A process that dies between two calls leaves its target to nobody, but   *)
(* one that was overtaken may still write it: no target is below the        *)
(* default.                                                                 *)
BufferInv == /\ NeverBelowDefault
             /\ \A p \in Scalers : target[p] >= DefaultReplica

(* A buffer below the default is always the work of a manual change that    *)
(* the service has not written after: no interleaving of any number of      *)
(* processes, failed call or lost answer leaves one, whatever values people *)
(* set by hand in between.                                                  *)
THEOREM BufferAtLeastDefault == Spec => []NeverBelowDefault
<1>1. Init => BufferInv
  BY StoredTyped DEF Init, BufferInv, NeverBelowDefault, TooLow
<1>2. TypeOK /\ BufferInv /\ [Next]_vars => BufferInv'
  <2> SUFFICES ASSUME TypeOK, BufferInv, [Next]_vars
               PROVE  BufferInv'
    OBVIOUS
  <2> USE DEF world, locals, Goto, Stop, Store, ServiceStores, BufferInv,
          NeverBelowDefault, TooLow
  <2>1. ASSUME NEW p \in Scalers, ReadTimeSeries(p)
        PROVE  BufferInv'
    BY <2>1, DesiredSize DEF ReadTimeSeries, TypeOK
  <2>2. ASSUME NEW p \in Scalers, CreateFas(p) \/ AnswerLost(p)
        PROVE  BufferInv'
    BY <2>2, StoredTyped DEF CreateFas, AnswerLost, TypeOK
  <2>3. ASSUME NEW p \in Scalers, PerformAutoScale(p)
        PROVE  BufferInv'
    BY <2>3, StoredTyped DEF PerformAutoScale, TypeOK
  <2>4. CASE EditByHand
    BY <2>4 DEF EditByHand
  <2>5. ASSUME UNCHANGED <<fas, byHand, target>>
        PROVE  BufferInv'
    BY <2>5
  <2>6. ASSUME NEW p \in Scalers,
               \/ Start(p) \/ CheckFasStatus(p) \/ GetLatestVersion(p)
               \/ Wake(p) \/ Killed(p)
        PROVE  BufferInv'
    BY <2>5, <2>6 DEF Start, CheckFasStatus, GetLatestVersion, Wake, Killed
  <2>7. CASE Align \/ \E n \in 0..MaxTotal : PlayersChange(n)
    BY <2>5, <2>7 DEF Align, PlayersChange
  <2>8. QED
    BY <2>1, <2>2, <2>3, <2>4, <2>5, <2>6, <2>7 DEF Next, Loop, vars
<1>3. BufferInv => NeverBelowDefault
  BY DEF BufferInv
<1>4. QED
  BY <1>1, <1>2, <1>3, ScalerTyped, PTL DEF Spec

=============================================================================
