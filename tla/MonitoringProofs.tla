-------------------------- MODULE MonitoringProofs --------------------------
(* Theorems about Monitoring, for fleets of any size and any number of      *)
(* faults.                                                                  *)
EXTENDS Monitoring, TLAPS

-----------------------------------------------------------------------------
(* The monitoring service is well typed in every reachable state.           *)
THEOREM MonitoringTyped == Spec => []TypeOK
<1>1. Init => TypeOK
  <2> SUFFICES ASSUME Init PROVE TypeOK
    OBVIOUS
  <2>1. Zeros \in Status /\ seen \subseteq Status /\ fleet \in Status /\ sample \in Status
    BY DEF Init, Zeros, Status
  <2>2. series \in [ready : Nat \cup {NoPoint}, allocated : Nat \cup {NoPoint}]
    BY DEF Init
  <2>3. QED
    BY <2>1, <2>2, MonitoringAssumption DEF Init, TypeOK
<1>2. TypeOK /\ [Next]_vars => TypeOK'
  <2> SUFFICES ASSUME TypeOK, [Next]_vars
               PROVE  TypeOK'
    OBVIOUS
  <2>1. CASE Start
    <3>1. labelled' \in BOOLEAN
      BY <2>1 DEF Start, GetResourceLabels
    <3>2. left' \in Nat
      BY <2>1 DEF Start, GetResourceLabels, Fault, Works, TypeOK
    <3>3. QED
      BY <2>1, <3>1, <3>2 DEF Start, TypeOK
  <2>2. CASE CheckReplicaStatus
    <3>1. Zeros \in Status
      BY DEF Zeros, Status
    <3>2. left' \in Nat
      BY <2>2 DEF CheckReplicaStatus, Fault, Works, TypeOK
    <3>3. sample' \in Status /\ failed' \subseteq {"get", "export"}
      BY <2>2, <3>1 DEF CheckReplicaStatus, TypeOK
    <3>4. QED
      BY <2>2, <3>2, <3>3 DEF CheckReplicaStatus, TypeOK
  <2>3. CASE ExportMetric
    <3>1. left' \in Nat
      BY <2>3 DEF ExportMetric, Fault, Works, TypeOK
    <3>2. series' \in [ready : Nat \cup {NoPoint}, allocated : Nat \cup {NoPoint}]
      <4>1. CASE series' = sample
        BY <4>1 DEF TypeOK, Status
      <4>2. CASE series' \in {series}
        BY <4>2 DEF TypeOK
      <4>3. CASE series' \in [ready : {series.ready, sample.ready},
                              allocated : {series.allocated, sample.allocated}]
        BY <4>3 DEF TypeOK, Status
      <4>4. QED
        BY <2>3, <4>1, <4>2, <4>3 DEF ExportMetric
    <3>3. failed' \subseteq {"get", "export"}
      BY <2>3 DEF ExportMetric, TypeOK
    <3>4. QED
      BY <2>3, <3>1, <3>2, <3>3 DEF ExportMetric, TypeOK
  <2>4. CASE Wake
    BY <2>4 DEF Wake, TypeOK
  <2>5. CASE Killed
    BY <2>5 DEF Killed, Fault, TypeOK
  <2>6. ASSUME NEW status \in Statuses, FleetChanges(status)
        PROVE  TypeOK'
    <3>1. status \in Status
      BY <2>6, MonitoringAssumption DEF Statuses, Status
    <3>2. QED
      BY <2>6, <3>1 DEF FleetChanges, TypeOK
  <2>7. CASE UNCHANGED vars
    BY <2>7 DEF vars, TypeOK
  <2>8. QED
    BY <2>1, <2>2, <2>3, <2>4, <2>5, <2>6, <2>7 DEF Next, Loop
<1>3. QED
  BY <1>1, <1>2, PTL DEF Spec

-----------------------------------------------------------------------------
(* What the process is about to export, and what it has exported, is a      *)
(* status of this round, unless a call of the round failed.                 *)
RoundInv ==
  /\ fleet \in seen
  /\ pc = "write" => sample \in seen \cup (IF "get" \in failed THEN {Zeros} ELSE {})
  /\ SeriesTruthful

(* After a round whose export succeeded, the two series together show a     *)
(* status the fleet had since the round began; zeros that it did not have   *)
(* only when the Get of this round failed.                                  *)
THEOREM SeriesAreTruthful == Spec => []SeriesTruthful
<1>1. Init => RoundInv
  BY DEF Init, RoundInv, SeriesTruthful
<1>2. RoundInv /\ [Next]_vars => RoundInv'
  <2> SUFFICES ASSUME RoundInv, [Next]_vars
               PROVE  RoundInv'
    OBVIOUS
  <2>1. CASE Start
    BY <2>1 DEF Start, RoundInv, SeriesTruthful
  <2>2. CASE CheckReplicaStatus
    BY <2>2 DEF CheckReplicaStatus, RoundInv, SeriesTruthful
  <2>3. CASE ExportMetric
    BY <2>3 DEF ExportMetric, RoundInv, SeriesTruthful
  <2>4. CASE Wake
    BY <2>4 DEF Wake, RoundInv, SeriesTruthful
  <2>5. CASE Killed
    BY <2>5 DEF Killed, RoundInv, SeriesTruthful
  <2>6. ASSUME NEW status \in Statuses, FleetChanges(status)
        PROVE  RoundInv'
    BY <2>6 DEF FleetChanges, RoundInv, SeriesTruthful
  <2>7. CASE UNCHANGED vars
    BY <2>7 DEF vars, RoundInv, SeriesTruthful
  <2>8. QED
    BY <2>1, <2>2, <2>3, <2>4, <2>5, <2>6, <2>7 DEF Next, Loop
<1>3. RoundInv => SeriesTruthful
  BY DEF RoundInv
<1>4. QED
  BY <1>1, <1>2, <1>3, PTL DEF Spec

=============================================================================
