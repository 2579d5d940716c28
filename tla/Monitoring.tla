----------------------------- MODULE Monitoring -----------------------------
(* The monitoring service, src/monitoring-service/main.go: a loop that      *)
(* reads the ready and the allocated replicas from the status of the Fleet  *)
(* and exports both to Stackdriver in one request.  No error after the      *)
(* start ends it.  A second process of a rollout exports under its own      *)
(* pod_name and shares nothing with this one.                               *)
EXTENDS Naturals

CONSTANTS MaxServers,  \* bound: servers in the fleet
          MaxFaults,   \* bound: failed calls and kills
          NoPoint      \* nothing was exported yet

ASSUME MonitoringAssumption ==
  /\ MaxServers \in Nat
  /\ MaxFaults \in Nat
  /\ NoPoint \notin Nat

VARIABLES fleet,     \* Status of the Fleet
          pc,        \* where the process is
          labelled,  \* whether the resource labels name a project
          sample,    \* numberOfReadyReplicas, numberOfAllocatedReplicas
          series,    \* the last point of each of the two series
          left,      \* faults that may still happen
          seen,      \* history: statuses since the loop last woke up
          failed     \* history: the calls that failed since then

vars == <<fleet, pc, labelled, sample, series, left, seen, failed>>

Status == [ready : Nat, allocated : Nat]
Zeros == [ready |-> 0, allocated |-> 0]

TypeOK ==
  /\ fleet \in Status
  /\ pc \in {"down", "read", "write", "sleep"}
  /\ labelled \in BOOLEAN
  /\ sample \in Status
  /\ series \in [ready : Nat \cup {NoPoint}, allocated : Nat \cup {NoPoint}]
  /\ left \in Nat
  /\ seen \subseteq Status
  /\ failed \subseteq {"get", "export"}

Init == /\ fleet = Zeros
        /\ pc = "down"
        /\ labelled = FALSE
        /\ sample = Zeros
        /\ series = [ready |-> NoPoint, allocated |-> NoPoint]
        /\ left = MaxFaults
        /\ seen = {Zeros}
        /\ failed = {}

Fault == left > 0 /\ left' = left - 1

Works == UNCHANGED left

-----------------------------------------------------------------------------
(* main.                                                                    *)

(* The errors of the metadata server are dropped: without a project id the  *)
(* labels are empty and the process goes on.                                *)
GetResourceLabels == \/ Works /\ labelled' = TRUE
                     \/ Fault /\ labelled' = FALSE

(* The clients are made, then the labels.  A Fatal leaves the process down. *)
Start == /\ pc = "down"
         /\ GetResourceLabels
         /\ pc' = "read"
         /\ seen' = {fleet}
         /\ failed' = {}
         /\ UNCHANGED <<fleet, sample, series>>

(* Mutant: when the Get fails, the last reading is exported again.          *)
CheckReplicaStatusKept ==
  /\ pc = "read"
  /\ \/ Works /\ sample' = fleet
     \/ Fault /\ UNCHANGED sample
  /\ pc' = "write"
  /\ UNCHANGED <<fleet, labelled, series, seen, failed>>

(* Mutant: a failed Get leaves nothing to read the numbers from.            *)
CheckReplicaStatusNil ==
  /\ pc = "read"
  /\ \/ Works /\ sample' = fleet
     \/ Fault /\ sample' = NoPoint
  /\ pc' = "write"
  /\ UNCHANGED <<fleet, labelled, series, seen, failed>>

(* checkReplicaStatus: the status of one Get; a Get that fails returns an   *)
(* empty Fleet, whose numbers are zero.                                     *)
CheckReplicaStatus ==
  /\ pc = "read"
  /\ \/ Works /\ sample' = fleet /\ UNCHANGED failed
     \/ Fault /\ sample' = Zeros /\ failed' = failed \cup {"get"}
  /\ pc' = "write"
  /\ UNCHANGED <<fleet, labelled, series, seen>>

(* exportMetric: both points in one request.  When it fails, Stackdriver    *)
(* may have stored either of them; under no project it stores none.         *)
ExportMetric ==
  /\ pc = "write"
  /\ \/ labelled /\ Works /\ series' = sample /\ UNCHANGED failed
     \/ /\ IF labelled THEN Fault ELSE Works
        /\ series' \in IF labelled
                       THEN [ready : {series.ready, sample.ready},
                             allocated : {series.allocated, sample.allocated}]
                       ELSE {series}
        /\ failed' = failed \cup {"export"}
  /\ pc' = "sleep"
  /\ UNCHANGED <<fleet, labelled, sample, seen>>

(* Mutant: the status is read once, before the loop.                        *)
WakeToWrite == /\ pc = "sleep"
               /\ pc' = "write"
               /\ seen' = {fleet}
               /\ failed' = {}
               /\ UNCHANGED <<fleet, labelled, sample, series, left>>

Wake == /\ pc = "sleep"
        /\ pc' = "read"
        /\ seen' = {fleet}
        /\ failed' = {}
        /\ UNCHANGED <<fleet, labelled, sample, series, left>>

-----------------------------------------------------------------------------
(* Around the service.                                                      *)

(* The process is killed.  A Fatal at its start leaves it down.             *)
Killed == /\ Fault
          /\ pc # "down"
          /\ pc' = "down"
          /\ UNCHANGED <<fleet, labelled, sample, series, seen, failed>>

(* Agones writes a new status.                                              *)
FleetChanges(status) ==
  /\ status.ready + status.allocated <= MaxServers
  /\ fleet' = status
  /\ seen' = seen \cup {status}
  /\ UNCHANGED <<pc, labelled, sample, series, left, failed>>

-----------------------------------------------------------------------------
Statuses == [ready : 0..MaxServers, allocated : 0..MaxServers]

Loop == Start \/ CheckReplicaStatus \/ ExportMetric \/ Wake

Next == \/ Loop
        \/ Killed
        \/ \E status \in Statuses : FleetChanges(status)

Spec == Init /\ [][Next]_vars

(* The process is scheduled, sleeps for half a minute only, and Kubernetes  *)
(* restarts it.                                                             *)
FairSpec == Spec /\ WF_vars(Loop)

-----------------------------------------------------------------------------
(* After a round whose export succeeded, the two series together show a     *)
(* status the fleet had since the round began, ready and allocated of the   *)
(* same moment; zeros that the fleet did not have are shown only when the   *)
(* Get of this round failed.                                                *)
SeriesTruthful ==
  pc = "sleep" /\ "export" \notin failed =>
    series \in seen \cup (IF "get" \in failed THEN {Zeros} ELSE {})

(* When the fleet settles, what Stackdriver shows settles there too: zeros, *)
(* half-written pairs and restarts are repaired by the next rounds.  The    *)
(* one failure that stays is a start without labels (main.go:81): such a    *)
(* process exports in vain until somebody kills it.                         *)
SeriesSettles ==
  \A status \in Statuses :
    <>[](fleet = status) => <>[](series = status) \/ <>[]~labelled

=============================================================================
