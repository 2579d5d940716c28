------------------------------- MODULE Scaler -------------------------------
(* The scaling service, src/scaling-service/scale.go: a loop that compares  *)
(* the player count of the metric with the buffer of a FleetAutoscaler and  *)
(* creates or updates the resource.  Kubernetes restarts the process after  *)
(* every Fatal, and runs the old and the new process side by side during a  *)
(* rollout; the API server refuses an update that names an old version of   *)
(* the resource.                                                            *)
EXTENDS Naturals

CONSTANTS Scalers,           \* processes that can run side by side
          DefaultReplica,    \* the flag defaultReplica
          SamplesPerPeriod,  \* exports of a game server in one aligned period
          MaxReplicas,       \* 50 in createFas and performAutoScale
          NoFas,             \* the resource does not exist
          NoData,            \* the metric has no point yet
          MaxTotal,          \* bound: players in all game servers
          MaxEdit,           \* bound: the buffer that a manual change sets
          MaxFaults          \* bound: failed calls, kills and manual changes

ASSUME ScalerAssumption ==
  /\ DefaultReplica \in Nat \ {0}
  /\ SamplesPerPeriod \in Nat \ {0}
  /\ MaxReplicas \in Nat
  /\ MaxTotal \in Nat
  /\ MaxEdit \in Nat
  /\ MaxFaults \in Nat
  /\ NoData \notin Nat
  /\ NoFas \notin [buffer : Nat, min : Nat]

VARIABLES players,  \* players in all game servers
          metric,   \* playercount, summed over servers and aligned period
          fas,      \* the FleetAutoscaler
          byHand,   \* history: its last change was a manual one
          latest,   \* processes whose versionId is the latest version
          pc,       \* where each process is
          created,  \* alreadyFasCreated
          current,  \* currentBufferSize
          target,   \* targetBufferSize
          left      \* faults that may still happen

world == <<players, metric, left>>
locals == <<created, current, target>>
vars == <<players, metric, fas, byHand, latest, pc, created, current, target, left>>

Autoscalers == [buffer : Nat, min : Nat]

TypeOK == /\ players \in Nat
          /\ metric \in Nat \cup {NoData}
          /\ fas \in Autoscalers \cup {NoFas}
          /\ byHand \in BOOLEAN
          /\ latest \subseteq Scalers
          /\ pc \in [Scalers -> {"down", "check", "read", "create", "version",
                                 "update", "sleep"}]
          /\ created \in [Scalers -> BOOLEAN]
          /\ current \in [Scalers -> Nat]
          /\ target \in [Scalers -> Nat]
          /\ left \in Nat

Init == /\ players = 0
        /\ metric = NoData
        /\ fas = NoFas
        /\ byHand = FALSE
        /\ latest = {}
        /\ pc = [p \in Scalers |-> "down"]
        /\ created = [p \in Scalers |-> FALSE]
        /\ current = [p \in Scalers |-> DefaultReplica]
        /\ target = [p \in Scalers |-> DefaultReplica]
        /\ left = MaxFaults

Goto(p, label) == pc' = [pc EXCEPT ![p] = label]

(* Fatal, or a panic: the process ends.                                     *)
Stop(p) == Goto(p, "down")

Fault == left > 0 /\ left' = left - 1

(* Mutant: no lower limit.                                                  *)
CeilOnly(n) == (n + DefaultReplica - 1) \div DefaultReplica

(* math.Ceil(players / default), but at least the default.                  *)
DesireBufferSize(n) ==
  LET ceil == (n + DefaultReplica - 1) \div DefaultReplica
  IN  IF ceil < DefaultReplica THEN DefaultReplica ELSE ceil

(* Every write makes the versions read before it old.                       *)
Store(resource) == fas' = resource /\ latest' = {}
ServiceStores(resource) == Store(resource) /\ byHand' = FALSE

-----------------------------------------------------------------------------
(* main.                                                                    *)

(* The process starts; its Stackdriver client is made.                      *)
Start(p) == /\ pc[p] = "down"
            /\ Goto(p, "check")
            /\ created' = [created EXCEPT ![p] = FALSE]
            /\ current' = [current EXCEPT ![p] = DefaultReplica]
            /\ UNCHANGED <<world, fas, byHand, latest, target>>

(* Mutant: a process that knows the resource does not read it again.        *)
CheckFasStatusOnce(p) ==
  /\ pc[p] = "check"
  /\ IF created[p]
     THEN UNCHANGED <<created, current>>
     ELSE /\ created' = [created EXCEPT ![p] = fas # NoFas]
          /\ current' = [current EXCEPT
               ![p] = IF fas = NoFas THEN DefaultReplica ELSE fas.buffer]
  /\ Goto(p, "read")
  /\ UNCHANGED <<world, fas, byHand, latest, target>>

(* Any error of the Get counts as "not created".                            *)
CheckFasStatus(p) ==
  /\ pc[p] = "check"
  /\ \/ /\ fas # NoFas
        /\ created' = [created EXCEPT ![p] = TRUE]
        /\ current' = [current EXCEPT ![p] = fas.buffer]
        /\ UNCHANGED left
     \/ /\ IF fas = NoFas THEN UNCHANGED left ELSE Fault
        /\ created' = [created EXCEPT ![p] = FALSE]
        /\ current' = [current EXCEPT ![p] = DefaultReplica]
  /\ Goto(p, "read")
  /\ UNCHANGED <<players, metric, fas, byHand, latest, target>>

(* Mutant: an empty answer is used as if it were a count.                   *)
ReadTimeSeriesUnchecked(p) ==
  /\ pc[p] = "read"
  /\ target' = [target EXCEPT ![p] =
                  IF metric = NoData THEN metric ELSE DesireBufferSize(metric)]
  /\ Goto(p, IF created[p] THEN "version" ELSE "create")
  /\ UNCHANGED <<world, fas, byHand, latest, created, current>>

(* readTimeSeriesValue takes point 0 of series 0, there or not, and main    *)
(* compares.                                                                *)
ReadTimeSeries(p) ==
  /\ pc[p] = "read"
  /\ IF metric = NoData
     THEN Stop(p) /\ UNCHANGED target
     ELSE LET n == DesireBufferSize(metric) IN
          /\ target' = [target EXCEPT ![p] = n]
          /\ Goto(p, IF n = current[p] THEN "sleep"
                     ELSE IF created[p] THEN "version" ELSE "create")
  /\ UNCHANGED <<world, fas, byHand, latest, created, current>>

CreateFas(p) ==
  /\ pc[p] = "create"
  /\ IF fas = NoFas
     THEN /\ ServiceStores([buffer |-> DefaultReplica, min |-> DefaultReplica + 1])
          /\ created' = [created EXCEPT ![p] = TRUE]
          /\ Goto(p, "version")
     ELSE Stop(p) /\ UNCHANGED <<fas, byHand, latest, created>>
  /\ UNCHANGED <<world, current, target>>

GetLatestVersion(p) ==
  /\ pc[p] = "version"
  /\ IF fas = NoFas
     THEN Stop(p) /\ UNCHANGED latest
     ELSE Goto(p, "update") /\ latest' = latest \cup {p}
  /\ UNCHANGED <<world, fas, byHand, locals>>

(* The update carries no MinReplicas, so the minimum becomes zero.  Agones  *)
(* may or may not refuse a buffer above MaxReplicas.                        *)
PerformAutoScale(p) ==
  /\ pc[p] = "update"
  /\ \/ /\ p \in latest
        /\ ServiceStores([buffer |-> target[p], min |-> 0])
        /\ current' = [current EXCEPT ![p] = target[p]]
        /\ Goto(p, "sleep")
     \/ /\ p \notin latest \/ target[p] > MaxReplicas
        /\ Stop(p)
        /\ UNCHANGED <<fas, byHand, latest, current>>
  /\ UNCHANGED <<world, created, target>>

Wake(p) == /\ pc[p] = "sleep"
           /\ Goto(p, "check")
           /\ UNCHANGED <<world, fas, byHand, latest, locals>>

(* A write takes effect, but its answer is an error.                        *)
AnswerLost(p) ==
  /\ Fault
  /\ \/ /\ pc[p] = "create" /\ fas = NoFas
        /\ ServiceStores([buffer |-> DefaultReplica, min |-> DefaultReplica + 1])
     \/ /\ pc[p] = "update" /\ p \in latest
        /\ ServiceStores([buffer |-> target[p], min |-> 0])
  /\ Stop(p)
  /\ UNCHANGED <<players, metric, locals>>

(* A call fails without effect, or the process is killed.                   *)
Killed(p) == /\ Fault
             /\ pc[p] # "down"
             /\ Stop(p)
             /\ UNCHANGED <<players, metric, fas, byHand, latest, locals>>

-----------------------------------------------------------------------------
(* Around the service.                                                      *)

PlayersChange(n) == /\ players' = n
                    /\ UNCHANGED <<metric, fas, byHand, latest, pc, locals, left>>

(* Stackdriver, asked for ALIGN_SUM over 60 seconds: it adds up every value *)
(* a game server exported in the period, then the servers.  The count does  *)
(* not change within a period here.                                         *)
Align == /\ metric' = SamplesPerPeriod * players
         /\ UNCHANGED <<players, fas, byHand, latest, pc, locals, left>>

(* Somebody deletes the resource, as the README asks before a deployment,   *)
(* or sets its buffer to anything, below the default too.                   *)
EditByHand == /\ Fault
              /\ fas # NoFas
              /\ \/ Store(NoFas)
                 \/ \E n \in 0..MaxEdit : Store([fas EXCEPT !.buffer = n])
              /\ byHand' = TRUE
              /\ UNCHANGED <<players, metric, pc, locals>>

-----------------------------------------------------------------------------
Loop(p) == \/ Start(p)
           \/ CheckFasStatus(p)
           \/ ReadTimeSeries(p)
           \/ CreateFas(p)
           \/ GetLatestVersion(p)
           \/ PerformAutoScale(p)
           \/ Wake(p)

Next == \/ \E p \in Scalers : Loop(p) \/ AnswerLost(p) \/ Killed(p)
        \/ \E n \in 0..MaxTotal : PlayersChange(n)
        \/ Align
        \/ EditByHand

Spec == Init /\ [][Next]_vars

(* The process is scheduled, sleeps for 30 seconds only and is restarted;   *)
(* the game servers keep exporting.                                         *)
Fairness == WF_vars(Align) /\ \A p \in Scalers : WF_vars(Loop(p))

FairSpec == Spec /\ Fairness

-----------------------------------------------------------------------------
(* The buffer is below the default, the number of ready servers the system  *)
(* starts with.                                                             *)
TooLow == fas # NoFas /\ fas.buffer < DefaultReplica

(* Only a manual change leaves the buffer too low, and only until the next  *)
(* write of the service: no process that decided before the change, was     *)
(* overtaken, or whose call failed writes such a buffer or puts it back.    *)
NeverBelowDefault == TooLow => byHand

(* The players are n, and what the service asks for is within the maximum.  *)
PlayersAre(n) ==
  players = n /\ DesireBufferSize(SamplesPerPeriod * n) <= MaxReplicas

(* The service undoes such a change although it looked at the resource      *)
(* before, and although the players never settle, as long as their peaks    *)
(* stay within the maximum in the end.                                      *)
DefaultRestored ==
  <>[](\E n \in 0..MaxTotal : PlayersAre(n)) => []<>~TooLow

(* The buffer has this size; without a resource, the default is not written *)
(* anywhere.                                                                *)
BufferIs(size) == IF fas = NoFas THEN size = DefaultReplica ELSE fas.buffer = size

(* When the players settle at n, the buffer settles at the size for         *)
(* SamplesPerPeriod times n, because ALIGN_SUM counts each player once per  *)
(* export.  Processes that overlap stop each other at a stale version, a    *)
(* write may happen although its process dies, and a peak above MaxReplicas *)
(* may stop every round, but the next rounds converge.                      *)
BufferSettles ==
  \A n \in 0..MaxTotal :
    <>[]PlayersAre(n) => <>[]BufferIs(DesireBufferSize(SamplesPerPeriod * n))

(* What the README of the service promises instead: one game server for     *)
(* every DefaultReplica players, which is the size for n itself.            *)
BufferKeepsRatio ==
  \A n \in 0..MaxTotal : <>[]PlayersAre(n) => <>[]BufferIs(DesireBufferSize(n))

=============================================================================
