------------------------- MODULE MatchmakingSystem -------------------------
(* The matchmaker over the allocation service as it really is: the threads  *)
(* of Matchmaker call the handlers of AllocationService, with their stale   *)
(* fleet status, failed Agones calls and restarts, instead of the contract  *)
(* in FleetAllocation.  A step in which only one of the two acts is the     *)
(* step of its own module; the calls, their answers and the servers they    *)
(* are about are spelled out here, without looking at the contract.         *)
EXTENDS Naturals, Sequences, FiniteSets

CONSTANTS Requests, Servers, NoServer, Mortal, Cells, NoCell, MaxPlayers,
          ServiceFaults,     \* Faults of AllocationService
          MatchmakerFaults   \* Faults of Matchmaker, "http" aside

ASSUME SystemAssumption ==
  /\ NoServer \notin Servers
  /\ Mortal \subseteq Servers
  /\ IsFiniteSet(Servers) /\ IsFiniteSet(Requests)
  /\ NoCell \notin Cells
  /\ MaxPlayers \in Nat \ {0}
  /\ ServiceFaults \subseteq {"get", "create", "crash"}
  /\ MatchmakerFaults \subseteq {"udp", "datastore", "crash"}

VARIABLES gs,                                           \* Agones
          readyReplicas, spc, req, code, status, told, lost, up,    \* service
          entity, players, pc, cell, todo, ans, net, count,      \* matchmaker
          granted, spoiled,
          kept,    \* history: the server in the answer that a thread has read
                   \* and not recorded yet
          mislaid  \* history: servers that a stale write took off the lists or
                   \* that a failed request held

serviceVars == <<gs, readyReplicas, spc, req, code, status, told, lost, up>>
vars == <<serviceVars, entity, players, pc, cell, todo, ans, net, count,
          granted, spoiled, kept, mislaid>>

S == INSTANCE AllocationService WITH pc <- spc, Faults <- ServiceFaults

(* What the matchmaker can know of a call: its phase and, once there is     *)
(* one, its server.  Calls break when the service may fail or stop.         *)
phase == [r \in Requests |-> IF kept[r] # NoServer THEN "granted" ELSE S!PhaseOf(r)]
grant == [r \in Requests |-> IF kept[r] # NoServer THEN kept[r] ELSE status[r]]
Faults == MatchmakerFaults \cup
            (IF ServiceFaults \cap {"create", "crash"} = {} THEN {} ELSE {"http"})

M == INSTANCE Matchmaker

Init == /\ S!Init
        /\ kept = [r \in Requests |-> NoServer]
        /\ mislaid = {}
        /\ M!Init

(* The calls in R lose the server they hold, and their cells are spoiled.   *)
Spoil(R) == spoiled' = spoiled \cup {cell[r] : r \in {q \in R : status[q] # NoServer}}

-----------------------------------------------------------------------------
(* The matchmaker and the allocation service together.                      *)

(* The request of RestTemplate arrives with the right verb and key.         *)
CallAllocation(r) ==
  /\ pc[r] = "call"
  /\ S!Connect(r, "authorized")
  /\ M!Goto(r, "await")
  /\ UNCHANGED <<entity, players, cell, todo, ans, net, count, granted, spoiled, kept,
                 mislaid>>

(* Nothing accepts the connection while the process is down.                *)
CallFails(r) ==
  /\ pc[r] = "call"
  /\ ~up
  /\ M!Goto(r, "failed")
  /\ UNCHANGED <<serviceVars, entity, players, cell, todo, ans, net, count, granted,
                 spoiled, kept, mislaid>>

(* Mutant: the body is read whatever the status says.                       *)
ReceiveAnyAnswer(r) ==
  /\ pc[r] = "await"
  /\ S!Deliver(r)
  /\ M!Goto(r, "reread")
  /\ ans' = [ans EXCEPT ![r] = status[r]]
  /\ kept' = [kept EXCEPT ![r] = status[r]]
  /\ UNCHANGED <<entity, players, cell, todo, net, count, granted, spoiled, mislaid>>

(* The response arrives: with 200 its body is the answer, with any other    *)
(* status RestTemplate throws.                                              *)
ReceiveAnswer(r) ==
  /\ pc[r] = "await"
  /\ S!Deliver(r)
  /\ IF code[r] = 200
     THEN /\ M!Goto(r, "reread")
          /\ ans' = [ans EXCEPT ![r] = status[r]]
          /\ kept' = [kept EXCEPT ![r] = status[r]]
     ELSE M!Goto(r, "failed") /\ UNCHANGED <<ans, kept>>
  /\ UNCHANGED <<entity, players, cell, todo, net, count, granted, spoiled, mislaid>>

(* The connection breaks under the waiting thread.                          *)
ConnectionBreaks(r) ==
  /\ pc[r] = "await"
  /\ S!Hangup(r)
  /\ M!Goto(r, "failed")
  /\ UNCHANGED <<entity, players, cell, todo, ans, net, count, granted, spoiled, kept,
                 mislaid>>

(* createOrUpdateCellId records the server of the answer.                   *)
Write(r) ==
  /\ pc[r] = "write"
  /\ entity' = [entity EXCEPT ![cell[r]] = Append(todo[r], ans[r])]
  /\ \/ M!Goto(r, "answered")
     \/ "datastore" \in MatchmakerFaults /\ M!Goto(r, "failed")
  /\ kept' = [kept EXCEPT ![r] = NoServer]
  /\ spoiled' = spoiled \cup
                  (IF todo[r] = entity[cell[r]] THEN {} ELSE {cell[r]})
  /\ mislaid' = mislaid \cup (M!Recorded(cell[r]) \ M!Range(entity'[cell[r]]))
  /\ UNCHANGED <<serviceVars, players, cell, todo, ans, net, count, granted>>

(* The player of a failed request gives up.  If the matchmaker stopped in   *)
(* the middle of the call, the handler went on and nobody reads its answer. *)
Recycle(r) ==
  /\ pc[r] = "failed"
  /\ \/ spc[r] = "idle" /\ UNCHANGED serviceVars
     \/ S!Deliver(r)
     \/ S!Hangup(r)
  /\ M!Forget(r)
  /\ kept' = [kept EXCEPT ![r] = NoServer]
  /\ spoiled' = spoiled \cup
                  (IF kept[r] = NoServer /\ status[r] = NoServer THEN {} ELSE {cell[r]})
  /\ mislaid' = mislaid \cup ({kept[r], status[r]} \ {NoServer})
  /\ UNCHANGED <<entity, players, granted>>

-----------------------------------------------------------------------------
(* The allocation service alone.                                            *)
threadVars == <<entity, players, pc, cell, todo, ans, net, count>>

Handler(r) ==
  /\ S!Route(r) \/ S!CheckReady(r) \/ S!CreateReturns(r)
  /\ UNCHANGED <<threadVars, granted, spoiled, kept, mislaid>>

Create(r, s) == /\ S!Create(r, s)
                /\ granted' = [granted EXCEPT ![cell[r]] = @ \cup {s}]
                /\ UNCHANGED <<threadVars, spoiled, kept, mislaid>>

CreateFails(r) == /\ S!CreateFails(r)
                  /\ Spoil({r})
                  /\ UNCHANGED <<threadVars, granted, kept, mislaid>>

ServiceCrash == /\ S!Crash
                /\ Spoil(Requests)
                /\ UNCHANGED <<threadVars, granted, kept, mislaid>>

Platform == /\ S!Restart \/ S!SyncStatus
            /\ UNCHANGED <<threadVars, granted, spoiled, kept, mislaid>>

-----------------------------------------------------------------------------
(* The matchmaker alone, the game servers and the players.                  *)
ThreadAlone(r) ==
  /\ UNCHANGED <<serviceVars, kept, mislaid>>
  /\ \/ M!Find(r) \/ M!SendPcount(r) \/ M!ReceiveCount(r) \/ M!ReceiveAck(r)
     \/ M!Exhausted(r) \/ M!Reread(r) \/ M!DatastoreFails(r)

GameServer(r) == UNCHANGED <<serviceVars, kept, mislaid>> /\ M!AnswerPcount(r)

Others(r) ==
  /\ UNCHANGED <<serviceVars, kept, mislaid>>
  /\ \/ M!LoseDatagram(r) \/ M!Join(r) \/ M!GiveUp(r)
     \/ \E c \in Cells : M!GetAllocation(r, c)

MatchmakerCrash == UNCHANGED <<serviceVars, kept, mislaid>> /\ M!Crash

Leave(s) == UNCHANGED <<serviceVars, kept, mislaid>> /\ M!Leave(s)
SpawnServer(s) == S!Spawn(s) /\ UNCHANGED <<kept, mislaid>> /\ M!SpawnServer(s)
ServerExit(s) == /\ S!Exit(s)
                 /\ mislaid' = mislaid \ {s}
                 /\ UNCHANGED kept
                 /\ M!ServerExit(s)

-----------------------------------------------------------------------------
Thread(r) == \/ ThreadAlone(r)
             \/ CallAllocation(r)
             \/ CallFails(r)
             \/ ReceiveAnswer(r)
             \/ ConnectionBreaks(r)
             \/ Write(r)

Serve(r) == Handler(r) \/ CreateFails(r) \/ \E s \in Servers : Create(r, s)

Next == \/ \E r \in Requests : Thread(r) \/ Serve(r) \/ Recycle(r) \/ GameServer(r)
                                 \/ Others(r)
        \/ ServiceCrash
        \/ MatchmakerCrash
        \/ Platform
        \/ \E s \in Servers : Leave(s) \/ SpawnServer(s) \/ ServerExit(s)

Spec == Init /\ [][Next]_vars

(* Threads and goroutines are scheduled, the API server answers and a       *)
(* running game server reads its socket.                                    *)
Fairness == \A r \in Requests : /\ WF_vars(Thread(r))
                                /\ WF_vars(Serve(r))
                                /\ WF_vars(GameServer(r))

FairSpec == Spec /\ Fairness

-----------------------------------------------------------------------------
TypeOK == /\ S!TypeOK
          /\ M!TypeOK
          /\ kept \in [Requests -> Servers \cup {NoServer}]
          /\ mislaid \subseteq Servers

(* The service acts here as it does alone.                                  *)
ImplementsService == S!Spec

(* The handlers do for the matchmaker what FleetAllocation promised: every  *)
(* step of the two together is a step of Matchmaker.                        *)
ImplementsMatchmaker == M!Spec

(* From the API server to the Datastore no server gets lost unseen: one     *)
(* that is Allocated is on record, or a call or a thread holds it.  The     *)
(* only others are, server by server, those whose own call broke in the     *)
(* service (lost), and those whose own request failed before it recorded    *)
(* them or which a write of stale lists took off the record (mislaid).  The *)
(* trouble of one server, or of its cell, excuses no other.                 *)
NoServerForgotten ==
  \A s \in Servers : gs[s] = "Allocated" =>
    \/ s \in lost \cup mislaid
    \/ \E c \in Cells : s \in M!Recorded(c)
    \/ \E r \in Requests : s \in {status[r], kept[r]}

(* Every request returns although the fleet may be empty, the fleet status  *)
(* stale and the service restarting, as long as the servers once allocated  *)
(* keep running to answer the probes.                                       *)
ServersRun == \A c \in Cells : \A s \in granted[c] : gs[s] = "Allocated"
EveryRequestReturns == []ServersRun => M!EveryRequestReturns

=============================================================================
