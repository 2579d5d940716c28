---------------------- MODULE MatchmakingSystemProofs ----------------------
(* Theorems about MatchmakingSystem: what is proved of the allocation       *)
(* service and of the matchmaker apart holds of the two together.           *)
EXTENDS MatchmakingSystem, TLAPS

SP == INSTANCE AllocationServiceProofs WITH pc <- spc, Faults <- ServiceFaults
MP == INSTANCE MatchmakerProofs

-----------------------------------------------------------------------------
(* A step of the two together is a step of the service or none of it.       *)
LEMMA ServiceStep == [Next]_vars => [S!Next]_(S!vars)
<1> SUFFICES ASSUME [Next]_vars PROVE S!Next \/ UNCHANGED serviceVars
  BY DEF S!vars, serviceVars
<1>1. ASSUME NEW r \in Requests, Thread(r) PROVE S!Next \/ UNCHANGED serviceVars
  <2>1. CASE CallAllocation(r)
    <3>1. S!Connect(r, "authorized") /\ "authorized" \in S!Kinds
      BY <2>1 DEF CallAllocation, S!Kinds
    <3>2. QED
      BY <3>1 DEF S!Next
  <2>2. CASE ReceiveAnswer(r) \/ ConnectionBreaks(r)
    BY <2>2 DEF ReceiveAnswer, ConnectionBreaks, S!Next, S!Serve
  <2>3. CASE ThreadAlone(r) \/ CallFails(r) \/ Write(r)
    BY <2>3 DEF ThreadAlone, CallFails, Write, serviceVars
  <2>4. QED
    BY <1>1, <2>1, <2>2, <2>3 DEF Thread
<1>2. ASSUME NEW r \in Requests, Serve(r) PROVE S!Next
  BY <1>2 DEF Serve, Handler, Create, CreateFails, S!Next, S!Serve
<1>3. ASSUME NEW r \in Requests, Recycle(r) PROVE S!Next \/ UNCHANGED serviceVars
  BY <1>3 DEF Recycle, S!Next, S!Serve
<1>4. ASSUME NEW r \in Requests, GameServer(r) \/ Others(r)
      PROVE  UNCHANGED serviceVars
  BY <1>4 DEF GameServer, Others
<1>5. CASE ServiceCrash \/ Platform
  BY <1>5 DEF ServiceCrash, Platform, S!Next
<1>6. CASE MatchmakerCrash
  BY <1>6 DEF MatchmakerCrash
<1>7. ASSUME NEW s \in Servers, Leave(s) \/ SpawnServer(s) \/ ServerExit(s)
      PROVE  S!Next \/ UNCHANGED serviceVars
  BY <1>7 DEF Leave, SpawnServer, ServerExit, S!Next
<1>8. CASE UNCHANGED vars
  BY <1>8 DEF vars
<1>9. QED
  BY <1>1, <1>2, <1>3, <1>4, <1>5, <1>6, <1>7, <1>8 DEF Next

(* The service does nothing in the composition that it does not do alone.   *)
THEOREM ServiceUndisturbed == Spec => ImplementsService
<1>1. Init => S!Init
  BY DEF Init
<1>2. QED
  BY <1>1, ServiceStep, PTL DEF Spec, ImplementsService, S!Spec

(* The formulas of AllocationService and those that its theorems are about  *)
(* are the same.                                                            *)
LEMMA SameService == S!Spec => SP!Spec
<1>1. S!Init => SP!Init
  BY DEF S!Init, SP!Init, S!ReadyServers, SP!ReadyServers, S!Cardinality,
         SP!Cardinality
<1>2. [S!Next]_(S!vars) => [SP!Next]_(SP!vars)
  BY DEF S!Next, SP!Next, S!vars, SP!vars, S!Serve, SP!Serve, S!Connect, SP!Connect,
         S!Route, SP!Route, S!CheckReady, SP!CheckReady, S!CheckReadyReplicas,
         SP!CheckReadyReplicas, S!Create, SP!Create, S!CreateFails, SP!CreateFails,
         S!CreateReturns, SP!CreateReturns, S!Deliver, SP!Deliver, S!Hangup, SP!Hangup,
         S!Crash, SP!Crash, S!Restart, SP!Restart, S!SyncStatus, SP!SyncStatus,
         S!Spawn, SP!Spawn, S!Exit, SP!Exit, S!Goto, SP!Goto, S!Respond, SP!Respond,
         S!Open, SP!Open, S!Held, SP!Held, S!ReadyServers, SP!ReadyServers,
         S!Kinds, SP!Kinds, S!Cardinality, SP!Cardinality
<1>3. QED
  BY <1>1, <1>2, PTL DEF S!Spec, SP!Spec

(* What the proofs about the service found of its connections.              *)
ServiceInv == S!TypeOK /\ SP!StatusFollowsPc /\ S!AnswerMatchesCode /\ S!SpentServersKnown

(* They hold of the service in the composition: its answers match their     *)
(* statuses and a connection has a server exactly while it holds one.       *)
LEMMA ServiceInvHolds == Spec => []ServiceInv
<1>1. SP!ServiceAssumption
  BY SystemAssumption DEF SP!ServiceAssumption, SP!IsFiniteSet, IsFiniteSet
<1>2. SP!Spec => [](SP!AnswerInv /\ SP!AnswerMatchesCode /\ SP!SpentServersKnown)
  BY <1>1, SP!AnswerInvHolds, SP!AnswersMatchCodes, SP!NothingWasted, PTL
<1>3. SP!AnswerInv /\ SP!AnswerMatchesCode /\ SP!SpentServersKnown => ServiceInv
  BY DEF SP!AnswerInv, ServiceInv, S!TypeOK, SP!TypeOK, S!AnswerMatchesCode,
         S!Kinds, SP!Kinds,
         SP!AnswerMatchesCode, S!SpentServersKnown, SP!SpentServersKnown
<1>4. QED
  BY <1>2, <1>3, ServiceUndisturbed, SameService, PTL DEF ImplementsService

-----------------------------------------------------------------------------
(* The two halves of a call agree: a connection is open only for a thread   *)
(* that waits or has failed, and only a thread that has read a 200 keeps a  *)
(* server, the one that it is about to record.                              *)
Agreement ==
  \A r \in Requests :
    /\ req[r] = "authorized"
    /\ spc[r] # "idle" => pc[r] \in {"await", "failed"} /\ kept[r] = NoServer
    /\ kept[r] # NoServer => pc[r] \in {"reread", "write", "failed"}
    /\ pc[r] \in {"reread", "write"} => kept[r] # NoServer /\ kept[r] = ans[r]
    /\ pc[r] # "idle" => cell[r] \in Cells

(* The agreement, with the types that it rests on.  Nothing stops the       *)
(* service but a crash.                                                     *)
SystemInv == /\ Agreement
             /\ up \/ "crash" \in ServiceFaults
             /\ kept \in [Requests -> Servers \cup {NoServer}]
             /\ pc \in [Requests -> M!Labels]
             /\ cell \in [Requests -> Cells \cup {NoCell}]
             /\ ans = [r \in Requests |-> ans[r]]

(* Every step keeps the agreement.                                          *)
LEMMA SystemInvStep == ServiceInv /\ SystemInv /\ [Next]_vars => SystemInv'
<1> SUFFICES ASSUME ServiceInv, SystemInv, [Next]_vars PROVE SystemInv'
  OBVIOUS
<1> USE SystemAssumption DEF SystemInv, Agreement, ServiceInv, S!TypeOK, M!Labels,
        serviceVars, M!Goto, M!Forget, M!allocVars, M!netVars, M!history, M!threadVars
<1>1. ASSUME NEW r \in Requests, ThreadAlone(r) PROVE SystemInv'
  <2>1. UNCHANGED <<up, kept, cell, spc, req>>
    BY <1>1 DEF ThreadAlone, M!Find, M!SendPcount, M!ReceiveCount, M!ReceiveAck,
                M!Exhausted, M!Reread, M!DatastoreFails
  <2>2. CASE M!Find(r) \/ M!Exhausted(r) \/ M!DatastoreFails(r) \/ M!Reread(r)
    BY <2>1, <2>2 DEF M!Find, M!Exhausted, M!DatastoreFails, M!Reread
  <2>3. CASE M!SendPcount(r)
    <3>1. PICK x : ans' = [ans EXCEPT ![r] = x]
      BY <2>3 DEF M!SendPcount
    <3>2. pc[r] = "scan" /\ pc' = [pc EXCEPT ![r] = "probe"]
      BY <2>3 DEF M!SendPcount
    <3>3. ans' = [q \in Requests |-> ans'[q]]
      BY <3>1
    <3>4. QED
      BY <2>1, <3>1, <3>2, <3>3
  <2>4. CASE M!ReceiveCount(r) \/ M!ReceiveAck(r)
    BY <2>1, <2>4 DEF M!ReceiveCount, M!ReceiveAck
  <2>5. QED
    BY <1>1, <2>2, <2>3, <2>4 DEF ThreadAlone
<1>2. ASSUME NEW r \in Requests, CallAllocation(r) PROVE SystemInv'
  BY <1>2 DEF CallAllocation, S!Connect, S!Goto
<1>3. ASSUME NEW r \in Requests, CallFails(r) PROVE SystemInv'
  BY <1>3 DEF CallFails
<1>4. ASSUME NEW r \in Requests, ReceiveAnswer(r) PROVE SystemInv'
  <2>1. CASE code[r] = 200
    <3>1. spc[r] = "reply" /\ status[r] \in Servers
      BY <1>4, <2>1 DEF ReceiveAnswer, S!Deliver, SP!StatusFollowsPc
    <3>2. /\ pc[r] = "await" /\ pc' = [pc EXCEPT ![r] = "reread"]
          /\ ans' = [ans EXCEPT ![r] = status[r]]
          /\ kept' = [kept EXCEPT ![r] = status[r]]
          /\ spc' = [spc EXCEPT ![r] = "idle"]
          /\ UNCHANGED <<up, req, cell>>
      BY <1>4, <2>1 DEF ReceiveAnswer, S!Deliver
    <3>3. ans' = [q \in Requests |-> ans'[q]]
      BY <3>2
    <3>4. kept' \in [Requests -> Servers \cup {NoServer}]
      BY <3>1, <3>2
    <3>5. Agreement'
      BY <3>1, <3>2
    <3>6. QED
      BY <3>2, <3>3, <3>4, <3>5
  <2>2. CASE code[r] # 200
    BY <1>4, <2>2 DEF ReceiveAnswer, S!Deliver
  <2>3. QED
    BY <2>1, <2>2
<1>5. ASSUME NEW r \in Requests, ConnectionBreaks(r) PROVE SystemInv'
  BY <1>5 DEF ConnectionBreaks, S!Hangup, S!Goto
<1>6. ASSUME NEW r \in Requests, Write(r) PROVE SystemInv'
  BY <1>6 DEF Write
<1>7. ASSUME NEW r \in Requests, Recycle(r) PROVE SystemInv'
  <2>1. /\ spc'[r] = "idle" /\ \A q \in Requests \ {r} : spc'[q] = spc[q]
        /\ UNCHANGED <<req, up>>
    BY <1>7 DEF Recycle, S!Deliver, S!Hangup, S!Goto
  <2>2. /\ pc' = [pc EXCEPT ![r] = "idle"] /\ cell' = [cell EXCEPT ![r] = NoCell]
        /\ ans' = [ans EXCEPT ![r] = NoServer]
        /\ kept' = [kept EXCEPT ![r] = NoServer]
    BY <1>7 DEF Recycle
  <2>3. ans' = [q \in Requests |-> ans'[q]]
    BY <2>2
  <2>4. QED
    BY <2>1, <2>2, <2>3
<1>8. ASSUME NEW r \in Requests, Serve(r) PROVE SystemInv'
  <2>1. /\ spc[r] # "idle" /\ \A q \in Requests \ {r} : spc'[q] = spc[q]
        /\ UNCHANGED <<req, up, threadVars, kept>>
    BY <1>8 DEF Serve, Handler, Create, CreateFails, S!Route, S!CheckReady, S!Create,
                S!CreateFails, S!CreateReturns, S!Goto, S!Respond
  <2>2. QED
    BY <2>1 DEF threadVars
<1>9. ASSUME NEW r \in Requests, GameServer(r) \/ Others(r) PROVE SystemInv'
  <2>1. UNCHANGED <<up, kept, spc, req>>
    BY <1>9 DEF GameServer, Others
  <2>2. CASE M!AnswerPcount(r) \/ M!LoseDatagram(r)
    BY <2>1, <2>2 DEF M!AnswerPcount, M!LoseDatagram
  <2>3. CASE M!Join(r) \/ M!GiveUp(r)
    BY <2>1, <2>3 DEF M!Join, M!GiveUp
  <2>4. ASSUME NEW c \in Cells, M!GetAllocation(r, c) PROVE SystemInv'
    BY <2>1, <2>4 DEF M!GetAllocation
  <2>5. QED
    BY <1>9, <2>2, <2>3, <2>4 DEF GameServer, Others
<1>10. CASE ServiceCrash
  <2>1. /\ \A q \in Requests : spc[q] = "idle" => spc'[q] = "idle"
        /\ "crash" \in ServiceFaults
        /\ UNCHANGED <<req, threadVars, kept>>
    BY <1>10 DEF ServiceCrash, S!Crash, S!Open
  <2>2. QED
    BY <2>1 DEF threadVars
<1>11. CASE MatchmakerCrash
  <2>1. UNCHANGED <<serviceVars, kept, cell, ans>>
    BY <1>11 DEF MatchmakerCrash, M!Crash
  <2>2. pc' = [r \in Requests |-> IF r \in M!Running THEN "failed" ELSE pc[r]]
    BY <1>11 DEF MatchmakerCrash, M!Crash
  <2>3. \A q \in Requests : pc'[q] \in {"failed", pc[q]} /\ (pc[q] = "idle" => pc'[q] = "idle")
    BY <2>2 DEF M!Running
  <2>4. pc' \in [Requests -> M!Labels]
    BY <2>2, <2>3
  <2>5. QED
    BY <2>1, <2>3, <2>4
<1>12. CASE Platform
  BY <1>12 DEF Platform, S!Restart, S!SyncStatus, threadVars
<1>13. ASSUME NEW s \in Servers, Leave(s) \/ SpawnServer(s) \/ ServerExit(s)
       PROVE  SystemInv'
  <2>1. UNCHANGED <<up, kept, spc, req, pc, cell, ans>>
    BY <1>13 DEF Leave, SpawnServer, ServerExit, S!Spawn, S!Exit, M!Leave,
                 M!SpawnServer, M!ServerExit
  <2>2. QED
    BY <2>1
<1>14. CASE UNCHANGED vars
  BY <1>14 DEF vars
<1>15. QED
  BY <1>1, <1>2, <1>3, <1>4, <1>5, <1>6, <1>7, <1>8, <1>9, <1>10, <1>11, <1>12,
     <1>13, <1>14 DEF Next, Thread

(* The two halves of every call agree in every reachable state.             *)
LEMMA SystemInvHolds == Spec => [](ServiceInv /\ SystemInv)
<1>1. Init => SystemInv
  BY SystemAssumption DEF Init, S!Init, M!Init, SystemInv, Agreement, M!Labels
<1>2. QED
  BY <1>1, SystemInvStep, ServiceInvHolds, PTL DEF Spec

-----------------------------------------------------------------------------
(* What the matchmaker knows of the calls changes with the connections and  *)
(* the kept answers only, and at the call that moves.                       *)
LEMMA NoCallMoves ==
  ASSUME UNCHANGED <<kept, spc, status>>
  PROVE  UNCHANGED <<phase, grant>>
BY DEF phase, grant, S!PhaseOf

LEMMA OneCallMoves ==
  ASSUME NEW r \in Requests,
         \A q \in Requests \ {r} :
           kept'[q] = kept[q] /\ spc'[q] = spc[q] /\ status'[q] = status[q]
  PROVE  /\ phase' = [phase EXCEPT ![r] = phase'[r]]
         /\ phase' = [q \in Requests |-> IF q \in {r} THEN phase'[r] ELSE phase[q]]
         /\ grant' = [grant EXCEPT ![r] = grant'[r]]
         /\ grant' = [q \in Requests |-> IF q \in {r} THEN grant'[r] ELSE grant[q]]
<1>1. \A q \in Requests \ {r} : phase'[q] = phase[q] /\ grant'[q] = grant[q]
  BY DEF phase, grant, S!PhaseOf
<1>2. /\ phase = [q \in Requests |-> phase[q]] /\ phase' = [q \in Requests |-> phase'[q]]
      /\ grant = [q \in Requests |-> grant[q]] /\ grant' = [q \in Requests |-> grant'[q]]
  BY DEF phase, grant
<1>3. QED
  BY <1>1, <1>2

(* Both are functions on the requests.                                      *)
LEMMA CallFunctions == /\ phase = [r \in Requests |-> phase[r]]
                       /\ grant = [r \in Requests |-> grant[r]]
BY DEF phase, grant

(* The steps of the service are steps of the contract that the matchmaker   *)
(* relies on, and no other steps.                                           *)
LEMMA ServeStep ==
  ASSUME ServiceInv, SystemInv, NEW r \in Requests, Serve(r)
  PROVE  M!Next \/ UNCHANGED M!vars
<1> USE SystemAssumption DEF SystemInv, Agreement, ServiceInv, S!TypeOK, threadVars,
        S!Goto, S!Respond
<1>1. /\ kept[r] = NoServer /\ pc[r] \in {"await", "failed"}
      /\ UNCHANGED <<kept, threadVars>>
      /\ \A q \in Requests \ {r} : spc'[q] = spc[q] /\ status'[q] = status[q]
  BY DEF Serve, Handler, Create, CreateFails, S!Route, S!CheckReady, S!Create,
         S!CreateFails, S!CreateReturns
<1>2. /\ phase[r] = S!PhaseOf(r) /\ grant[r] = status[r]
      /\ phase'[r] = S!PhaseOf(r)' /\ grant'[r] = status'[r]
  BY <1>1 DEF phase, grant
<1>3. /\ phase' = [phase EXCEPT ![r] = phase'[r]]
      /\ phase' = [q \in Requests |-> IF q \in {r} THEN phase'[r] ELSE phase[q]]
      /\ grant' = [grant EXCEPT ![r] = grant'[r]]
      /\ grant' = [q \in Requests |-> IF q \in {r} THEN grant'[r] ELSE grant[q]]
  BY <1>1, OneCallMoves
<1>4. CASE S!Route(r) /\ Handler(r)
  <2>1. spc[r] = "accepted" /\ spc'[r] = "check" /\ UNCHANGED <<gs, status, granted, spoiled>>
    BY <1>4 DEF Handler, S!Route
  <2>2. phase'[r] = phase[r] /\ grant'[r] = grant[r]
    BY <1>2, <2>1 DEF S!PhaseOf
  <2>3. UNCHANGED M!vars
    BY <1>1, <1>3, <2>1, <2>2 DEF M!vars, phase, grant
  <2>4. QED
    BY <2>3
<1>5. CASE S!CreateReturns(r) /\ Handler(r)
  <2>1. spc[r] = "created" /\ spc'[r] = "reply" /\ UNCHANGED <<gs, status, granted, spoiled>>
    BY <1>5 DEF Handler, S!CreateReturns
  <2>2. phase'[r] = phase[r] /\ grant'[r] = grant[r]
    BY <1>2, <2>1 DEF S!PhaseOf
  <2>3. UNCHANGED M!vars
    BY <1>1, <1>3, <2>1, <2>2 DEF M!vars, phase, grant
  <2>4. QED
    BY <2>3
<1>6. CASE S!CheckReady(r) /\ Handler(r)
  <2>1. /\ spc[r] = "check" /\ spc'[r] \in {"create", "reply"}
        /\ UNCHANGED <<gs, status, granted, spoiled>>
    BY <1>6 DEF Handler, S!CheckReady
  <2>2. phase[r] = "asked" /\ status[r] = NoServer /\ grant'[r] = NoServer
    BY <1>2, <2>1 DEF S!PhaseOf, SP!StatusFollowsPc
  <2>3. CASE spc'[r] = "create"
    <3>1. phase'[r] = phase[r] /\ grant'[r] = grant[r]
      BY <1>2, <2>1, <2>2, <2>3 DEF S!PhaseOf
    <3>2. UNCHANGED M!vars
      BY <1>1, <1>3, <2>1, <3>1 DEF M!vars, phase, grant
    <3>3. QED
      BY <3>2
  <2>4. CASE spc'[r] = "reply"
    <3>1. phase'[r] = "refused"
      BY <1>2, <2>1, <2>2, <2>4 DEF S!PhaseOf
    <3>2. M!AllocationRefuses({r})
      BY <1>1, <1>3, <2>1, <2>2, <3>1
         DEF M!AllocationRefuses, M!Refuse, M!threadVars, M!netVars
    <3>3. QED
      BY <3>2 DEF M!Next
  <2>5. QED
    BY <2>1, <2>3, <2>4
<1>7. CASE CreateFails(r)
  <2>1. /\ spc[r] \in {"create", "created"} /\ spc'[r] = "reply"
        /\ spc[r] = "created" => "create" \in ServiceFaults
        /\ status'[r] = NoServer
        /\ spoiled' = spoiled \cup (IF status[r] # NoServer THEN {cell[r]} ELSE {})
        /\ UNCHANGED <<gs, granted>>
    BY <1>7 DEF CreateFails, S!CreateFails, Spoil
  <2>2. /\ phase[r] \in {"asked", "granted"}
        /\ phase[r] = "granted" <=> status[r] # NoServer
        /\ phase[r] = "granted" => "create" \in ServiceFaults
    BY <1>2, <2>1 DEF S!PhaseOf, SP!StatusFollowsPc
  <2>3. phase'[r] = "refused" /\ grant'[r] = NoServer
    BY <1>2, <2>1 DEF S!PhaseOf
  <2>4. M!AllocationRefuses({r})
    BY <1>1, <1>3, <2>1, <2>2, <2>3
       DEF M!AllocationRefuses, M!Refuse, M!threadVars, M!netVars, Faults
  <2>5. QED
    BY <2>4 DEF M!Next
<1>8. ASSUME NEW s \in Servers, Create(r, s) PROVE M!Next
  <2>1. /\ spc[r] = "create" /\ spc'[r] = "created" /\ status'[r] = s
        /\ gs[s] = "Ready" /\ gs' = [gs EXCEPT ![s] = "Allocated"]
        /\ granted' = [granted EXCEPT ![cell[r]] = @ \cup {s}]
        /\ UNCHANGED spoiled
    BY <1>8 DEF Create, S!Create
  <2>2. phase[r] = "asked" /\ phase'[r] = "granted" /\ grant'[r] = s
    BY <1>2, <2>1 DEF S!PhaseOf
  <2>3. M!AllocationGrants(r, s)
    BY <1>1, <1>3, <2>1, <2>2
       DEF M!AllocationGrants, M!Grant, M!threadVars, M!netVars
  <2>4. QED
    BY <2>3 DEF M!Next
<1>9. QED
  BY <1>4, <1>5, <1>6, <1>7, <1>8 DEF Serve, Handler

(* A crash of the service refuses the calls that it was working on.         *)
LEMMA CrashStep ==
  ASSUME ServiceInv, SystemInv, ServiceCrash
  PROVE  M!Next \/ UNCHANGED M!vars
<1> USE SystemAssumption DEF SystemInv, Agreement, ServiceInv, S!TypeOK, threadVars
<1> DEFINE R == {r \in Requests : S!PhaseOf(r) \in {"asked", "granted"} /\ spc[r] # "idle"}
<1>1. /\ "crash" \in ServiceFaults
      /\ spc' = [r \in Requests |-> IF spc[r] \in {"idle", "dropped"} THEN spc[r]
                                                                     ELSE "dropped"]
      /\ status' = [r \in Requests |-> NoServer]
      /\ UNCHANGED <<gs, threadVars, granted, kept>>
  BY DEF ServiceCrash, S!Crash, S!Open
<1>2. \A r \in Requests : status[r] # NoServer <=> r \in R /\ S!PhaseOf(r) = "granted"
  BY DEF S!PhaseOf, SP!StatusFollowsPc
<1>3. spoiled' = spoiled \cup {cell[r] : r \in {q \in R : phase[q] = "granted"}}
  <2>1. {q \in Requests : status[q] # NoServer} = {q \in R : phase[q] = "granted"}
    BY <1>2 DEF phase
  <2>2. QED
    BY <2>1 DEF ServiceCrash, Spoil
<1>4. \A r \in R : /\ phase[r] \in {"asked", "granted"} /\ pc[r] \in {"await", "failed"}
                   /\ phase'[r] = "refused" /\ grant'[r] = NoServer
  BY <1>1 DEF phase, grant, S!PhaseOf
<1>5. \A r \in Requests \ R : phase'[r] = phase[r] /\ grant'[r] = grant[r]
  BY <1>1, <1>2 DEF phase, grant, S!PhaseOf, SP!StatusFollowsPc
<1>6. /\ phase' = [r \in Requests |-> IF r \in R THEN "refused" ELSE phase[r]]
      /\ grant' = [r \in Requests |-> IF r \in R THEN NoServer ELSE grant[r]]
  BY <1>4, <1>5 DEF phase, grant
<1>7. CASE R = {}
  <2>1. UNCHANGED <<phase, grant, spoiled>>
    <3>1. UNCHANGED <<phase, grant>>
      BY <1>6, <1>7, CallFunctions
    <3>2. QED
      BY <1>3, <1>7, <3>1
  <2>2. QED
    BY <1>1, <2>1 DEF M!vars
<1>8. CASE R # {}
  <2>1. M!AllocationRefuses(R)
    BY <1>1, <1>3, <1>4, <1>6, <1>8
       DEF M!AllocationRefuses, M!Refuse, M!threadVars, M!netVars, Faults
  <2>2. R \in SUBSET Requests
    OBVIOUS
  <2>3. QED
    BY <2>1, <2>2 DEF M!Next
<1>9. QED
  BY <1>7, <1>8

(* The steps of the two together, as the matchmaker knows them.             *)
LEMMA CallStep ==
  ASSUME ServiceInv, SystemInv, NEW r \in Requests,
         \/ CallAllocation(r) \/ CallFails(r) \/ ReceiveAnswer(r)
         \/ ConnectionBreaks(r) \/ Write(r) \/ Recycle(r)
  PROVE  M!Thread(r) \/ M!Player(r)
<1> USE SystemAssumption DEF SystemInv, Agreement, ServiceInv, S!TypeOK, serviceVars,
        M!allocVars, M!threadVars, M!netVars, M!history
<1> DEFINE Moves == /\ phase' = [phase EXCEPT ![r] = phase'[r]]
                    /\ grant' = [grant EXCEPT ![r] = grant'[r]]
<1>1. CASE CallAllocation(r)
  <2>1. /\ spc[r] = "idle" /\ spc' = [spc EXCEPT ![r] = "accepted"]
        /\ kept[r] = NoServer /\ status[r] = NoServer
        /\ UNCHANGED <<gs, kept, status>>
    BY <1>1 DEF CallAllocation, S!Connect, S!Goto, SP!StatusFollowsPc
  <2>2. phase[r] = "idle" /\ phase'[r] = "asked" /\ UNCHANGED grant
    BY <2>1 DEF phase, grant, S!PhaseOf
  <2>3. Moves
    BY <2>1, OneCallMoves
  <2>4. M!CallAllocation(r)
    BY <1>1, <2>1, <2>2, <2>3 DEF CallAllocation, M!CallAllocation, M!Ask
  <2>5. QED
    BY <2>4 DEF M!Thread
<1>2. CASE CallFails(r)
  <2>1. "http" \in Faults
    BY <1>2 DEF CallFails, Faults
  <2>2. UNCHANGED <<phase, grant>>
    BY <1>2, NoCallMoves DEF CallFails
  <2>3. M!CallFails(r)
    BY <1>2, <2>1, <2>2 DEF CallFails, M!CallFails
  <2>4. QED
    BY <2>3 DEF M!Thread
<1>3. CASE ReceiveAnswer(r) /\ code[r] = 200
  <2>1. /\ spc[r] = "reply" /\ spc' = [spc EXCEPT ![r] = "idle"]
        /\ kept[r] = NoServer /\ status[r] # NoServer
        /\ kept' = [kept EXCEPT ![r] = status[r]]
        /\ status' = [status EXCEPT ![r] = NoServer]
        /\ UNCHANGED gs
    BY <1>3 DEF ReceiveAnswer, S!Deliver, SP!StatusFollowsPc
  <2>2. /\ phase[r] = "granted" /\ grant[r] = status[r]
        /\ phase'[r] = "granted" /\ grant'[r] = status[r]
    BY <2>1 DEF phase, grant, S!PhaseOf
  <2>3. Moves
    BY <2>1, OneCallMoves
  <2>4. UNCHANGED <<phase, grant>>
    BY <2>2, <2>3, CallFunctions
  <2>5. M!ReceiveGrant(r)
    BY <1>3, <2>1, <2>2, <2>4 DEF ReceiveAnswer, M!ReceiveGrant
  <2>6. QED
    BY <2>5 DEF M!Thread
<1>4. CASE ConnectionBreaks(r) \/ (ReceiveAnswer(r) /\ code[r] # 200)
  <2>1. /\ spc[r] \in {"reply", "dropped"} /\ spc' = [spc EXCEPT ![r] = "idle"]
        /\ kept[r] = NoServer /\ status[r] = NoServer
        /\ status' = [status EXCEPT ![r] = NoServer]
        /\ UNCHANGED <<gs, kept>>
    BY <1>4 DEF ConnectionBreaks, ReceiveAnswer, S!Deliver, S!Hangup, S!Goto,
                SP!StatusFollowsPc
  <2>2. phase[r] = "refused" /\ phase'[r] = "idle" /\ grant'[r] = NoServer
    BY <2>1 DEF phase, grant, S!PhaseOf
  <2>3. Moves
    BY <2>1, OneCallMoves
  <2>4. /\ pc[r] = "await" /\ M!Goto(r, "failed")
        /\ UNCHANGED <<entity, players, cell, todo, ans, net, count, granted, spoiled>>
    BY <1>4 DEF ConnectionBreaks, ReceiveAnswer
  <2>5. M!ReceiveRefusal(r)
    BY <2>1, <2>2, <2>3, <2>4 DEF M!ReceiveRefusal, M!Collect
  <2>6. QED
    BY <2>5 DEF M!Thread
<1>5. CASE Write(r)
  <2>1. /\ spc[r] = "idle" /\ status[r] = NoServer /\ kept[r] # NoServer
        /\ kept' = [kept EXCEPT ![r] = NoServer]
        /\ UNCHANGED <<gs, spc, status>>
    BY <1>5 DEF Write, SP!StatusFollowsPc
  <2>2. phase[r] = "granted" /\ phase'[r] = "idle" /\ grant'[r] = NoServer
    BY <2>1 DEF phase, grant, S!PhaseOf
  <2>3. Moves
    BY <2>1, OneCallMoves
  <2>4. M!Collect(r)
    BY <2>1, <2>2, <2>3 DEF M!Collect
  <2>5. M!Write(r)
    BY <1>5, <2>4 DEF Write, M!Write, Faults
  <2>6. QED
    BY <2>5 DEF M!Thread
<1>6. CASE Recycle(r)
  <2>1. /\ kept' = [kept EXCEPT ![r] = NoServer] /\ UNCHANGED gs
        /\ spc[r] \in {"idle", "reply", "dropped"}
        /\ spc' = [spc EXCEPT ![r] = "idle"]
        /\ status' = [status EXCEPT ![r] = NoServer]
    <3>1. CASE spc[r] = "idle" /\ UNCHANGED serviceVars
      BY <1>6, <3>1 DEF Recycle, SP!StatusFollowsPc
    <3>2. CASE S!Deliver(r)
      BY <1>6, <3>2 DEF Recycle, S!Deliver
    <3>3. CASE S!Hangup(r)
      BY <1>6, <3>3 DEF Recycle, S!Hangup, S!Goto, SP!StatusFollowsPc
    <3>4. QED
      BY <1>6, <3>1, <3>2, <3>3 DEF Recycle
  <2>2. phase'[r] = "idle" /\ grant'[r] = NoServer
    BY <2>1 DEF phase, grant, S!PhaseOf
  <2>3. Moves
    BY <2>1, OneCallMoves
  <2>4. /\ phase[r] \in {"idle", "granted", "refused"}
        /\ phase[r] = "granted" <=> kept[r] # NoServer \/ status[r] # NoServer
        /\ phase[r] = "idle" => grant[r] = NoServer
    BY <2>1 DEF phase, grant, S!PhaseOf, SP!StatusFollowsPc
  <2>5. \/ phase[r] = "idle" /\ UNCHANGED M!allocVars
        \/ M!Collect(r)
    <3>1. CASE phase[r] = "idle"
      <4>1. UNCHANGED <<phase, grant>>
        BY <2>2, <2>3, <2>4, <3>1, CallFunctions
      <4>2. QED
        BY <2>1, <3>1, <4>1
    <3>2. CASE phase[r] # "idle"
      BY <2>1, <2>2, <2>3, <2>4, <3>2 DEF M!Collect
    <3>3. QED
      BY <3>1, <3>2
  <2>6. spoiled' = spoiled \cup (IF phase[r] = "granted" THEN {cell[r]} ELSE {})
    BY <1>6, <2>4 DEF Recycle
  <2>7. M!Recycle(r)
    BY <1>6, <2>5, <2>6 DEF Recycle, M!Recycle
  <2>8. QED
    BY <2>7 DEF M!Player
<1>7. QED
  BY <1>1, <1>2, <1>3, <1>4, <1>5, <1>6

(* Every step of the two together is a step of the matchmaker over the      *)
(* contract, or changes nothing in it.                                      *)
LEMMA MatchmakerStep == ServiceInv /\ SystemInv /\ [Next]_vars => [M!Next]_(M!vars)
<1> SUFFICES ASSUME ServiceInv, SystemInv, [Next]_vars
             PROVE  M!Next \/ UNCHANGED M!vars
  OBVIOUS
<1>1. ASSUME NEW r \in Requests, Thread(r) \/ Recycle(r) PROVE M!Next
  <2>1. CASE ThreadAlone(r)
    BY <2>1 DEF ThreadAlone, M!Next, M!Thread
  <2>2. CASE ~ThreadAlone(r)
    BY <1>1, <2>2, CallStep DEF Thread, M!Next
  <2>3. QED
    BY <2>1, <2>2
<1>2. ASSUME NEW r \in Requests, GameServer(r) \/ Others(r) PROVE M!Next
  BY <1>2 DEF GameServer, Others, M!Next, M!Player
<1>3. CASE MatchmakerCrash
  BY <1>3 DEF MatchmakerCrash, M!Next
<1>4. CASE Platform \/ UNCHANGED vars
  <2>1. UNCHANGED <<gs, kept, spc, status, threadVars, granted, spoiled>>
    BY <1>4 DEF Platform, S!Restart, S!SyncStatus, vars, serviceVars, threadVars
  <2>2. QED
    BY <2>1, NoCallMoves DEF M!vars, threadVars
<1>5. ASSUME NEW s \in Servers, Leave(s) \/ SpawnServer(s) \/ ServerExit(s)
      PROVE  M!Next
  BY <1>5 DEF Leave, SpawnServer, ServerExit, M!Next
<1>6. QED
  BY <1>1, <1>2, <1>3, <1>4, <1>5, ServeStep, CrashStep DEF Next

(* The matchmaker over the real service behaves as the matchmaker over the  *)
(* contract, for every choice of faults in both.                            *)
THEOREM SystemImplementsMatchmaker == Spec => ImplementsMatchmaker
<1>1. Init => M!Init
  BY DEF Init
<1>2. QED
  BY <1>1, MatchmakerStep, SystemInvHolds, PTL DEF Spec, ImplementsMatchmaker, M!Spec

-----------------------------------------------------------------------------
(* The formulas of Matchmaker and those that its theorems are about are the *)
(* same.                                                                    *)
LEMMA SameMatchmaker == M!Spec => MP!Spec
<1>1. M!Init => MP!Init
  BY DEF M!Init, MP!Init, M!AllocInit, MP!AllocInit
<1>2. [M!Next]_(M!vars) => [MP!Next]_(MP!vars)
  BY DEF M!Next, MP!Next, M!vars, MP!vars, M!Thread, MP!Thread,
         M!AnswerPcount, MP!AnswerPcount, M!LoseDatagram, MP!LoseDatagram,
         M!Player, MP!Player, M!AllocationGrants, MP!AllocationGrants,
         M!AllocationRefuses, MP!AllocationRefuses, M!Crash, MP!Crash,
         M!Leave, MP!Leave, M!SpawnServer, MP!SpawnServer,
         M!ServerExit, MP!ServerExit, M!Find, MP!Find,
         M!SendPcount, MP!SendPcount, M!ReceiveCount, MP!ReceiveCount,
         M!ReceiveAck, MP!ReceiveAck, M!Exhausted, MP!Exhausted,
         M!CallAllocation, MP!CallAllocation, M!CallFails, MP!CallFails,
         M!ReceiveGrant, MP!ReceiveGrant, M!ReceiveRefusal, MP!ReceiveRefusal,
         M!Reread, MP!Reread, M!Write, MP!Write,
         M!DatastoreFails, MP!DatastoreFails, M!Join, MP!Join,
         M!GiveUp, MP!GiveUp, M!Recycle, MP!Recycle,
         M!GetAllocation, MP!GetAllocation, M!Running, MP!Running,
         M!Goto, MP!Goto, M!Forget, MP!Forget, M!allocVars, MP!allocVars,
         M!threadVars, MP!threadVars, M!netVars, MP!netVars,
         M!history, MP!history, M!Ask, MP!Ask, M!Grant, MP!Grant,
         M!Refuse, MP!Refuse, M!Collect, MP!Collect, M!Spawn, MP!Spawn,
         M!Exit, MP!Exit
<1>3. QED
  BY <1>1, <1>2, PTL DEF M!Spec, MP!Spec

(* The matchmaker is given what its theorems assume of its parameters.      *)
LEMMA MatchmakerAssumptions == MP!FleetAssumption /\ MP!MatchmakerAssumption
BY SystemAssumption DEF MP!FleetAssumption, MP!MatchmakerAssumption, Faults,
                        MP!IsFiniteSet, IsFiniteSet

(* What the two halves know of each other and the types of the matchmaker.  *)
HalvesTyped == ServiceInv /\ SystemInv /\ M!TypeOK

LEMMA HalvesTypedHolds == Spec => []HalvesTyped
<1>1. MP!Spec => []MP!TypeOK
  BY MatchmakerAssumptions, MP!MatchmakerTyped
<1>2. MP!TypeOK => M!TypeOK
  BY DEF M!TypeOK, MP!TypeOK, M!AllocTypeOK, MP!AllocTypeOK, M!Labels, MP!Labels
<1>3. QED
  BY <1>1, <1>2, SystemImplementsMatchmaker, SameMatchmaker, SystemInvHolds, PTL
     DEF ImplementsMatchmaker, HalvesTyped

(* Only servers are mislaid.                                                *)
MislaidTyped == mislaid \subseteq Servers

LEMMA MislaidStep == HalvesTyped /\ MislaidTyped /\ [Next]_vars => MislaidTyped'
<1> SUFFICES ASSUME HalvesTyped, mislaid \subseteq Servers, [Next]_vars
             PROVE  mislaid' \subseteq Servers
  BY DEF MislaidTyped
<1>1. ASSUME NEW r \in Requests, Write(r) PROVE mislaid' \subseteq Servers
  <2>1. cell[r] \in Cells
    BY <1>1 DEF Write, HalvesTyped, SystemInv, Agreement
  <2>2. M!Recorded(cell[r]) \subseteq Servers
    BY <2>1 DEF HalvesTyped, M!TypeOK, M!Recorded, M!Range
  <2>3. QED
    BY <1>1, <2>2 DEF Write
<1>2. ASSUME NEW r \in Requests, Recycle(r) PROVE mislaid' \subseteq Servers
  <2>1. {kept[r], status[r]} \subseteq Servers \cup {NoServer}
    BY DEF HalvesTyped, SystemInv, ServiceInv, S!TypeOK
  <2>2. mislaid' = mislaid \cup ({kept[r], status[r]} \ {NoServer})
    BY <1>2 DEF Recycle
  <2>3. QED
    BY <2>1, <2>2
<1>3. ASSUME NEW r \in Requests,
             \/ Thread(r) /\ ~Write(r)
             \/ Serve(r) \/ GameServer(r) \/ Others(r)
      PROVE  mislaid' = mislaid
  BY <1>3 DEF Thread, ThreadAlone, CallAllocation, CallFails, ReceiveAnswer,
              ConnectionBreaks, Serve, Handler, CreateFails, Create, GameServer, Others
<1>4. ASSUME ServiceCrash \/ MatchmakerCrash \/ Platform PROVE mislaid' = mislaid
  BY <1>4 DEF ServiceCrash, MatchmakerCrash, Platform
<1>5. ASSUME NEW s \in Servers, Leave(s) \/ SpawnServer(s) \/ ServerExit(s)
      PROVE  mislaid' \subseteq mislaid
  BY <1>5 DEF Leave, SpawnServer, ServerExit
<1>6. CASE Next
  <2>1. ASSUME NEW r \in Requests,
               Thread(r) \/ Serve(r) \/ Recycle(r) \/ GameServer(r) \/ Others(r)
        PROVE  mislaid' \subseteq Servers
    BY <1>1, <1>2, <1>3, <2>1
  <2>2. QED
    BY <1>4, <1>5, <1>6, <2>1 DEF Next
<1>7. CASE UNCHANGED vars
  BY <1>7 DEF vars
<1>8. QED
  BY <1>6, <1>7

(* Every reachable state of the two together is well typed.                 *)
THEOREM SystemTyped == Spec => []TypeOK
<1>1. Init => MislaidTyped
  BY DEF Init, MislaidTyped
<1>2. HalvesTyped /\ MislaidTyped => TypeOK
  BY DEF HalvesTyped, MislaidTyped, ServiceInv, SystemInv, TypeOK
<1>3. QED
  BY <1>1, <1>2, MislaidStep, HalvesTypedHolds, PTL DEF Spec

(* What is promised of the matchmaker holds over the real service: one home *)
(* for a server, nothing leaked but by stale writes and broken requests, a  *)
(* bounded overshoot, and players told of servers of their own cell.        *)
THEOREM PromisesCarryOver ==
  Spec => /\ [](M!OneHome /\ M!SpentServersOnRecord /\ M!OvershootBound)
          /\ M!KeepsContract
<1>1. MP!Spec => /\ [](MP!OneHome /\ MP!SpentServersOnRecord /\ MP!OvershootBound)
                 /\ MP!KeepsContract
  BY MatchmakerAssumptions, MP!RecordedOnce, MP!SpentServersStay,
     MP!OvershootIsBounded, MP!MatchmakerKeepsContract, PTL
<1>2. MP!OneHome => M!OneHome
  BY DEF MP!OneHome, M!OneHome
<1>3. MP!SpentServersOnRecord => M!SpentServersOnRecord
  BY DEF MP!SpentServersOnRecord, M!SpentServersOnRecord, M!Recorded, MP!Recorded,
         M!Range, MP!Range
<1>4. MP!OvershootBound => M!OvershootBound
  BY DEF MP!OvershootBound, M!OvershootBound, M!Committed, MP!Committed,
         M!Cardinality, MP!Cardinality
<1>5. MP!KeepsContract => M!KeepsContract
  <2>1. MP!Contract!ContractInit => M!Contract!ContractInit
    BY DEF MP!Contract!ContractInit, M!Contract!ContractInit, M!Wanted, MP!Wanted,
           M!Told, MP!Told
  <2>2. [MP!Contract!ContractNext]_(MP!Contract!contractVars)
          => [M!Contract!ContractNext]_(M!Contract!contractVars)
    BY DEF MP!Contract!ContractNext, M!Contract!ContractNext,
           MP!Contract!contractVars, M!Contract!contractVars,
           MP!Contract!Want, M!Contract!Want, MP!Contract!Acquire, M!Contract!Acquire,
           MP!Contract!Tell, M!Contract!Tell, MP!Contract!Finish, M!Contract!Finish,
           M!Wanted, MP!Wanted, M!Told, MP!Told
  <2>3. QED
    BY <2>1, <2>2, PTL DEF MP!KeepsContract, M!KeepsContract,
       MP!Contract!ContractSpec, M!Contract!ContractSpec
<1>6. QED
  BY <1>1, <1>2, <1>3, <1>4, <1>5, SystemImplementsMatchmaker, SameMatchmaker, PTL
     DEF ImplementsMatchmaker

-----------------------------------------------------------------------------
(* A server is accounted for when it is known to be gone, is on record, or  *)
(* is in the hands of a call or a thread.                                   *)
Accounted(s) == \/ s \in lost \cup mislaid
                \/ \E c \in Cells : s \in M!Recorded(c)
                \/ \E r \in Requests : s \in {status[r], kept[r]}

(* What is appended to a list is on it.                                     *)
LEMMA AppendedIsRecorded ==
  ASSUME NEW q \in Seq(Servers), NEW s \in Servers
  PROVE  s \in M!Range(Append(q, s))
<1>1. Len(q) + 1 \in DOMAIN Append(q, s) /\ Append(q, s)[Len(q) + 1] = s
  OBVIOUS
<1>2. QED
  BY <1>1 DEF M!Range

(* Writing the lists keeps or mislays every server that was on record, and  *)
(* puts the server of the answer there.                                     *)
LEMMA WriteAccounts ==
  ASSUME TypeOK, SystemInv, NEW r \in Requests, Write(r), NEW s \in Servers,
         Accounted(s)
  PROVE  Accounted(s)'
<1> USE DEF TypeOK, S!TypeOK, M!TypeOK, SystemInv, Agreement
<1>1. /\ cell[r] \in Cells
      /\ entity' = [entity EXCEPT ![cell[r]] = Append(todo[r], ans[r])]
      /\ mislaid' = mislaid \cup (M!Recorded(cell[r]) \ M!Range(entity'[cell[r]]))
      /\ kept' = [kept EXCEPT ![r] = NoServer] /\ kept[r] = ans[r]
      /\ UNCHANGED <<lost, status>>
  BY DEF Write, serviceVars
<1>2. \A c \in Cells : M!Recorded(c)' = M!Range(entity'[c])
  BY DEF M!Recorded
<1>3. CASE s \in lost \cup mislaid \/ \E q \in Requests : s = status[q]
  BY <1>1, <1>3 DEF Accounted
<1>4. ASSUME NEW c \in Cells, s \in M!Recorded(c) PROVE Accounted(s)'
  <2>1. CASE c = cell[r]
    BY <1>1, <1>2, <1>4, <2>1 DEF Accounted
  <2>2. CASE c # cell[r]
    <3>1. entity'[c] = entity[c]
      BY <1>1, <2>2
    <3>2. QED
      BY <1>2, <1>4, <3>1 DEF Accounted, M!Recorded
  <2>3. QED
    BY <2>1, <2>2
<1>5. ASSUME NEW q \in Requests, s = kept[q] PROVE Accounted(s)'
  <2>1. CASE q = r
    <3>1. todo[r] \in Seq(Servers) /\ ans[r] \in Servers
      BY <1>1, <1>5, <2>1 DEF M!AllocTypeOK
    <3>2. entity'[cell[r]] = Append(todo[r], ans[r])
      BY <1>1
    <3>3. s \in M!Range(entity'[cell[r]])
      BY <1>1, <1>5, <2>1, <3>1, <3>2, AppendedIsRecorded
    <3>4. QED
      BY <1>1, <1>2, <3>3 DEF Accounted
  <2>2. CASE q # r
    BY <1>1, <1>5, <2>2 DEF Accounted
  <2>3. QED
    BY <2>1, <2>2
<1>6. QED
  BY <1>3, <1>4, <1>5 DEF Accounted

(* No step loses sight of a server that it leaves Allocated.                *)
LEMMA AccountsStep ==
  ASSUME TypeOK, ServiceInv, SystemInv, NoServerForgotten, [Next]_vars
  PROVE  NoServerForgotten'
<1> SUFFICES ASSUME NEW s \in Servers, gs'[s] = "Allocated" PROVE Accounted(s)'
  BY DEF NoServerForgotten, Accounted
<1> USE DEF TypeOK, S!TypeOK, SystemInv, Agreement, ServiceInv, serviceVars
<1>1. gs[s] = "Allocated" => Accounted(s)
  BY DEF NoServerForgotten, Accounted
<1>2. ASSUME UNCHANGED <<gs, lost, mislaid, entity, status, kept>> PROVE Accounted(s)'
  BY <1>1, <1>2 DEF Accounted, M!Recorded
<1>3. ASSUME NEW r \in Requests, ThreadAlone(r) \/ CallAllocation(r) \/ CallFails(r)
      PROVE  Accounted(s)'
  <2>1. UNCHANGED <<gs, lost, mislaid, entity, status, kept>>
    BY <1>3 DEF ThreadAlone, CallAllocation, CallFails, S!Connect, M!Find, M!SendPcount,
                M!ReceiveCount, M!ReceiveAck, M!Exhausted, M!Reread, M!DatastoreFails
  <2>2. QED
    BY <1>2, <2>1
<1>4. ASSUME NEW r \in Requests, ReceiveAnswer(r) PROVE Accounted(s)'
  <2>1. /\ spc[r] = "reply" /\ kept[r] = NoServer
        /\ status' = [status EXCEPT ![r] = NoServer]
        /\ UNCHANGED <<gs, lost, mislaid, entity>>
    BY <1>4 DEF ReceiveAnswer, S!Deliver
  <2>2. IF code[r] = 200 THEN kept' = [kept EXCEPT ![r] = status[r]]
                         ELSE status[r] = NoServer /\ UNCHANGED kept
    BY <1>4, <2>1 DEF ReceiveAnswer, SP!StatusFollowsPc
  <2>3. \A q \in Requests \ {r} : status'[q] = status[q] /\ kept'[q] = kept[q]
    BY <2>1, <2>2
  <2>4. s = status[r] => s = kept'[r]
    BY <2>2, SystemAssumption
  <2>5. QED
    BY <1>1, <2>1, <2>3, <2>4, SystemAssumption DEF Accounted, M!Recorded
<1>5. ASSUME NEW r \in Requests, ConnectionBreaks(r) PROVE Accounted(s)'
  <2>1. UNCHANGED <<gs, lost, mislaid, entity, status, kept>>
    BY <1>5 DEF ConnectionBreaks, S!Hangup
  <2>2. QED
    BY <1>2, <2>1
<1>6. ASSUME NEW r \in Requests, Write(r) PROVE Accounted(s)'
  <2>1. UNCHANGED gs
    BY <1>6 DEF Write
  <2>2. QED
    BY <1>1, <1>6, <2>1, WriteAccounts
<1>7. ASSUME NEW r \in Requests, Recycle(r) PROVE Accounted(s)'
  <2>1. /\ mislaid' = mislaid \cup ({kept[r], status[r]} \ {NoServer})
        /\ kept' = [kept EXCEPT ![r] = NoServer]
        /\ status' = status \/ status' = [status EXCEPT ![r] = NoServer]
        /\ UNCHANGED <<gs, lost, entity>>
    BY <1>7 DEF Recycle, S!Deliver, S!Hangup
  <2>2. \A q \in Requests \ {r} : status'[q] = status[q] /\ kept'[q] = kept[q]
    BY <2>1
  <2>3. s \in {status[r], kept[r]} => s \in mislaid'
    BY <2>1, SystemAssumption
  <2>4. QED
    BY <1>1, <2>1, <2>2, <2>3 DEF Accounted, M!Recorded
<1>8. ASSUME NEW r \in Requests, Handler(r) PROVE Accounted(s)'
  <2>1. UNCHANGED <<gs, lost, mislaid, entity, status, kept>>
    BY <1>8 DEF Handler, S!Route, S!CheckReady, S!CreateReturns, threadVars
  <2>2. QED
    BY <1>2, <2>1
<1>9. ASSUME NEW r \in Requests, NEW t \in Servers, Create(r, t) PROVE Accounted(s)'
  <2>1. /\ spc[r] = "create" /\ status[r] = NoServer
        /\ status' = [status EXCEPT ![r] = t]
        /\ gs' = [gs EXCEPT ![t] = "Allocated"]
        /\ UNCHANGED <<lost, mislaid, entity, kept>>
    BY <1>9 DEF Create, S!Create, SP!StatusFollowsPc, threadVars
  <2>2. CASE s = t
    BY <2>1, <2>2 DEF Accounted
  <2>3. CASE s # t
    <3>1. \A q \in Requests : s = status[q] => s = status'[q]
      BY <2>1, SystemAssumption
    <3>2. QED
      BY <1>1, <2>1, <2>3, <3>1 DEF Accounted, M!Recorded
  <2>4. QED
    BY <2>2, <2>3
<1>10. ASSUME NEW r \in Requests, CreateFails(r) PROVE Accounted(s)'
  <2>1. /\ status' = [status EXCEPT ![r] = NoServer]
        /\ lost' = lost \cup S!Held(r)
        /\ UNCHANGED <<gs, mislaid, entity, kept>>
    BY <1>10 DEF CreateFails, S!CreateFails, threadVars
  <2>2. \A q \in Requests : s = status[q] => s \in lost' \/ s = status'[q]
    BY <2>1, SystemAssumption DEF S!Held
  <2>3. QED
    BY <1>1, <2>1, <2>2 DEF Accounted, M!Recorded
<1>11. CASE ServiceCrash
  <2>1. /\ lost' = lost \cup {t \in Servers : \E q \in Requests : status[q] = t}
        /\ UNCHANGED <<gs, mislaid, entity, kept>>
    BY <1>11 DEF ServiceCrash, S!Crash, threadVars
  <2>2. QED
    BY <1>1, <2>1 DEF Accounted, M!Recorded
<1>12. CASE MatchmakerCrash \/ Platform \/ UNCHANGED vars
  <2>1. UNCHANGED <<gs, lost, mislaid, entity, status, kept>>
    BY <1>12 DEF MatchmakerCrash, Platform, vars, M!Crash, S!Restart, S!SyncStatus,
                 threadVars
  <2>2. QED
    BY <1>2, <2>1
<1>13. ASSUME NEW r \in Requests, GameServer(r) \/ Others(r) PROVE Accounted(s)'
  <2>1. UNCHANGED <<gs, lost, mislaid, entity, status, kept>>
    BY <1>13 DEF GameServer, Others, M!AnswerPcount, M!LoseDatagram, M!Join, M!GiveUp,
                 M!GetAllocation
  <2>2. QED
    BY <1>2, <2>1
<1>14. ASSUME NEW t \in Servers, Leave(t) \/ SpawnServer(t) \/ ServerExit(t)
       PROVE  Accounted(s)'
  <2>1. UNCHANGED <<entity, status, kept>>
    BY <1>14 DEF Leave, SpawnServer, ServerExit, S!Spawn, S!Exit, M!Leave,
                 M!SpawnServer, M!ServerExit
  <2>2. CASE Leave(t)
    BY <1>2, <2>1, <2>2 DEF Leave
  <2>3. CASE SpawnServer(t) \/ ServerExit(t)
    <3>1. /\ gs' = [gs EXCEPT ![t] = gs'[t]] /\ gs'[t] # "Allocated"
          /\ lost \ {t} \subseteq lost' /\ mislaid \ {t} \subseteq mislaid'
      BY <2>3 DEF SpawnServer, ServerExit, S!Spawn, S!Exit
    <3>2. s # t /\ gs[s] = "Allocated"
      BY <3>1
    <3>3. QED
      BY <1>1, <2>1, <3>1, <3>2 DEF Accounted, M!Recorded
  <2>4. QED
    BY <1>14, <2>2, <2>3
<1>15. QED
  BY <1>3, <1>4, <1>5, <1>6, <1>7, <1>8, <1>9, <1>10, <1>11, <1>12, <1>13, <1>14
     DEF Next, Thread, Serve

(* From the API server to the Datastore no game server gets lost unseen:    *)
(* only a server whose own call broke, whose own request failed before it   *)
(* recorded the server, or which a stale write took off the lists is out of *)
(* sight, whatever happened to the other servers and to its cell.           *)
THEOREM NothingForgotten == Spec => []NoServerForgotten
<1>1. Init => NoServerForgotten
  BY DEF Init, S!Init, NoServerForgotten
<1>2. TypeOK /\ ServiceInv /\ SystemInv /\ NoServerForgotten /\ [Next]_vars
        => NoServerForgotten'
  BY AccountsStep
<1>3. QED
  BY <1>1, <1>2, SystemTyped, SystemInvHolds, PTL DEF Spec
=============================================================================
