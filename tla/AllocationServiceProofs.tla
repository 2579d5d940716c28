---------------------- MODULE AllocationServiceProofs ----------------------
(* Theorems about AllocationService, for every set of connections, of       *)
(* addresses and of faults.                                                 *)
EXTENDS AllocationService, FiniteSetTheorems, TLAPS

(* The fleet controller counts finitely many servers.                       *)
LEMMA ReadyCount == Cardinality(ReadyServers) \in Nat
<1>1. IsFiniteSet(ReadyServers)
  BY ServiceAssumption, FS_Subset DEF ReadyServers
<1>2. QED
  BY <1>1, FS_CardinalityType

(* Every reachable state of the service is well typed.                      *)
THEOREM ServiceTyped == Spec => []TypeOK
<1>1. Init => TypeOK
  BY ServiceAssumption, ReadyCount DEF Init, TypeOK, Kinds
<1>2. TypeOK /\ [Next]_vars => TypeOK'
  <2> SUFFICES ASSUME TypeOK, [Next]_vars PROVE TypeOK'
    OBVIOUS
  <2> USE ServiceAssumption DEF TypeOK
  <2>1. ASSUME NEW r \in Requests, NEW kind \in Kinds, Connect(r, kind)
        PROVE  TypeOK'
    BY <2>1 DEF Connect, Goto
  <2>2. ASSUME NEW r \in Requests, Route(r) PROVE TypeOK'
    BY <2>2 DEF Route, Goto, Respond, Kinds
  <2>3. ASSUME NEW r \in Requests, CheckReady(r) PROVE TypeOK'
    BY <2>3 DEF CheckReady, Goto, Respond
  <2>4. ASSUME NEW r \in Requests, NEW s \in Servers, Create(r, s)
        PROVE  TypeOK'
    BY <2>4 DEF Create, Goto
  <2>5. ASSUME NEW r \in Requests, CreateFails(r) PROVE TypeOK'
    BY <2>5 DEF CreateFails, Respond, Held
  <2>6. ASSUME NEW r \in Requests, CreateReturns(r) PROVE TypeOK'
    BY <2>6 DEF CreateReturns, Respond
  <2>7. ASSUME NEW r \in Requests, Deliver(r) PROVE TypeOK'
    BY <2>7 DEF Deliver
  <2>8. ASSUME NEW r \in Requests, Hangup(r) PROVE TypeOK'
    BY <2>8 DEF Hangup, Goto
  <2>9. CASE Crash
    <3>1. lost' \subseteq Servers
      BY <2>9 DEF Crash
    <3>2. /\ pc' = [r \in Requests |-> IF r \in Open THEN "dropped" ELSE pc[r]]
          /\ code' = [r \in Requests |-> 0]
          /\ status' = [r \in Requests |-> NoServer]
          /\ up' = FALSE
          /\ UNCHANGED <<gs, readyReplicas, req, told>>
      BY <2>9 DEF Crash
    <3>3. QED
      BY <3>1, <3>2
  <2>10. CASE Restart
    BY <2>10 DEF Restart
  <2>11. CASE SyncStatus
    BY <2>11, ReadyCount DEF SyncStatus
  <2>12. ASSUME NEW s \in Servers, Spawn(s) PROVE TypeOK'
    BY <2>12 DEF Spawn
  <2>13. ASSUME NEW s \in Servers, Exit(s) PROVE TypeOK'
    BY <2>13 DEF Exit
  <2>14. CASE UNCHANGED vars
    BY <2>14 DEF vars
  <2>15. QED
    BY <2>1, <2>2, <2>3, <2>4, <2>5, <2>6, <2>7, <2>8, <2>9, <2>10, <2>11,
       <2>12, <2>13, <2>14 DEF Next, Serve
<1>3. QED
  BY <1>1, <1>2, PTL DEF Spec

-----------------------------------------------------------------------------
(* A connection has a game server from the moment the API server allocated  *)
(* one until the answer is delivered, and only then is its status 200.      *)
StatusFollowsPc ==
  \A r \in Requests :
    /\ status[r] # NoServer <=> pc[r] = "created" \/ (pc[r] = "reply" /\ code[r] = 200)
    /\ code[r] # 0 <=> pc[r] = "reply"

(* No two connections hold a server that cannot stop.                       *)
HeldOnce ==
  \A r \in Requests : status[r] \in Servers \ Mortal =>
    /\ gs[status[r]] = "Allocated"
    /\ \A q \in Requests \ {r} : status[q] # status[r]

AnswerInv == TypeOK /\ StatusFollowsPc /\ HeldOnce

(* The invariant holds when the service starts.                             *)
LEMMA AnswerInvInit == Init => AnswerInv
<1>1. Init => TypeOK
  BY ServiceAssumption, ReadyCount DEF Init, TypeOK, Kinds
<1>2. QED
  BY <1>1, ServiceAssumption DEF AnswerInv, Init, StatusFollowsPc, HeldOnce

(* Every step of the handlers, the API server and the fleet keeps the       *)
(* invariant.                                                               *)
LEMMA AnswerInvStep == TypeOK /\ TypeOK' /\ AnswerInv /\ [Next]_vars => AnswerInv'
<1> SUFFICES ASSUME TypeOK, TypeOK', StatusFollowsPc, HeldOnce, [Next]_vars
             PROVE  StatusFollowsPc' /\ HeldOnce'
  BY DEF AnswerInv
<1> USE ServiceAssumption DEF TypeOK, StatusFollowsPc, HeldOnce
<1>1. ASSUME NEW r \in Requests, NEW kind \in Kinds, Connect(r, kind)
      PROVE  StatusFollowsPc' /\ HeldOnce'
  BY <1>1 DEF Connect, Goto
<1>2. ASSUME NEW r \in Requests, Route(r) PROVE StatusFollowsPc' /\ HeldOnce'
  <2>1. UNCHANGED <<gs, status>>
    BY <1>2 DEF Route
  <2>2. HeldOnce'
    BY <2>1
  <2>3. StatusFollowsPc'
    <3>1. pc[r] = "accepted" /\ status[r] = NoServer
      BY <1>2 DEF Route
    <3>2. CASE Goto(r, "check")
      BY <2>1, <3>1, <3>2 DEF Goto
    <3>3. ASSUME NEW c \in {401, 405}, Respond(r, c) PROVE StatusFollowsPc'
      BY <2>1, <3>1, <3>3 DEF Respond
    <3>4. QED
      BY <1>2, <3>2, <3>3 DEF Route
  <2>4. QED
    BY <2>2, <2>3
<1>3. ASSUME NEW r \in Requests, CheckReady(r) PROVE StatusFollowsPc' /\ HeldOnce'
  BY <1>3 DEF CheckReady, Goto, Respond
<1>4. ASSUME NEW r \in Requests, NEW s \in Servers, Create(r, s)
      PROVE  StatusFollowsPc' /\ HeldOnce'
  BY <1>4 DEF Create, Goto
<1>5. ASSUME NEW r \in Requests, CreateFails(r) PROVE StatusFollowsPc' /\ HeldOnce'
  BY <1>5 DEF CreateFails, Respond, Held
<1>6. ASSUME NEW r \in Requests, CreateReturns(r)
      PROVE  StatusFollowsPc' /\ HeldOnce'
  BY <1>6 DEF CreateReturns, Respond
<1>7. ASSUME NEW r \in Requests, Deliver(r) PROVE StatusFollowsPc' /\ HeldOnce'
  BY <1>7 DEF Deliver
<1>8. ASSUME NEW r \in Requests, Hangup(r) PROVE StatusFollowsPc' /\ HeldOnce'
  BY <1>8 DEF Hangup, Goto
<1>9. CASE Crash
  BY <1>9 DEF Crash, Open
<1>10. CASE Restart
  BY <1>10 DEF Restart
<1>11. CASE SyncStatus
  BY <1>11 DEF SyncStatus
<1>12. ASSUME NEW s \in Servers, Spawn(s) PROVE StatusFollowsPc' /\ HeldOnce'
  BY <1>12 DEF Spawn
<1>13. ASSUME NEW s \in Servers, Exit(s) PROVE StatusFollowsPc' /\ HeldOnce'
  BY <1>13 DEF Exit
<1>14. CASE UNCHANGED vars
  BY <1>14 DEF vars
<1>15. QED
  BY <1>1, <1>2, <1>3, <1>4, <1>5, <1>6, <1>7, <1>8, <1>9, <1>10, <1>11,
     <1>12, <1>13, <1>14 DEF Next, Serve

(* The invariant behind the theorems below holds in every reachable state.  *)
THEOREM AnswerInvHolds == Spec => []AnswerInv
BY AnswerInvInit, AnswerInvStep, ServiceTyped, PTL DEF Spec

(* A 200 response always names an Allocated server of its own, an error     *)
(* response never names one.                                                *)
THEOREM AnswersMatchCodes == Spec => []AnswerMatchesCode
<1>1. AnswerInv => AnswerMatchesCode
  BY DEF AnswerInv, TypeOK, StatusFollowsPc, HeldOnce, AnswerMatchesCode
<1>2. QED
  BY <1>1, AnswerInvHolds, PTL

-----------------------------------------------------------------------------
(* No server is wasted but by a failed Create or a crash: allocate takes    *)
(* one only in the last step that can go wrong, so every other Allocated    *)
(* server was told to a client or is about to be.                           *)
THEOREM NothingWasted == Spec => []SpentServersKnown
<1>1. Init => SpentServersKnown
  BY DEF Init, SpentServersKnown
<1>2. AnswerInv /\ SpentServersKnown /\ [Next]_vars => SpentServersKnown'
  <2> SUFFICES ASSUME AnswerInv, SpentServersKnown, [Next]_vars,
                      NEW t \in Servers, gs'[t] = "Allocated"
               PROVE  t \in told' \cup lost' \/ \E q \in Requests : status'[q] = t
    BY DEF SpentServersKnown
  <2> DEFINE Goal == t \in told' \cup lost' \/ \E q \in Requests : status'[q] = t
  <2> USE ServiceAssumption DEF AnswerInv, TypeOK
  <2>1. ASSUME NEW r \in Requests, NEW s \in Servers, Create(r, s) PROVE Goal
    BY <2>1 DEF Create, SpentServersKnown, StatusFollowsPc
  <2>2. ASSUME NEW r \in Requests, CreateFails(r) PROVE Goal
    BY <2>2 DEF CreateFails, Held, SpentServersKnown, StatusFollowsPc
  <2>3. ASSUME NEW r \in Requests, Deliver(r) PROVE Goal
    BY <2>3 DEF Deliver, SpentServersKnown, StatusFollowsPc
  <2>4. ASSUME NEW s \in Servers, Spawn(s) PROVE Goal
    BY <2>4 DEF Spawn, SpentServersKnown
  <2>5. ASSUME NEW s \in Servers, Exit(s) PROVE Goal
    BY <2>5 DEF Exit, SpentServersKnown
  <2>6. CASE UNCHANGED <<gs, status, told, lost>>
    BY <2>6 DEF SpentServersKnown
  <2>7. CASE Crash
    BY <2>7 DEF Crash, SpentServersKnown
  <2>8. QED
    BY <2>1, <2>2, <2>3, <2>4, <2>5, <2>6, <2>7
       DEF Next, Serve, vars, Connect, Route, CheckReady, CreateReturns,
           Hangup, Restart, SyncStatus
<1>3. QED
  BY <1>1, <1>2, AnswerInvHolds, PTL DEF Spec

-----------------------------------------------------------------------------
(* A step that changes the phase of at most one call changes the phases of  *)
(* the contract at that call only.                                          *)
LEMMA OnePhaseChanges ==
  ASSUME NEW r \in Requests, NEW old, NEW new,
         PhaseOf(r) = old, PhaseOf(r)' = new,
         \A q \in Requests \ {r} : PhaseOf(q)' = PhaseOf(q)
  PROVE  /\ PhaseOf(r) = old
         /\ [q \in Requests |-> PhaseOf(q)']
              = [[q \in Requests |-> PhaseOf(q)] EXCEPT ![r] = new]
         /\ [q \in Requests |-> PhaseOf(q)']
              = [q \in Requests |-> IF q \in {r} THEN new ELSE PhaseOf(q)]
OBVIOUS

(* Each step of the handlers is a step of the contract or changes nothing   *)
(* in it.                                                                   *)
LEMMA StepImplementsFleet ==
  AnswerInv /\ AnswerInv' /\ [Next]_vars => [Fleet!AllocNext]_(Fleet!allocVars)
<1> SUFFICES ASSUME AnswerInv, AnswerInv', [Next]_vars
             PROVE  Fleet!AllocNext \/ UNCHANGED Fleet!allocVars
  OBVIOUS
<1> USE ServiceAssumption
<1>1. ASSUME NEW r \in Requests, NEW kind \in Kinds, Connect(r, kind)
      PROVE  Fleet!AllocNext
  <2>1. PhaseOf(r) = "idle" /\ PhaseOf(r)' = "asked"
    BY <1>1 DEF Connect, Goto, PhaseOf, AnswerInv, TypeOK, StatusFollowsPc
  <2>2. \A q \in Requests \ {r} : PhaseOf(q)' = PhaseOf(q)
    BY <1>1 DEF Connect, Goto, PhaseOf, AnswerInv, TypeOK
  <2>3. Fleet!Ask(r)
    BY <1>1, <2>1, <2>2, OnePhaseChanges DEF Connect, Fleet!Ask
  <2>4. QED
    BY <2>3 DEF Fleet!AllocNext
<1>2. ASSUME NEW r \in Requests, Route(r) \/ CheckReady(r)
      PROVE  Fleet!AllocNext \/ UNCHANGED Fleet!allocVars
  <2> USE DEF AnswerInv, TypeOK, StatusFollowsPc
  <2>1. /\ UNCHANGED <<gs, status>>
        /\ PhaseOf(r) = "asked"
        /\ \A q \in Requests \ {r} : PhaseOf(q)' = PhaseOf(q)
    BY <1>2 DEF Route, CheckReady, Goto, Respond, PhaseOf
  <2>2. status[r] = NoServer /\ PhaseOf(r)' \in {"asked", "refused"}
    BY <1>2 DEF Route, CheckReady, Goto, Respond, PhaseOf
  <2>3. CASE PhaseOf(r)' = "asked"
    BY <2>1, <2>3 DEF Fleet!allocVars
  <2>4. CASE PhaseOf(r)' = "refused"
    <3>1. Fleet!Refuse({r})
      BY <2>1, <2>2, <2>4, OnePhaseChanges DEF Fleet!Refuse
    <3>2. QED
      BY <3>1 DEF Fleet!AllocNext
  <2>5. QED
    BY <2>2, <2>3, <2>4
<1>3. ASSUME NEW r \in Requests, NEW s \in Servers, Create(r, s)
      PROVE  Fleet!AllocNext
  <2>1. PhaseOf(r) = "asked" /\ PhaseOf(r)' = "granted"
    BY <1>3 DEF Create, Goto, PhaseOf, AnswerInv, TypeOK
  <2>2. \A q \in Requests \ {r} : PhaseOf(q)' = PhaseOf(q)
    BY <1>3 DEF Create, Goto, PhaseOf, AnswerInv, TypeOK
  <2>3. Fleet!Grant(r, s)
    BY <1>3, <2>1, <2>2, OnePhaseChanges DEF Create, Fleet!Grant
  <2>4. QED
    BY <2>3 DEF Fleet!AllocNext
<1>4. ASSUME NEW r \in Requests, CreateFails(r) PROVE Fleet!AllocNext
  <2> USE DEF AnswerInv, TypeOK
  <2>1. PhaseOf(r) \in {"asked", "granted"} /\ PhaseOf(r)' = "refused"
    BY <1>4 DEF CreateFails, Respond, PhaseOf, StatusFollowsPc
  <2>2. \A q \in Requests \ {r} : PhaseOf(q)' = PhaseOf(q)
    BY <1>4 DEF CreateFails, Respond, PhaseOf
  <2>3. /\ UNCHANGED gs
        /\ status' = [q \in Requests |-> IF q \in {r} THEN NoServer ELSE status[q]]
    <3>1. UNCHANGED gs /\ status' = [status EXCEPT ![r] = NoServer]
      BY <1>4 DEF CreateFails
    <3>2. status = [q \in Requests |-> status[q]]
      OBVIOUS
    <3>3. QED
      BY <3>1, <3>2
  <2>4. Fleet!Refuse({r})
    <3>1. \A q \in {r} : [t \in Requests |-> PhaseOf(t)][q] \in {"asked", "granted"}
      BY <2>1
    <3>2. [t \in Requests |-> PhaseOf(t)]'
            = [t \in Requests |-> IF t \in {r} THEN "refused"
                                  ELSE [u \in Requests |-> PhaseOf(u)][t]]
      BY <2>1, <2>2
    <3>3. QED
      BY <2>3, <3>1, <3>2 DEF Fleet!Refuse
  <2>5. QED
    BY <2>4 DEF Fleet!AllocNext
<1>5. ASSUME NEW r \in Requests, CreateReturns(r)
      PROVE  UNCHANGED Fleet!allocVars
  BY <1>5 DEF CreateReturns, Respond, Fleet!allocVars, PhaseOf, AnswerInv,
              TypeOK, StatusFollowsPc
<1>6. ASSUME NEW r \in Requests, Deliver(r) \/ Hangup(r)
      PROVE  Fleet!AllocNext
  <2> USE DEF AnswerInv, TypeOK, StatusFollowsPc
  <2>1. PhaseOf(r) \in {"granted", "refused"} /\ PhaseOf(r)' = "idle"
    BY <1>6 DEF Deliver, Hangup, Goto, PhaseOf
  <2>2. \A q \in Requests \ {r} : PhaseOf(q)' = PhaseOf(q)
    BY <1>6 DEF Deliver, Hangup, Goto, PhaseOf
  <2>3. UNCHANGED gs /\ status' = [status EXCEPT ![r] = NoServer]
    BY <1>6 DEF Deliver, Hangup
  <2>4. Fleet!Collect(r)
    BY <2>1, <2>2, <2>3, OnePhaseChanges DEF Fleet!Collect
  <2>5. QED
    BY <2>4 DEF Fleet!AllocNext
<1>7. CASE Crash
  <2> DEFINE R == {r \in Requests : PhaseOf(r) \in {"asked", "granted"}}
  <2>1. Fleet!Refuse(R)
    BY <1>7 DEF Crash, Open, Fleet!Refuse, PhaseOf, AnswerInv, TypeOK,
                StatusFollowsPc
  <2>2. QED
    BY <2>1 DEF Fleet!AllocNext
<1>8. CASE Restart \/ SyncStatus \/ UNCHANGED vars
  BY <1>8 DEF Restart, SyncStatus, vars, Fleet!allocVars, PhaseOf
<1>9. ASSUME NEW s \in Servers, Spawn(s) \/ Exit(s) PROVE Fleet!AllocNext
  <2>1. Fleet!Spawn(s) \/ Fleet!Exit(s)
    BY <1>9 DEF Spawn, Exit, Fleet!Spawn, Fleet!Exit, PhaseOf
  <2>2. QED
    BY <2>1 DEF Fleet!AllocNext
<1>10. QED
  BY <1>1, <1>2, <1>3, <1>4, <1>5, <1>6, <1>7, <1>8, <1>9 DEF Next, Serve

(* The handlers, with their separate check and creation, their stale fleet  *)
(* status and their crashes, implement the contract of GET /address.        *)
THEOREM ServiceImplementsFleet == Spec => ImplementsFleet
<1>1. Init => Fleet!AllocInit
  BY DEF Init, Fleet!AllocInit, PhaseOf
<1>2. QED
  BY <1>1, StepImplementsFleet, AnswerInvHolds, PTL
     DEF Spec, ImplementsFleet, Fleet!AllocSpec

=============================================================================
