------------------------- MODULE AllocationService -------------------------
(* The handlers of src/allocation-service/main.go behind GET /address:      *)
(* getOnly, basicAuth, handleAddress, allocate and checkReadyReplicas, one  *)
(* goroutine for each connection, all served by one process that Kubernetes *)
(* restarts when it stops.  The Agones API server is external: it keeps the *)
(* game servers and a Fleet whose status is written by a controller of its  *)
(* own, after the fact.                                                     *)
EXTENDS Naturals, FiniteSets

CONSTANTS Requests,   \* connections that can be open at the same time
          Servers,    \* addresses at which a game server can run
          NoServer,   \* the zero GameServerStatus
          Mortal,     \* the servers that may stop
          Faults      \* which of "get", "create", "crash" may happen

ASSUME ServiceAssumption == /\ NoServer \notin Servers
                            /\ Mortal \subseteq Servers
                            /\ IsFiniteSet(Servers)
                            /\ Faults \subseteq {"get", "create", "crash"}

VARIABLES gs,             \* Agones: state of the game server at each address
          readyReplicas,  \* Fleet.Status.ReadyReplicas, as last synchronised
          pc,             \* where the goroutine of each connection is
          req,            \* what the connection asked for
          code,           \* HTTP status of the response, 0 while undecided
          status,         \* GameServerStatus in the body of the response
          told,           \* history: servers named by a delivered response
          lost,           \* history: servers whose call broke before that
          up              \* whether the process runs

vars == <<gs, readyReplicas, pc, req, code, status, told, lost, up>>

ReadyServers == {s \in Servers : gs[s] = "Ready"}

(* The server that an open call holds.                                      *)
Held(r) == {status[r]} \ {NoServer}

Kinds == {"authorized", "otherVerb", "wrongKey"}

TypeOK == /\ gs \in [Servers -> {"Absent", "Ready", "Allocated"}]
          /\ readyReplicas \in Nat
          /\ pc \in [Requests -> {"idle", "accepted", "check", "create",
                                  "created", "reply", "dropped"}]
          /\ req \in [Requests -> Kinds]
          /\ code \in [Requests -> {0, 200, 401, 405, 500}]
          /\ status \in [Requests -> Servers \cup {NoServer}]
          /\ told \subseteq Servers \cup {NoServer}
          /\ lost \subseteq Servers
          /\ up \in BOOLEAN

Init == /\ gs \in [Servers -> {"Absent", "Ready"}]
        /\ readyReplicas = Cardinality(ReadyServers)
        /\ pc = [r \in Requests |-> "idle"]
        /\ req = [r \in Requests |-> "authorized"]
        /\ code = [r \in Requests |-> 0]
        /\ status = [r \in Requests |-> NoServer]
        /\ told = {}
        /\ lost = {}
        /\ up = TRUE

(* The goroutine moves on; its response is still undecided.                 *)
Goto(r, label) == /\ pc' = [pc EXCEPT ![r] = label]
                  /\ UNCHANGED code

(* The goroutine fixes the status of its response.                          *)
Respond(r, c) == /\ pc' = [pc EXCEPT ![r] = "reply"]
                 /\ code' = [code EXCEPT ![r] = c]

(* A client connects; the server hands its request to the route /address.   *)
Connect(r, kind) == /\ up
                    /\ pc[r] = "idle"
                    /\ Goto(r, "accepted")
                    /\ req' = [req EXCEPT ![r] = kind]
                    /\ UNCHANGED <<gs, readyReplicas, status, told, lost, up>>

(* getOnly(basicAuth(handleAddress)): the verb first, then the key.         *)
Route(r) == /\ pc[r] = "accepted"
            /\ \/ req[r] = "otherVerb" /\ Respond(r, 405)
               \/ req[r] = "wrongKey" /\ Respond(r, 401)
               \/ req[r] = "authorized" /\ Goto(r, "check")
            /\ UNCHANGED <<gs, readyReplicas, req, status, told, lost, up>>

(* What checkReadyReplicas may return: the fleet's status, or 0 when the    *)
(* Get fails, because the error is only logged and the Fleet is empty.      *)
CheckReadyReplicas == {readyReplicas} \cup (IF "get" \in Faults THEN {0} ELSE {})

(* allocate up to the FleetAllocation: give up when the status shows no     *)
(* ready replica.                                                           *)
CheckReady(r) == /\ pc[r] = "check"
                 /\ \E n \in CheckReadyReplicas :
                      IF n < 1 THEN Respond(r, 500) ELSE Goto(r, "create")
                 /\ UNCHANGED <<gs, readyReplicas, req, status, told, lost, up>>

(* Mutant: the allocation itself takes one off the status it may be behind. *)
CreateDecrements(r, s) == /\ pc[r] = "create"
                          /\ gs[s] = "Ready"
                          /\ gs' = [gs EXCEPT ![s] = "Allocated"]
                          /\ status' = [status EXCEPT ![r] = s]
                          /\ readyReplicas' = readyReplicas - 1
                          /\ Goto(r, "created")
                          /\ UNCHANGED <<req, told, lost, up>>

(* The API server creates the FleetAllocation and moves one ready game      *)
(* server of the fleet to Allocated; its reply is on the way.               *)
Create(r, s) == /\ pc[r] = "create"
                /\ gs[s] = "Ready"
                /\ gs' = [gs EXCEPT ![s] = "Allocated"]
                /\ status' = [status EXCEPT ![r] = s]
                /\ Goto(r, "created")
                /\ UNCHANGED <<readyReplicas, req, told, lost, up>>

(* Mutant: the error of Create is not looked at.                            *)
CreateFailsUnseen(r) == /\ \/ pc[r] = "create" /\ ReadyServers = {}
                           \/ pc[r] \in {"create", "created"} /\ "create" \in Faults
                        /\ Respond(r, 200)
                        /\ status' = [status EXCEPT ![r] = NoServer]
                        /\ lost' = lost \cup Held(r)
                        /\ UNCHANGED <<gs, readyReplicas, req, told, up>>

(* Mutant: the handler starts over when Create fails.                       *)
CreateRetries(r) == /\ \/ pc[r] = "create" /\ ReadyServers = {}
                       \/ pc[r] \in {"create", "created"} /\ "create" \in Faults
                    /\ Goto(r, "check")
                    /\ status' = [status EXCEPT ![r] = NoServer]
                    /\ lost' = lost \cup Held(r)
                    /\ UNCHANGED <<gs, readyReplicas, req, told, up>>

(* Create returns an error: no server is ready any more, or the call fails, *)
(* before or after the API server acted.  The result stays the zero status. *)
CreateFails(r) == /\ \/ pc[r] = "create" /\ ReadyServers = {}
                     \/ pc[r] \in {"create", "created"} /\ "create" \in Faults
                  /\ Respond(r, 500)
                  /\ status' = [status EXCEPT ![r] = NoServer]
                  /\ lost' = lost \cup Held(r)
                  /\ UNCHANGED <<gs, readyReplicas, req, told, up>>

(* Mutant: the ready replicas are checked after Create instead of before.   *)
CreateReturnsChecked(r) ==
  /\ pc[r] = "created"
  /\ IF readyReplicas < 1
     THEN Respond(r, 500) /\ status' = [status EXCEPT ![r] = NoServer]
     ELSE Respond(r, 200) /\ UNCHANGED status
  /\ UNCHANGED <<gs, readyReplicas, req, told, lost, up>>

(* Create returns the new FleetAllocation; handleAddress answers with the   *)
(* status of its game server.                                               *)
CreateReturns(r) == /\ pc[r] = "created"
                    /\ Respond(r, 200)
                    /\ UNCHANGED <<gs, readyReplicas, req, status, told, lost, up>>

(* The response reaches the client.                                         *)
Deliver(r) == /\ pc[r] = "reply"
              /\ told' = told \cup (IF code[r] = 200 THEN {status[r]} ELSE {})
              /\ pc' = [pc EXCEPT ![r] = "idle"]
              /\ code' = [code EXCEPT ![r] = 0]
              /\ status' = [status EXCEPT ![r] = NoServer]
              /\ UNCHANGED <<gs, readyReplicas, req, lost, up>>

Open == {r \in Requests : pc[r] \notin {"idle", "dropped"}}

(* The process stops: it is killed, or a handler (of /, of /healthz or of   *)
(* /address) that cannot write its response calls logger.Fatal.  Every      *)
(* connection of the process breaks.                                        *)
Crash == /\ "crash" \in Faults
         /\ up
         /\ up' = FALSE
         /\ pc' = [r \in Requests |-> IF r \in Open THEN "dropped" ELSE pc[r]]
         /\ code' = [r \in Requests |-> 0]
         /\ lost' = lost \cup {s \in Servers : \E r \in Requests : status[r] = s}
         /\ status' = [r \in Requests |-> NoServer]
         /\ UNCHANGED <<gs, readyReplicas, req, told>>

(* The client of a broken connection notices.                               *)
Hangup(r) == /\ pc[r] = "dropped"
             /\ Goto(r, "idle")
             /\ UNCHANGED <<gs, readyReplicas, req, status, told, lost, up>>

(* Kubernetes starts the process again and getAgonesClient makes its        *)
(* client (a Fatal in there leaves it down); main serves the same routes.   *)
Restart == /\ ~up
           /\ up' = TRUE
           /\ UNCHANGED <<gs, readyReplicas, pc, req, code, status, told, lost>>

(* The fleet controller of Agones writes the status.                        *)
SyncStatus == /\ readyReplicas' = Cardinality(ReadyServers)
              /\ UNCHANGED <<gs, pc, req, code, status, told, lost, up>>

(* Agones starts a game server at a free address and it reports Ready.      *)
Spawn(s) == /\ gs[s] = "Absent"
            /\ gs' = [gs EXCEPT ![s] = "Ready"]
            /\ UNCHANGED <<readyReplicas, pc, req, code, status, told, lost, up>>

(* A game server stops and its address becomes free.                        *)
Exit(s) == /\ s \in Mortal
           /\ gs[s] # "Absent"
           /\ gs' = [gs EXCEPT ![s] = "Absent"]
           /\ told' = told \ {s}
           /\ lost' = lost \ {s}
           /\ UNCHANGED <<readyReplicas, pc, req, code, status, up>>

(* What the service does for an open connection.                            *)
Serve(r) == \/ Route(r)
            \/ CheckReady(r)
            \/ \E s \in Servers : Create(r, s)
            \/ CreateFails(r)
            \/ CreateReturns(r)
            \/ Deliver(r)
            \/ Hangup(r)

Next == \/ \E r \in Requests : Serve(r) \/ \E kind \in Kinds : Connect(r, kind)
        \/ Crash
        \/ Restart
        \/ SyncStatus
        \/ \E s \in Servers : Spawn(s) \/ Exit(s)

Spec == Init /\ [][Next]_vars

(* The process is scheduled, the API server answers, Kubernetes restarts.   *)
Fairness == WF_vars(Restart) /\ \A r \in Requests : WF_vars(Serve(r))

FairSpec == Spec /\ Fairness

-----------------------------------------------------------------------------
(* The contract this service implements: what a caller can know of a call.  *)
PhaseOf(r) == IF pc[r] \in {"accepted", "check", "create"} THEN "asked"
              ELSE IF status[r] # NoServer THEN "granted"
              ELSE IF pc[r] = "idle" THEN "idle" ELSE "refused"

Fleet == INSTANCE FleetAllocation WITH
           phase <- [r \in Requests |-> PhaseOf(r)], grant <- status

(* Every step of the service is a step of the contract, or none of it.      *)
ImplementsFleet == Fleet!AllocSpec

(* A response with status 200 names a game server, that game server is      *)
(* Allocated, and no other open call has it; a response with an error       *)
(* status names none (handleAddress writes the body after either).          *)
AnswerMatchesCode ==
  \A r \in Requests : pc[r] = "reply" =>
    IF code[r] = 200
    THEN /\ status[r] \in Servers
         /\ status[r] \notin Mortal =>
              /\ gs[status[r]] = "Allocated"
              /\ \A q \in Requests \ {r} : status[q] # status[r]
    ELSE status[r] = NoServer

(* Every Allocated server has been named to a client, is held by an open    *)
(* call, or belonged to a call that broke after the API server had acted:   *)
(* a failed Create or a crash, the only two ways to waste one.  allocate    *)
(* checks and creates in two calls, and no other error return of it may     *)
(* come after the server was taken.                                         *)
SpentServersKnown ==
  \A s \in Servers : gs[s] = "Allocated" =>
    s \in told \cup lost \/ \E r \in Requests : status[r] = s

(* The ready check never lets a call through to an empty fleet for good:    *)
(* whatever the order of status updates, creations and crashes, every call  *)
(* gets an answer or sees its connection break.                             *)
EveryCallEnds == \A r \in Requests : pc[r] # "idle" ~> pc[r] = "idle"

=============================================================================
