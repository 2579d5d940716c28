-------------------------- MODULE FleetAllocation --------------------------
(* What GET /address of src/allocation-service/main.go promises to its      *)
(* caller, the matchmaker: a call is answered with a game server that no    *)
(* other call holds, or it is refused.  The steps inside the handler, the   *)
(* stale fleet status and the faults are in AllocationService, which        *)
(* implements this specification; Matchmaker is built on top of it.         *)

CONSTANTS Requests,   \* the calls that can be in flight at the same time
          Servers,    \* the addresses at which a game server can run
          NoServer,   \* "no status in the answer"
          Mortal      \* the servers that may stop (EXIT, failed health pings)

ASSUME FleetAssumption == /\ NoServer \notin Servers
                          /\ Mortal \subseteq Servers

VARIABLES gs,      \* state of the game server at each address, kept by Agones
          phase,   \* progress of each call, as its caller can know it
          grant    \* the server a call was given

allocVars == <<gs, phase, grant>>

AllocTypeOK ==
  /\ gs \in [Servers -> {"Absent", "Ready", "Allocated"}]
  /\ phase \in [Requests -> {"idle", "asked", "granted", "refused"}]
  /\ grant \in [Requests -> Servers \cup {NoServer}]

AllocInit == /\ gs \in [Servers -> {"Absent", "Ready"}]
             /\ phase = [r \in Requests |-> "idle"]
             /\ grant = [r \in Requests |-> NoServer]

(* The caller sends GET /address.                                           *)
Ask(r) == /\ phase[r] = "idle"
          /\ phase' = [phase EXCEPT ![r] = "asked"]
          /\ UNCHANGED <<gs, grant>>

(* allocate() moves a replica from Ready to Allocated for this call.        *)
Grant(r, s) == /\ phase[r] = "asked"
               /\ gs[s] = "Ready"
               /\ gs' = [gs EXCEPT ![s] = "Allocated"]
               /\ phase' = [phase EXCEPT ![r] = "granted"]
               /\ grant' = [grant EXCEPT ![r] = s]

(* The calls in R end without a server.  A call that already had one loses  *)
(* its answer (the service stops, the connection breaks): the server stays  *)
(* Allocated and nobody knows.                                              *)
Refuse(R) == /\ \A r \in R : phase[r] \in {"asked", "granted"}
             /\ phase' = [r \in Requests |->
                            IF r \in R THEN "refused" ELSE phase[r]]
             /\ grant' = [r \in Requests |->
                            IF r \in R THEN NoServer ELSE grant[r]]
             /\ UNCHANGED gs

(* The caller takes the answer; the slot is free for another call.          *)
Collect(r) == /\ phase[r] \in {"granted", "refused"}
              /\ phase' = [phase EXCEPT ![r] = "idle"]
              /\ grant' = [grant EXCEPT ![r] = NoServer]
              /\ UNCHANGED gs

(* Agones starts a game server at a free address and it reports Ready.      *)
Spawn(s) == /\ gs[s] = "Absent"
            /\ gs' = [gs EXCEPT ![s] = "Ready"]
            /\ UNCHANGED <<phase, grant>>

(* A game server stops and its address becomes free.                        *)
Exit(s) == /\ s \in Mortal
           /\ gs[s] # "Absent"
           /\ gs' = [gs EXCEPT ![s] = "Absent"]
           /\ UNCHANGED <<phase, grant>>

AllocNext == \/ \E r \in Requests : Ask(r) \/ Collect(r)
             \/ \E r \in Requests, s \in Servers : Grant(r, s)
             \/ \E R \in SUBSET Requests : Refuse(R)
             \/ \E s \in Servers : Spawn(s) \/ Exit(s)

AllocSpec == AllocInit /\ [][AllocNext]_allocVars

-----------------------------------------------------------------------------
(* No game server is handed to two calls: a server that a call holds is     *)
(* Allocated and no other call holds it.  A server that may stop is left    *)
(* out, because its address can be allocated again after it stopped while   *)
(* the first answer is still on its way.                                    *)
OneHolder ==
  \A r \in Requests : grant[r] \in Servers \ Mortal =>
    /\ gs[grant[r]] = "Allocated"
    /\ \A q \in Requests \ {r} : grant[q] # grant[r]

=============================================================================
