----------------------------- MODULE Matchmaker -----------------------------
(* MatchMakerController of src/matchmaker, with the game servers it probes  *)
(* over UDP, the Datastore it records them in, the allocation service it    *)
(* calls (FleetAllocation) and the players that join what they are told.    *)
(* Tomcat runs each request in a thread of its own; nothing locks, and no   *)
(* Datastore call runs in a transaction.  Each step below reads or writes   *)
(* at most one of the stores and channels the threads share.                *)
EXTENDS FleetAllocation, Naturals, Sequences, FiniteSets, Functions

CONSTANTS Cells,        \* S2 cells at level 10
          NoCell,
          MaxPlayers,   \* MAX_PLAYER_ALLOWED
          Faults        \* which of "udp", "datastore", "http", "crash" occur

ASSUME MatchmakerAssumption ==
  /\ NoCell \notin Cells
  /\ MaxPlayers \in Nat \ {0}
  /\ IsFiniteSet(Requests)
  /\ Faults \subseteq {"udp", "datastore", "http", "crash"}

VARIABLES entity,   \* Datastore: the IP/PORT lists under each cell's key
          players,  \* the number of players in each game server
          pc,       \* where the thread of each request is
          cell,     \* cellId of the request
          todo,     \* what is left of the iterators; later the lists re-read
          ans,      \* the server being probed, later the answer
          net,      \* datagrams on the request's current socket
          count,    \* number in the COUNT datagram of that socket
          granted,  \* history: the servers ever allocated for each cell
          spoiled   \* history: cells that lost a server they were granted

threadVars == <<pc, cell, todo, ans>>
netVars == <<net, count>>
history == <<granted, spoiled>>
vars == <<gs, phase, grant, entity, players, pc, cell, todo, ans, net, count,
          granted, spoiled>>

Labels == {"idle", "find", "scan", "probe", "call", "await", "reread",
           "write", "answered", "failed"}

Recorded(c) == Range(entity[c])

TypeOK == /\ AllocTypeOK
          /\ entity \in [Cells -> Seq(Servers)]
          /\ players \in [Servers -> Nat]
          /\ pc \in [Requests -> Labels]
          /\ cell \in [Requests -> Cells \cup {NoCell}]
          /\ \A r \in Requests : pc[r] # "idle" => cell[r] \in Cells
          /\ todo \in [Requests -> Seq(Servers)]
          /\ ans \in [Requests -> Servers \cup {NoServer}]
          /\ net \in [Requests -> SUBSET {"PCOUNT", "COUNT", "ACK"}]
          /\ count \in [Requests -> Nat]
          /\ granted \in [Cells -> SUBSET Servers]
          /\ spoiled \subseteq Cells

Init == /\ AllocInit
        /\ entity = [c \in Cells |-> <<>>]
        /\ players = [s \in Servers |-> 0]
        /\ pc = [r \in Requests |-> "idle"]
        /\ cell = [r \in Requests |-> NoCell]
        /\ todo = [r \in Requests |-> <<>>]
        /\ ans = [r \in Requests |-> NoServer]
        /\ net = [r \in Requests |-> {}]
        /\ count = [r \in Requests |-> 0]
        /\ granted = [c \in Cells |-> {}]
        /\ spoiled = {}

Goto(r, label) == pc' = [pc EXCEPT ![r] = label]

(* The request is over, and with it the locals of its thread.               *)
Forget(r) == /\ Goto(r, "idle")
             /\ cell' = [cell EXCEPT ![r] = NoCell]
             /\ todo' = [todo EXCEPT ![r] = <<>>]
             /\ ans' = [ans EXCEPT ![r] = NoServer]
             /\ net' = [net EXCEPT ![r] = {}]
             /\ count' = [count EXCEPT ![r] = 0]

-----------------------------------------------------------------------------
(* The thread of a request.                                                 *)

(* GET /allocate/lat/../lon/..: the location becomes a cell.                *)
GetAllocation(r, c) ==
  /\ pc[r] = "idle"
  /\ Goto(r, "find")
  /\ cell' = [cell EXCEPT ![r] = c]
  /\ UNCHANGED <<allocVars, entity, players, todo, ans, netVars, history>>

(* Mutant: the query does not filter on the key.                            *)
FindAnyCell(r) ==
  /\ pc[r] = "find"
  /\ \E c \in Cells :
       /\ todo' = [todo EXCEPT ![r] = entity[c]]
       /\ Goto(r, IF entity[c] = <<>> THEN "call" ELSE "scan")
  /\ UNCHANGED <<allocVars, entity, players, cell, ans, netVars, history>>

(* findBykey; without an entity, straight to the allocation service.        *)
Find(r) ==
  /\ pc[r] = "find"
  /\ todo' = [todo EXCEPT ![r] = entity[cell[r]]]
  /\ Goto(r, IF entity[cell[r]] = <<>> THEN "call" ELSE "scan")
  /\ UNCHANGED <<allocVars, entity, players, cell, ans, netVars, history>>

(* The next server of the lists is asked for its player count, on a socket  *)
(* made for this question.                                                  *)
SendPcount(r) ==
  /\ pc[r] = "scan"
  /\ todo[r] # <<>>
  /\ ans' = [ans EXCEPT ![r] = Head(todo[r])]
  /\ todo' = [todo EXCEPT ![r] = Tail(@)]
  /\ net' = [net EXCEPT ![r] = IF gs[Head(todo[r])] = "Absent"
                               THEN {} ELSE {"PCOUNT"}]
  /\ Goto(r, "probe")
  /\ UNCHANGED <<allocVars, entity, players, cell, count, history>>

(* Mutant: one player too many is let in.                                   *)
ReceiveCountAtMost(r) ==
  /\ pc[r] = "probe"
  /\ "COUNT" \in net[r]
  /\ Goto(r, IF count[r] <= MaxPlayers THEN "answered" ELSE "scan")
  /\ net' = [net EXCEPT ![r] = {}]
  /\ UNCHANGED <<allocVars, entity, players, cell, todo, ans, count, history>>

(* The first datagram is taken for the count, and the server is the answer  *)
(* if it has room.                                                          *)
ReceiveCount(r) ==
  /\ pc[r] = "probe"
  /\ "COUNT" \in net[r]
  /\ Goto(r, IF count[r] < MaxPlayers THEN "answered" ELSE "scan")
  /\ net' = [net EXCEPT ![r] = {}]
  /\ UNCHANGED <<allocVars, entity, players, cell, todo, ans, count, history>>

(* The game server's ACK overtook the count, or the count was lost:         *)
(* parseInt throws and the request ends with an error.                      *)
ReceiveAck(r) ==
  /\ pc[r] = "probe"
  /\ "ACK" \in net[r]
  /\ "udp" \in Faults
  /\ Goto(r, "failed")
  /\ net' = [net EXCEPT ![r] = {}]
  /\ UNCHANGED <<allocVars, entity, players, cell, todo, ans, count, history>>

(* No server of the lists has room.                                         *)
Exhausted(r) ==
  /\ pc[r] = "scan"
  /\ todo[r] = <<>>
  /\ Goto(r, "call")
  /\ UNCHANGED <<allocVars, entity, players, cell, todo, ans, netVars, history>>

(* AllocationServiceClient.getAllocation sends the call and blocks on it.   *)
CallAllocation(r) ==
  /\ pc[r] = "call"
  /\ Ask(r)
  /\ Goto(r, "await")
  /\ UNCHANGED <<entity, players, cell, todo, ans, netVars, history>>

(* The service does not run: RestTemplate cannot connect and throws.        *)
CallFails(r) ==
  /\ "http" \in Faults
  /\ pc[r] = "call"
  /\ Goto(r, "failed")
  /\ UNCHANGED <<allocVars, entity, players, cell, todo, ans, netVars, history>>

(* 200: the address in the response is the answer, once it is recorded.     *)
ReceiveGrant(r) ==
  /\ pc[r] = "await"
  /\ phase[r] = "granted"
  /\ ans' = [ans EXCEPT ![r] = grant[r]]
  /\ Goto(r, "reread")
  /\ UNCHANGED <<allocVars, entity, players, cell, todo, netVars, history>>

(* Any other outcome: RestTemplate throws and nothing catches it.           *)
ReceiveRefusal(r) ==
  /\ pc[r] = "await"
  /\ phase[r] = "refused"
  /\ Collect(r)
  /\ Goto(r, "failed")
  /\ UNCHANGED <<entity, players, cell, todo, ans, netVars, history>>

(* createOrUpdateCellId reads the entity again ...                          *)
Reread(r) ==
  /\ pc[r] = "reread"
  /\ todo' = [todo EXCEPT ![r] = entity[cell[r]]]
  /\ Goto(r, "write")
  /\ UNCHANGED <<allocVars, entity, players, cell, ans, netVars, history>>

(* Mutant: the new server replaces the lists.                               *)
WriteReplaces(r) ==
  /\ pc[r] = "write"
  /\ entity' = [entity EXCEPT ![cell[r]] = <<ans[r]>>]
  /\ Goto(r, "answered")
  /\ Collect(r)
  /\ spoiled' = spoiled \cup
                  (IF todo[r] = entity[cell[r]] THEN {} ELSE {cell[r]})
  /\ UNCHANGED <<players, cell, todo, ans, netVars, granted>>

(* Mutant: a failed put is repeated, although it may have taken effect.     *)
WriteRetries(r) ==
  /\ pc[r] = "write"
  /\ entity' = [entity EXCEPT ![cell[r]] = Append(todo[r], ans[r])]
  /\ \/ Goto(r, "answered") /\ Collect(r)
     \/ "datastore" \in Faults /\ Goto(r, "reread") /\ UNCHANGED allocVars
  /\ spoiled' = spoiled \cup
                  (IF todo[r] = entity[cell[r]] THEN {} ELSE {cell[r]})
  /\ UNCHANGED <<players, cell, todo, ans, netVars, granted>>

(* ... and stores what it read with the new server appended, or, when it    *)
(* read no entity, the new server alone.  The write may take effect and     *)
(* still fail towards the caller.                                           *)
Write(r) ==
  /\ pc[r] = "write"
  /\ entity' = [entity EXCEPT ![cell[r]] = Append(todo[r], ans[r])]
  /\ \/ Goto(r, "answered")
     \/ "datastore" \in Faults /\ Goto(r, "failed")
  /\ Collect(r)
  /\ spoiled' = spoiled \cup
                  (IF todo[r] = entity[cell[r]] THEN {} ELSE {cell[r]})
  /\ UNCHANGED <<players, cell, todo, ans, netVars, granted>>

(* A Datastore call fails without effect: the request ends with an error.   *)
DatastoreFails(r) ==
  /\ "datastore" \in Faults
  /\ pc[r] \in {"find", "reread", "write"}
  /\ Goto(r, "failed")
  /\ UNCHANGED <<allocVars, entity, players, cell, todo, ans, netVars, history>>

Running == {r \in Requests : pc[r] \notin {"idle", "answered", "failed"}}

(* The matchmaker process stops and every request in it breaks.             *)
Crash ==
  /\ "crash" \in Faults
  /\ Running # {}
  /\ pc' = [r \in Requests |-> IF r \in Running THEN "failed" ELSE pc[r]]
  /\ UNCHANGED <<allocVars, entity, players, cell, todo, ans, netVars, history>>

(* The player of a failed request gives up.  A server still granted to the  *)
(* request was recorded nowhere.                                            *)
Recycle(r) ==
  /\ pc[r] = "failed"
  /\ \/ phase[r] = "idle" /\ UNCHANGED allocVars
     \/ Collect(r)
  /\ spoiled' = spoiled \cup (IF phase[r] = "granted" THEN {cell[r]} ELSE {})
  /\ Forget(r)
  /\ UNCHANGED <<entity, players, granted>>

-----------------------------------------------------------------------------
(* The allocation service.                                                  *)

AllocationGrants(r, s) ==
  /\ Grant(r, s)
  /\ granted' = [granted EXCEPT ![cell[r]] = @ \cup {s}]
  /\ UNCHANGED <<entity, players, threadVars, netVars, spoiled>>

(* The calls in R are refused or, when HTTP calls can break, lose the       *)
(* answers that are on their way: one call, or all that a crash ends.       *)
AllocationRefuses(R) ==
  /\ R # {}
  /\ \A r \in R : phase[r] = "granted" =>
                    pc[r] \in {"await", "failed"} /\ "http" \in Faults
  /\ Refuse(R)
  /\ spoiled' = spoiled \cup {cell[r] : r \in {q \in R : phase[q] = "granted"}}
  /\ UNCHANGED <<entity, players, threadVars, netVars, granted>>

-----------------------------------------------------------------------------
(* The game servers, their network and their players.                       *)

(* readWriteLoop serves PCOUNT: the count, then the ACK of every command.   *)
AnswerPcount(r) ==
  /\ "PCOUNT" \in net[r]
  /\ net' = [net EXCEPT ![r] = {"COUNT", "ACK"}]
  /\ count' = [count EXCEPT ![r] = players[ans[r]]]
  /\ UNCHANGED <<allocVars, entity, players, threadVars, history>>

LoseDatagram(r) ==
  /\ "udp" \in Faults
  /\ \E m \in net[r] : net' = [net EXCEPT ![r] = @ \ {m}]
  /\ UNCHANGED <<allocVars, entity, players, threadVars, count, history>>

(* The player joins with NEW; nobody answers at an address that is free.    *)
Join(r) ==
  /\ pc[r] = "answered"
  /\ Forget(r)
  /\ players' = [players EXCEPT ![ans[r]] =
                   IF gs[ans[r]] = "Absent" THEN @ ELSE @ + 1]
  /\ UNCHANGED <<allocVars, entity, history>>

(* The player had stopped waiting (the load generator waits two seconds),   *)
(* or its NEW is lost.                                                      *)
GiveUp(r) ==
  /\ pc[r] = "answered"
  /\ Forget(r)
  /\ UNCHANGED <<allocVars, entity, players, history>>

(* Mutant: a counter that goes down for every DONE.                         *)
LeaveUnchecked(s) ==
  /\ players' = [players EXCEPT ![s] = @ - 1]
  /\ UNCHANGED <<allocVars, entity, threadVars, netVars, history>>

(* deletePlayer on a player that is there.                                  *)
Leave(s) ==
  /\ players[s] > 0
  /\ players' = [players EXCEPT ![s] = @ - 1]
  /\ UNCHANGED <<allocVars, entity, threadVars, netVars, history>>

SpawnServer(s) ==
  /\ Spawn(s)
  /\ UNCHANGED <<entity, players, threadVars, netVars, history>>

(* The process of the game server ends, with its player list and its socket.*)
ServerExit(s) ==
  /\ Exit(s)
  /\ players' = [players EXCEPT ![s] = 0]
  /\ net' = [r \in Requests |->
               IF ans[r] = s THEN net[r] \ {"PCOUNT"} ELSE net[r]]
  /\ UNCHANGED <<entity, threadVars, count, history>>

-----------------------------------------------------------------------------
Thread(r) == \/ Find(r)
             \/ SendPcount(r)
             \/ ReceiveCount(r)
             \/ ReceiveAck(r)
             \/ Exhausted(r)
             \/ CallAllocation(r)
             \/ CallFails(r)
             \/ ReceiveGrant(r)
             \/ ReceiveRefusal(r)
             \/ Reread(r)
             \/ Write(r)
             \/ DatastoreFails(r)

Allocation(r) == \/ AllocationRefuses({r})
                 \/ \E s \in Servers : AllocationGrants(r, s)

Player(r) == Join(r) \/ GiveUp(r) \/ Recycle(r) \/ \E c \in Cells : GetAllocation(r, c)

Next == \/ \E r \in Requests : Thread(r) \/ AnswerPcount(r) \/ LoseDatagram(r)
                                 \/ Player(r)
        \/ \E r \in Requests, s \in Servers : AllocationGrants(r, s)
        \/ \E R \in SUBSET Requests : AllocationRefuses(R)
        \/ Crash
        \/ \E s \in Servers : Leave(s) \/ SpawnServer(s) \/ ServerExit(s)

Spec == Init /\ [][Next]_vars

(* Threads are scheduled, a running game server reads its socket, and the   *)
(* allocation service ends every call (AllocationService, EveryCallEnds).   *)
Fairness == \A r \in Requests : /\ WF_vars(Thread(r))
                                /\ WF_vars(Allocation(r))
                                /\ WF_vars(AnswerPcount(r))

FairSpec == Spec /\ Fairness

-----------------------------------------------------------------------------
(* The promise of the matchmaker: only a server allocated for the player's  *)
(* own cell is ever told, although the threads of all cells share one       *)
(* Datastore and one fleet, and no two cells get the same server.           *)
Wanted(r) == IF pc[r] \in {"idle", "failed"} THEN NoCell ELSE cell[r]
Told(r) == IF pc[r] = "answered" THEN ans[r] ELSE NoServer

Contract == INSTANCE Matchmaking WITH owned <- granted,
                                      want <- [r \in Requests |-> Wanted(r)],
                                      told <- [r \in Requests |-> Told(r)]

KeepsContract == Contract!ContractSpec

(* Whatever the threads write over each other, a server that cannot stop is *)
(* recorded at most once: in one cell, at one place of its lists.           *)
OneHome ==
  \A c, d \in Cells : \A i \in DOMAIN entity[c], j \in DOMAIN entity[d] :
    entity[c][i] = entity[d][j] /\ entity[c][i] \notin Mortal
      => c = d /\ i = j

(* A server that was spent on a cell is in the cell's lists or in the hands *)
(* of a request that will record it.  The exceptions are cells where a      *)
(* write was based on stale lists or a request broke after its grant, the   *)
(* only two ways this code can leak an Allocated server.                    *)
SpentServersOnRecord ==
  \A c \in Cells \ spoiled : \A s \in granted[c] :
    \/ s \in Recorded(c)
    \/ \E r \in Requests : cell[r] = c /\ phase[r] = "granted" /\ grant[r] = s

(* The requests that have, or are about to have, a place on server s that   *)
(* its player count does not show yet.                                      *)
Committed(s) ==
  {r \in Requests :
     \/ pc[r] = "probe" /\ ans[r] = s /\ "COUNT" \in net[r] /\ count[r] < MaxPlayers
     \/ phase[r] = "granted" /\ grant[r] = s
     \/ pc[r] = "answered" /\ ans[r] = s}

(* The count is checked long before the player joins, so a server may get   *)
(* more than MaxPlayers; but never more than one player for each other      *)
(* request in flight (one more when the server stopped and was allocated    *)
(* again while old answers still name it).                                  *)
OvershootBound ==
  \A s \in Servers :
    players[s] + Cardinality(Committed(s)) + 1 <=
      MaxPlayers + Cardinality(Requests)
        + (IF s \in Mortal /\ gs[s] = "Allocated" THEN 1 ELSE 0)

(* Every request returns, with an answer or an error.  getPlayerCount waits *)
(* for its datagram without a timeout, so this needs game servers that do   *)
(* not stop and a network that does not lose datagrams.                     *)
EveryRequestReturns ==
  \A r \in Requests : pc[r] = "find" ~> pc[r] \in {"answered", "failed", "idle"}

(* MatchMakerController.java:208 "add a new allocated server in the key     *)
(* update entity": recording a server never drops another one.              *)
RecordedServersStay ==
  [][\A c \in Cells : Recorded(c) \subseteq Recorded(c)']_vars

=============================================================================
