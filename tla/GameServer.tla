----------------------------- MODULE GameServer -----------------------------
(* The game server process, src/gameserver/server.go: readWriteLoop serves  *)
(* one datagram after the other, next to the goroutines doHealth,           *)
(* doStackDriverExport and doSignal.  Around it are the network, Agones,    *)
(* which retires a server whose pings stop, and clients that use it as the  *)
(* README describes: NEW, read the id, play, DONE/id.                       *)
(* PCOUNT and its answer are in Matchmaker, which depends on them.          *)
EXTENDS Naturals, FiniteSets

CONSTANTS Clients,
          Ids,       \* player ids; at most this many exist at a time
          NoId,
          Operator,  \* sends commands by hand; no client
          Orders,    \* the commands the operator uses
          Faults     \* which of "udp", "io", "signal" occur

ASSUME GameServerAssumption ==
  /\ NoId \notin Ids
  /\ IsFiniteSet(Ids)
  /\ Operator \notin Clients
  /\ Orders \subseteq {"EXIT", "UNHEALTHY", "QUERY"}
  /\ Faults \subseteq {"udp", "io", "signal"}

VARIABLES proc,        \* where main is, or how the process ended
          agones,      \* state of the GameServer resource
          playerList,  \* the ids in the map playerList
          stop,        \* whether the channel stop is closed
          health,      \* where doHealth is
          exporter,    \* where doStackDriverExport is
          sample,      \* numberofGamers
          seen,        \* history: player counts since the last export
          inbox,       \* datagrams on their way to the server
          replies,     \* datagrams on their way to the clients
          client,      \* progress of each client
          myId         \* the id each client plays with

serverVars == <<playerList, stop, seen>>
loopVars == <<health, exporter, sample>>
clientVars == <<client, myId>>
vars == <<proc, agones, playerList, stop, health, exporter, sample, seen,
          inbox, replies, client, myId>>

Count == Cardinality(playerList)

Packets == [from : Clients \cup {Operator}, id : Ids \cup {NoId},
            cmd : {"NEW", "DONE", "EXIT", "UNHEALTHY", "QUERY"}]

Replies == [to : Clients, msg : {"added", "removed"}, id : Ids]

TypeOK ==
  /\ proc \in {"boot", "listening", "serving", "exited", "fatal", "panicked"}
  /\ agones \in {"Scheduled", "Ready", "Unhealthy", "Shutdown"}
  /\ playerList \subseteq Ids
  /\ stop \in BOOLEAN
  /\ health \in {"off", "ping", "select", "stopped"}
  /\ exporter \in {"off", "count", "select"}
  /\ sample \in Nat
  /\ seen \subseteq Nat
  /\ inbox \subseteq Packets
  /\ replies \subseteq Replies
  /\ client \in [Clients -> {"out", "joining", "in", "leaving"}]
  /\ myId \in [Clients -> Ids \cup {NoId}]

Init == /\ proc = "boot"
        /\ agones = "Scheduled"
        /\ playerList = {}
        /\ stop = FALSE
        /\ health = "off"
        /\ exporter = "off"
        /\ sample = 0
        /\ seen = {0}
        /\ inbox = {}
        /\ replies = {}
        /\ client = [c \in Clients |-> "out"]
        /\ myId = [c \in Clients |-> NoId]

Alive == proc \in {"boot", "listening", "serving"}

-----------------------------------------------------------------------------
(* main and the goroutines it starts.                                       *)

(* The socket is open, the SDK connected, and doHealth runs.                *)
Listen == /\ proc = "boot"
          /\ proc' = "listening"
          /\ health' = "ping"
          /\ UNCHANGED <<agones, serverVars, exporter, sample, inbox, replies,
                         clientVars>>

(* s.Ready(); then the exporter and the loop start.                         *)
MarkReady == /\ proc = "listening"
             /\ proc' = "serving"
             /\ agones' = IF agones = "Scheduled" THEN "Ready" ELSE agones
             /\ exporter' = "count"
             /\ UNCHANGED <<serverVars, health, sample, inbox, replies, clientVars>>

(* Mutant: break leaves the select, not the loop.                           *)
HealthStopBreaks == /\ Alive
                    /\ health = "select"
                    /\ stop
                    /\ health' = "ping"
                    /\ UNCHANGED <<proc, agones, serverVars, exporter, sample,
                                   inbox, replies, clientVars>>

(* doHealth: a ping, then wait for the tick or for the channel to close.    *)
Ping == /\ Alive
        /\ health = "ping"
        /\ health' = "select"
        /\ UNCHANGED <<proc, agones, serverVars, exporter, sample, inbox,
                       replies, clientVars>>

HealthTick == /\ Alive
              /\ health = "select"
              /\ health' = "ping"
              /\ UNCHANGED <<proc, agones, serverVars, exporter, sample, inbox,
                             replies, clientVars>>

HealthStop == /\ Alive
              /\ health = "select"
              /\ stop
              /\ health' = "stopped"
              /\ UNCHANGED <<proc, agones, serverVars, exporter, sample, inbox,
                             replies, clientVars>>

(* Mutant: the players are counted once, before the loop.                   *)
ExportOldSample == /\ Alive
                   /\ exporter = "select"
                   /\ seen' = {Count}
                   /\ UNCHANGED <<proc, agones, playerList, stop, loopVars,
                                  inbox, replies, clientVars>>

(* doStackDriverExport counts the players first and waits for the tick      *)
(* afterwards.  countPlayers reads one word of a map the loop is changing:  *)
(* it sees the count before or after the change.                            *)
Sample == /\ Alive
          /\ exporter = "count"
          /\ sample' = Count
          /\ exporter' = "select"
          /\ UNCHANGED <<proc, agones, serverVars, health, inbox, replies,
                         clientVars>>

Export == /\ Alive
          /\ exporter = "select"
          /\ exporter' = "count"
          /\ seen' = {Count}
          /\ UNCHANGED <<proc, agones, playerList, stop, health, sample, inbox,
                         replies, clientVars>>

(* An SDK call, an export, a read or a write fails: log.Fatalf.             *)
Fatal == /\ "io" \in Faults
         /\ Alive
         /\ proc' = "fatal"
         /\ UNCHANGED <<agones, serverVars, loopVars, inbox, replies, clientVars>>

(* doSignal: a termination signal ends the process at once.                 *)
Signal == /\ Alive
          /\ proc' = "exited"
          /\ UNCHANGED <<agones, serverVars, loopVars, inbox, replies, clientVars>>

-----------------------------------------------------------------------------
(* readWriteLoop: the commands.                                             *)

(* Mutant: ids are used again as soon as their player left.                 *)
FreeInList == Ids \ playerList

(* xid.New() returns an id that was never returned before; an id nobody     *)
(* knows any more stands for it.                                            *)
Fresh == Ids \ (playerList \cup {p.id : p \in inbox} \cup {m.id : m \in replies}
                  \cup {myId[c] : c \in Clients})

(* Mutant: the player is stored, but the client is not told.                *)
AddPlayerSilently(p) == /\ p.cmd = "NEW"
                        /\ \E id \in Fresh : playerList' = playerList \cup {id}
                        /\ seen' = seen \cup {Count'}
                        /\ UNCHANGED <<proc, agones, stop, replies>>

(* Mutant: the player is stored under what the datagram carries as an id.   *)
AddPlayerByPacket(p) == /\ p.cmd = "NEW"
                        /\ playerList' = playerList \cup {p.id}
                        /\ seen' = seen \cup {Count'}
                        /\ UNCHANGED <<proc, agones, stop, replies>>

(* NEW.  A datagram from a socket that was closed is answered to nobody.    *)
AddPlayer(p) == /\ p.cmd = "NEW"
                /\ \E id \in Fresh :
                     /\ playerList' = playerList \cup {id}
                     /\ replies' = replies \cup
                          {m \in Replies : m = [to |-> p.from, msg |-> "added", id |-> id]}
                /\ seen' = seen \cup {Count'}
                /\ UNCHANGED <<proc, agones, stop>>

(* Mutant: the part before the slash is deleted, which is never a key.      *)
DeleteCommand(p) == /\ p.cmd = "DONE"
                    /\ replies' = replies \cup
                         {m \in Replies : m = [to |-> p.from, msg |-> "removed", id |-> p.id]}
                    /\ UNCHANGED <<proc, agones, serverVars>>

(* Any text with a slash: the part behind it is deleted, if it is a key.    *)
DeletePlayer(p) == /\ p.cmd = "DONE"
                   /\ playerList' = playerList \ {p.id}
                   /\ replies' = replies \cup
                        {m \in Replies : m = [to |-> p.from, msg |-> "removed", id |-> p.id]}
                   /\ seen' = seen \cup {Count'}
                   /\ UNCHANGED <<proc, agones, stop>>

(* EXIT: s.Shutdown(), which may fail, then os.Exit without an ACK.         *)
ExitCommand(p) == /\ p.cmd = "EXIT"
                  /\ proc' = "exited"
                  /\ \/ agones' = "Shutdown"
                     \/ "io" \in Faults /\ UNCHANGED agones
                  /\ UNCHANGED <<serverVars, replies>>

(* UNHEALTHY closes the channel; close of a closed channel panics.          *)
Unhealthy(p) == /\ p.cmd = "UNHEALTHY"
                /\ stop' = TRUE
                /\ proc' = IF stop THEN "panicked" ELSE proc
                /\ UNCHANGED <<agones, playerList, seen, replies>>

(* PLIST, PCOUNT, GAMESERVER, WATCH, LABEL, ANNOTATION and unknown texts    *)
(* change nothing here.                                                     *)
Query(p) == /\ p.cmd = "QUERY"
            /\ UNCHANGED <<proc, agones, serverVars, replies>>

(* The loop takes a datagram from the socket; the network may deliver the   *)
(* same datagram again.  ACKs are left out, no client waits for one.        *)
Receive(p) == /\ proc = "serving"
              /\ p \in inbox
              /\ \/ inbox' = inbox \ {p}
                 \/ "udp" \in Faults /\ UNCHANGED inbox
              /\ \/ AddPlayer(p)
                 \/ DeletePlayer(p)
                 \/ ExitCommand(p)
                 \/ Unhealthy(p)
                 \/ Query(p)
              /\ UNCHANGED <<loopVars, clientVars>>

-----------------------------------------------------------------------------
(* The clients and the operator.                                            *)

Send(from, cmd, id) == inbox' = inbox \cup {[from |-> from, cmd |-> cmd, id |-> id]}

(* A client opens a socket and sends NEW.  What it sent from an earlier     *)
(* socket is still under way, but the answers no longer reach it.           *)
SendNew(c) ==
  /\ proc = "serving"
  /\ client[c] = "out"
  /\ client' = [client EXCEPT ![c] = "joining"]
  /\ inbox' = {IF p.from = c THEN [p EXCEPT !.from = Operator] ELSE p : p \in inbox}
                \cup {[from |-> c, cmd |-> "NEW", id |-> NoId]}
  /\ replies' = {m \in replies : m.to # c}
  /\ UNCHANGED <<proc, agones, serverVars, loopVars, myId>>

(* "Added a player with id ..": the first one counts.                       *)
Joined(c, m) ==
  /\ m \in replies
  /\ m.to = c
  /\ m.msg = "added"
  /\ client[c] = "joining"
  /\ client' = [client EXCEPT ![c] = "in"]
  /\ myId' = [myId EXCEPT ![c] = m.id]
  /\ replies' = replies \ {m}
  /\ UNCHANGED <<proc, agones, serverVars, loopVars, inbox>>

SendDone(c) ==
  /\ proc = "serving"
  /\ client[c] = "in"
  /\ client' = [client EXCEPT ![c] = "leaving"]
  /\ Send(c, "DONE", myId[c])
  /\ UNCHANGED <<proc, agones, serverVars, loopVars, replies, myId>>

(* "Removed a player with id ..".                                           *)
Left(c, m) ==
  /\ m \in replies
  /\ m.to = c
  /\ m.msg = "removed"
  /\ client[c] = "leaving"
  /\ client' = [client EXCEPT ![c] = "out"]
  /\ myId' = [myId EXCEPT ![c] = NoId]
  /\ replies' = replies \ {m}
  /\ UNCHANGED <<proc, agones, serverVars, loopVars, inbox>>

(* The client waits no longer for an answer (the load generator closes its  *)
(* socket after 0.15 seconds without reading it).                           *)
StopWaiting(c) ==
  /\ "udp" \in Faults
  /\ client[c] \in {"joining", "leaving"}
  /\ client' = [client EXCEPT ![c] = "out"]
  /\ myId' = [myId EXCEPT ![c] = NoId]
  /\ UNCHANGED <<proc, agones, serverVars, loopVars, inbox, replies>>

Order(cmd) ==
  /\ proc = "serving"
  /\ Send(Operator, cmd, NoId)
  /\ UNCHANGED <<proc, agones, serverVars, loopVars, replies, clientVars>>

-----------------------------------------------------------------------------
(* The network and Agones.                                                  *)

Lose == /\ "udp" \in Faults
        /\ \/ \E p \in inbox : inbox' = inbox \ {p} /\ UNCHANGED replies
           \/ \E m \in replies : replies' = replies \ {m} /\ UNCHANGED inbox
        /\ UNCHANGED <<proc, agones, serverVars, loopVars, clientVars>>

(* No ping for the configured period.                                       *)
MarkUnhealthy == /\ agones \in {"Scheduled", "Ready"}
                 /\ ~Alive \/ health = "stopped"
                 /\ agones' = "Unhealthy"
                 /\ UNCHANGED <<proc, serverVars, loopVars, inbox, replies,
                                clientVars>>

(* Agones deletes the pod of a server that is to be retired ...             *)
Retire == agones \in {"Unhealthy", "Shutdown"} /\ Signal

(* ... and anybody else may delete it at any time.                          *)
Delete == "signal" \in Faults /\ Signal

-----------------------------------------------------------------------------
Boot == Listen \/ MarkReady

DoHealth == Ping \/ HealthTick \/ HealthStop

DoExport == Sample \/ Export

Client(c) == \/ SendNew(c)
             \/ SendDone(c)
             \/ StopWaiting(c)
             \/ \E m \in replies : Joined(c, m) \/ Left(c, m)

Next == \/ Boot \/ DoHealth \/ DoExport \/ Fatal \/ Retire \/ Delete
        \/ \E p \in inbox : Receive(p)
        \/ \E c \in Clients : Client(c)
        \/ \E cmd \in Orders : Order(cmd)
        \/ Lose
        \/ MarkUnhealthy

Spec == Init /\ [][Next]_vars

(* The goroutines are scheduled, the socket's queue is first in first out,  *)
(* select picks at random among its ready channels, and Agones acts.        *)
Fairness == /\ WF_vars(Boot) /\ WF_vars(Ping) /\ WF_vars(HealthTick)
            /\ SF_vars(HealthStop)
            /\ WF_vars(MarkUnhealthy) /\ WF_vars(Retire)
            /\ \A c \in Clients :
                 /\ WF_vars(\E p \in inbox : p.from = c /\ Receive(p))
                 /\ WF_vars(\E m \in replies : Joined(c, m) \/ Left(c, m))

FairSpec == Spec /\ Fairness

-----------------------------------------------------------------------------
(* While the server runs, every client that was told it is in is in         *)
(* playerList, under an id of its own: no datagram of anybody, late, twice  *)
(* or from an earlier visit, takes a player out of the list.                *)
ClientsCounted ==
  proc = "serving" =>
    \A c \in Clients : client[c] = "in" =>
      /\ myId[c] \in playerList
      /\ \A d \in Clients \ {c} : myId[d] # myId[c]

(* On a network without faults the list has no ghosts: each player in it is *)
(* a client's, or the client will learn of it.  PCOUNT, which fills servers *)
(* up, and the exported count, which scales the fleet, rest on this.        *)
NoGhosts ==
  "udp" \notin Faults =>
    \A id \in playerList :
      \E c \in Clients :
        \/ client[c] \in {"in", "leaving"} /\ myId[c] = id
        \/ client[c] = "joining" /\ [to |-> c, msg |-> "added", id |-> id] \in replies

(* The number about to be exported was the number of players at some time   *)
(* since the previous export: it is never older than one interval.          *)
ExportWithinInterval == exporter = "select" => sample \in seen

(* Once the health pings are switched off, Agones retires the server and    *)
(* its process ends, whatever else is going on.                             *)
UnhealthyRetires == stop ~> ~Alive

(* A client that asks to join gets in, or the server ends.                  *)
JoinEnds == \A c \in Clients : client[c] = "joining" ~> client[c] # "joining" \/ ~Alive

=============================================================================
