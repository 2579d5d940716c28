-------------------------- MODULE GameServerProofs --------------------------
(* Theorems about GameServer, for every number of clients and ids, every    *)
(* set of commands and every choice of faults.                              *)
EXTENDS GameServer, FiniteSetTheorems, TLAPS

(* A client has an id from the answer to its NEW to the end of its DONE.    *)
IdsOfPlayers == \A c \in Clients : myId[c] # NoId <=> client[c] \in {"in", "leaving"}

(* No two clients have the same id.                                         *)
OwnIds == \A c, d \in Clients : myId[c] # NoId /\ myId[d] = myId[c] => c = d

(* No datagram on its way deletes id.                                       *)
NoDone(id) == \A p \in inbox : p.cmd = "DONE" => p.id # id

(* An id that a client is about to learn of is in the list, nobody has it,  *)
(* nobody else is about to learn of it, and nothing deletes it.             *)
Offered ==
  \A m \in replies : m.msg = "added" =>
    /\ m.id \in playerList
    /\ NoDone(m.id)
    /\ \A c \in Clients : myId[c] # m.id
    /\ \A n \in replies : n.msg = "added" /\ n.id = m.id => n = m

(* The id of a client that is in is in the list, and nothing deletes it.    *)
Counted == \A c \in Clients : client[c] = "in" => myId[c] \in playerList /\ NoDone(myId[c])

-----------------------------------------------------------------------------
(* The list is finite, so its length is a number.                           *)
LEMMA CountIsNat == /\ TypeOK => Count \in Nat
                    /\ TypeOK' => Count' \in Nat
<1>1. ASSUME NEW S \in SUBSET Ids PROVE Cardinality(S) \in Nat
  BY GameServerAssumption, FS_Subset, FS_CardinalityType
<1>2. QED
  BY <1>1 DEF TypeOK, Count

(* Whatever the handler of a datagram does, the list keeps to the ids.      *)
LEMMA HandlerTyped ==
  ASSUME TypeOK, NEW p \in inbox, Receive(p)
  PROVE  /\ playerList' \subseteq Ids
         /\ seen' \subseteq Nat
         /\ inbox' \subseteq inbox
         /\ replies' \subseteq Replies
         /\ stop' \in BOOLEAN
         /\ proc' \in {"serving", "exited", "panicked"}
         /\ agones' \in {"Scheduled", "Ready", "Unhealthy", "Shutdown"}
<1>1. inbox' \subseteq inbox
  BY DEF Receive
<1>2. playerList' \subseteq Ids
  BY DEF Receive, AddPlayer, DeletePlayer, ExitCommand, Unhealthy, Query,
         serverVars, Fresh, TypeOK
<1>3. Cardinality(playerList') \in Nat
  BY <1>2, GameServerAssumption, FS_Subset, FS_CardinalityType
<1>4. seen' \subseteq Nat
  BY <1>3 DEF Receive, AddPlayer, DeletePlayer, ExitCommand, Unhealthy, Query,
              serverVars, Count, TypeOK
<1>5. replies' \subseteq Replies
  BY DEF Receive, AddPlayer, DeletePlayer, ExitCommand, Unhealthy, Query, TypeOK
<1>6. stop' \in BOOLEAN
  BY DEF Receive, AddPlayer, DeletePlayer, ExitCommand, Unhealthy, Query,
         serverVars, TypeOK
<1>7. proc' \in {"serving", "exited", "panicked"}
  BY DEF Receive, AddPlayer, DeletePlayer, ExitCommand, Unhealthy, Query
<1>8. agones' \in {"Scheduled", "Ready", "Unhealthy", "Shutdown"}
  BY DEF Receive, AddPlayer, DeletePlayer, ExitCommand, Unhealthy, Query, TypeOK
<1>9. QED
  BY <1>1, <1>2, <1>4, <1>5, <1>6, <1>7, <1>8

(* A client that opens a new socket changes who is answered, no command and *)
(* no id of what is under way.                                              *)
LEMMA SendNewInbox ==
  ASSUME TypeOK, NEW c \in Clients, SendNew(c)
  PROVE  /\ inbox' \subseteq Packets
         /\ \A id : NoDone(id) => NoDone(id)'
<1>1. ASSUME NEW p \in inbox'
      PROVE  p \in Packets /\ (p.cmd = "DONE" => \E q \in inbox : q.cmd = "DONE" /\ q.id = p.id)
  <2>1. CASE p = [from |-> c, cmd |-> "NEW", id |-> NoId]
    BY <2>1 DEF Packets
  <2>2. CASE \E q \in inbox : p = IF q.from = c THEN [q EXCEPT !.from = Operator] ELSE q
    <3>1. PICK q \in inbox : p = IF q.from = c THEN [q EXCEPT !.from = Operator] ELSE q
      BY <2>2
    <3>2. q \in Packets
      BY DEF TypeOK
    <3>3. p \in Packets /\ p.cmd = q.cmd /\ p.id = q.id
      BY <3>1, <3>2 DEF Packets
    <3>4. QED
      BY <3>3
  <2>3. QED
    BY <1>1, <2>1, <2>2 DEF SendNew
<1>2. QED
  BY <1>1 DEF NoDone

-----------------------------------------------------------------------------
(* Every reachable state of the game server and its clients is well typed.  *)
THEOREM GameServerTyped == Spec => []TypeOK
<1>1. Init => TypeOK
  <2> SUFFICES ASSUME Init PROVE TypeOK
    OBVIOUS
  <2>1. /\ client \in [Clients -> {"out", "joining", "in", "leaving"}]
        /\ myId \in [Clients -> Ids \cup {NoId}]
    BY DEF Init
  <2>2. seen \subseteq Nat /\ sample \in Nat
    BY DEF Init
  <2>3. playerList \subseteq Ids /\ inbox \subseteq Packets /\ replies \subseteq Replies
    BY DEF Init
  <2>4. QED
    BY <2>1, <2>2, <2>3 DEF Init, TypeOK
<1>2. TypeOK /\ [Next]_vars => TypeOK'
  <2> SUFFICES ASSUME TypeOK, [Next]_vars PROVE TypeOK'
    OBVIOUS
  <2> USE DEF serverVars, loopVars, clientVars
  <2>1. CASE Boot
    BY <2>1 DEF Boot, Listen, MarkReady, TypeOK
  <2>2. CASE DoHealth
    BY <2>2 DEF DoHealth, Ping, HealthTick, HealthStop, TypeOK
  <2>3. CASE DoExport
    BY <2>3, CountIsNat DEF DoExport, Sample, Export, TypeOK
  <2>4. CASE Fatal \/ Retire \/ Delete
    BY <2>4 DEF Fatal, Retire, Delete, Signal, TypeOK
  <2>5. ASSUME NEW p \in inbox, Receive(p) PROVE TypeOK'
    <3>1. UNCHANGED <<loopVars, clientVars>>
      BY <2>5 DEF Receive
    <3>2. QED
      BY <2>5, <3>1, HandlerTyped DEF TypeOK
  <2>6. ASSUME NEW c \in Clients, SendNew(c) PROVE TypeOK'
    <3>1. inbox' \subseteq Packets
      BY <2>6, SendNewInbox
    <3>2. replies' \subseteq Replies
      BY <2>6 DEF SendNew, TypeOK
    <3>3. QED
      BY <2>6, <3>1, <3>2 DEF SendNew, TypeOK
  <2>7. ASSUME NEW c \in Clients, SendDone(c) PROVE TypeOK'
    <3>1. [from |-> c, cmd |-> "DONE", id |-> myId[c]] \in Packets
      BY DEF Packets, TypeOK
    <3>2. QED
      BY <2>7, <3>1 DEF SendDone, Send, TypeOK
  <2>8. ASSUME NEW c \in Clients, StopWaiting(c) PROVE TypeOK'
    BY <2>8 DEF StopWaiting, TypeOK
  <2>9. ASSUME NEW c \in Clients, NEW m \in replies, Joined(c, m) \/ Left(c, m)
        PROVE  TypeOK'
    <3>1. m.id \in Ids
      BY DEF TypeOK, Replies
    <3>2. QED
      BY <2>9, <3>1 DEF Joined, Left, TypeOK
  <2>10. ASSUME NEW cmd \in Orders, Order(cmd) PROVE TypeOK'
    <3>1. [from |-> Operator, cmd |-> cmd, id |-> NoId] \in Packets
      BY GameServerAssumption DEF Packets
    <3>2. QED
      BY <2>10, <3>1 DEF Order, Send, TypeOK
  <2>11. CASE Lose
    BY <2>11 DEF Lose, TypeOK
  <2>12. CASE MarkUnhealthy
    BY <2>12 DEF MarkUnhealthy, TypeOK
  <2>13. CASE UNCHANGED vars
    BY <2>13 DEF vars, TypeOK
  <2>14. QED
    BY <2>1, <2>2, <2>3, <2>4, <2>5, <2>6, <2>7, <2>8, <2>9, <2>10, <2>11,
       <2>12, <2>13 DEF Next, Client
<1>3. QED
  BY <1>1, <1>2, PTL DEF Spec

-----------------------------------------------------------------------------
(* The four parts of the invariant about ids.                               *)
IdInv == IdsOfPlayers /\ OwnIds /\ Offered /\ Counted

(* Every step of the server, the clients and the network keeps them.        *)
LEMMA IdInvStep == TypeOK /\ TypeOK' /\ IdInv /\ [Next]_vars => IdInv'
<1> SUFFICES ASSUME TypeOK, TypeOK', IdInv, [Next]_vars PROVE IdInv'
  OBVIOUS
<1> USE GameServerAssumption
<1>1. ASSUME UNCHANGED <<playerList, client, myId>>, inbox' \subseteq inbox,
             replies' \subseteq replies
      PROVE  IdInv'
  BY <1>1 DEF IdInv, IdsOfPlayers, OwnIds, Offered, Counted, NoDone
<1>2. ASSUME NEW p \in inbox, Receive(p) PROVE IdInv'
  <2>1. inbox' \subseteq inbox /\ UNCHANGED <<client, myId>>
    BY <1>2 DEF Receive, clientVars
  <2>2. CASE AddPlayer(p)
    <3>1. PICK id \in Fresh :
            /\ playerList' = playerList \cup {id}
            /\ replies' = replies \cup
                 {m \in Replies : m = [to |-> p.from, msg |-> "added", id |-> id]}
      BY <2>2 DEF AddPlayer
    <3>2. /\ id \in Ids /\ id \notin playerList
          /\ \A q \in inbox : q.id # id
          /\ \A m \in replies : m.id # id
          /\ \A c \in Clients : myId[c] # id
      BY DEF Fresh
    <3>3. IdsOfPlayers' /\ OwnIds' /\ Counted'
      BY <2>1, <3>1 DEF IdInv, IdsOfPlayers, OwnIds, Counted, NoDone
    <3>4. Offered'
      <4>1. ASSUME NEW m \in replies', m.msg = "added", m \notin replies
            PROVE  m = [to |-> p.from, msg |-> "added", id |-> id] /\ m.id = id
        BY <4>1, <3>1
      <4>2. ASSUME NEW m \in replies', m.msg = "added"
            PROVE  /\ m.id \in playerList'
                   /\ NoDone(m.id)'
                   /\ \A c \in Clients : myId'[c] # m.id
        BY <4>1, <4>2, <2>1, <3>1, <3>2 DEF IdInv, Offered, NoDone
      <4>3. ASSUME NEW m \in replies', m.msg = "added",
                   NEW n \in replies', n.msg = "added", n.id = m.id
            PROVE  n = m
        BY <4>1, <4>3, <3>2 DEF IdInv, Offered
      <4>4. QED
        BY <4>2, <4>3 DEF Offered
    <3>5. QED
      BY <3>3, <3>4 DEF IdInv
  <2>3. CASE DeletePlayer(p)
    <3>1. /\ p.cmd = "DONE"
          /\ playerList' = playerList \ {p.id}
          /\ \A m \in replies' : m.msg = "added" => m \in replies
      BY <2>3 DEF DeletePlayer
    <3>2. QED
      BY <2>1, <3>1 DEF IdInv, IdsOfPlayers, OwnIds, Offered, Counted, NoDone
  <2>4. CASE ExitCommand(p) \/ Unhealthy(p) \/ Query(p)
    BY <1>1, <2>1, <2>4 DEF ExitCommand, Unhealthy, Query, serverVars
  <2>5. QED
    BY <1>2, <2>2, <2>3, <2>4 DEF Receive
<1>3. ASSUME NEW c \in Clients, SendNew(c) PROVE IdInv'
  <2>1. \A id : NoDone(id) => NoDone(id)'
    BY <1>3, SendNewInbox
  <2>2. /\ client[c] = "out"
        /\ client' = [client EXCEPT ![c] = "joining"]
        /\ UNCHANGED <<playerList, myId>>
        /\ replies' \subseteq replies
    BY <1>3 DEF SendNew, serverVars
  <2>3. IdsOfPlayers' /\ OwnIds'
    BY <2>2 DEF IdInv, IdsOfPlayers, OwnIds, TypeOK
  <2>4. Offered'
    BY <2>1, <2>2 DEF IdInv, Offered
  <2>5. Counted'
    BY <2>1, <2>2 DEF IdInv, Counted, TypeOK
  <2>6. QED
    BY <2>3, <2>4, <2>5 DEF IdInv
<1>4. ASSUME NEW c \in Clients, SendDone(c) PROVE IdInv'
  <2>1. /\ client[c] = "in"
        /\ client' = [client EXCEPT ![c] = "leaving"]
        /\ inbox' = inbox \cup {[from |-> c, cmd |-> "DONE", id |-> myId[c]]}
        /\ UNCHANGED <<playerList, replies, myId>>
    BY <1>4 DEF SendDone, Send, serverVars
  <2>2. \A id : NoDone(id) /\ id # myId[c] => NoDone(id)'
    BY <2>1 DEF NoDone
  <2>3. IdsOfPlayers' /\ OwnIds'
    BY <2>1 DEF IdInv, IdsOfPlayers, OwnIds, TypeOK
  <2>4. Offered'
    BY <2>1, <2>2 DEF IdInv, Offered
  <2>5. ASSUME NEW d \in Clients, client'[d] = "in"
        PROVE  (myId[d] \in playerList /\ NoDone(myId[d]))'
    <3>1. d # c /\ client[d] = "in"
      BY <2>1, <2>5 DEF TypeOK
    <3>2. myId[d] # myId[c]
      BY <3>1, <2>1 DEF IdInv, IdsOfPlayers, OwnIds
    <3>3. QED
      BY <2>1, <2>2, <3>1, <3>2 DEF IdInv, Counted
  <2>6. QED
    BY <2>3, <2>4, <2>5 DEF IdInv, Counted
<1>5. ASSUME NEW c \in Clients, StopWaiting(c) PROVE IdInv'
  <2>1. /\ client' = [client EXCEPT ![c] = "out"]
        /\ myId' = [myId EXCEPT ![c] = NoId]
        /\ UNCHANGED <<playerList, inbox, replies>>
    BY <1>5 DEF StopWaiting, serverVars
  <2>2. \A m \in replies : m.id # NoId
    BY DEF TypeOK, Replies
  <2>3. QED
    BY <2>1, <2>2 DEF IdInv, IdsOfPlayers, OwnIds, Offered, Counted, NoDone, TypeOK
<1>6. ASSUME NEW c \in Clients, NEW m \in replies, Joined(c, m) PROVE IdInv'
  <2>1. /\ m.msg = "added"
        /\ client' = [client EXCEPT ![c] = "in"]
        /\ myId' = [myId EXCEPT ![c] = m.id]
        /\ replies' = replies \ {m}
        /\ UNCHANGED <<playerList, inbox>>
    BY <1>6 DEF Joined, serverVars
  <2>2. m.id # NoId
    BY DEF TypeOK, Replies
  <2>3. IdsOfPlayers' /\ OwnIds'
    BY <2>1, <2>2 DEF IdInv, IdsOfPlayers, OwnIds, Offered, TypeOK
  <2>4. Offered'
    BY <2>1 DEF IdInv, Offered, NoDone, TypeOK
  <2>5. Counted'
    BY <2>1 DEF IdInv, Offered, Counted, NoDone, TypeOK
  <2>6. QED
    BY <2>3, <2>4, <2>5 DEF IdInv
<1>7. ASSUME NEW c \in Clients, NEW m \in replies, Left(c, m) PROVE IdInv'
  <2>1. /\ client' = [client EXCEPT ![c] = "out"]
        /\ myId' = [myId EXCEPT ![c] = NoId]
        /\ replies' \subseteq replies
        /\ UNCHANGED <<playerList, inbox>>
    BY <1>7 DEF Left, serverVars
  <2>2. \A n \in replies : n.id # NoId
    BY DEF TypeOK, Replies
  <2>3. QED
    BY <2>1, <2>2 DEF IdInv, IdsOfPlayers, OwnIds, Offered, Counted, NoDone, TypeOK
<1>8. ASSUME NEW cmd \in Orders, Order(cmd) PROVE IdInv'
  <2>1. /\ inbox' = inbox \cup {[from |-> Operator, cmd |-> cmd, id |-> NoId]}
        /\ UNCHANGED <<playerList, replies, client, myId>>
    BY <1>8 DEF Order, Send, serverVars, clientVars
  <2>2. cmd # "DONE"
    OBVIOUS
  <2>3. \A id : NoDone(id) => NoDone(id)'
    BY <2>1, <2>2 DEF NoDone
  <2>4. QED
    BY <2>1, <2>3 DEF IdInv, IdsOfPlayers, OwnIds, Offered, Counted
<1>9. CASE Boot \/ DoHealth \/ DoExport \/ Fatal \/ Retire \/ Delete
  BY <1>1, <1>9 DEF Boot, Listen, MarkReady, DoHealth, Ping, HealthTick, HealthStop,
     DoExport, Sample, Export, Fatal, Retire, Delete, Signal, serverVars, clientVars
<1>10. CASE Lose
  BY <1>1, <1>10 DEF Lose, serverVars, clientVars
<1>11. CASE MarkUnhealthy \/ UNCHANGED vars
  BY <1>1, <1>11 DEF MarkUnhealthy, vars, serverVars, clientVars
<1>12. QED
  BY <1>2, <1>3, <1>4, <1>5, <1>6, <1>7, <1>8, <1>9, <1>10, <1>11 DEF Next, Client

(* While the server runs, a client that is in is in playerList under an id  *)
(* of its own: xid never returns an id twice, so a DONE that is late or     *)
(* repeated names an id nobody else will ever have.                         *)
THEOREM PlayersStayCounted == Spec => []ClientsCounted
<1>1. Init => IdInv
  BY DEF Init, IdInv, IdsOfPlayers, OwnIds, Offered, Counted
<1>2. IdInv => ClientsCounted
  BY DEF IdInv, IdsOfPlayers, OwnIds, Counted, ClientsCounted
<1>3. QED
  BY <1>1, <1>2, IdInvStep, GameServerTyped, PTL DEF Spec

-----------------------------------------------------------------------------
(* The exporter holds a count it took after the previous export, because    *)
(* the loop counts again after every tick; the present count is always      *)
(* among those seen.                                                        *)
THEOREM ExportsAreRecent == Spec => []ExportWithinInterval
<1> DEFINE Recent == Count \in seen /\ ExportWithinInterval
<1>1. Init => Recent
  BY FS_EmptySet DEF Init, Count, ExportWithinInterval
<1>2. Recent /\ [Next]_vars => Recent'
  <2> SUFFICES ASSUME Recent, [Next]_vars PROVE Recent'
    OBVIOUS
  <2> USE DEF ExportWithinInterval, Count, serverVars, loopVars
  <2>1. ASSUME NEW p \in inbox, Receive(p) PROVE Recent'
    BY <2>1 DEF Receive, AddPlayer, DeletePlayer, ExitCommand, Unhealthy, Query
  <2>2. CASE DoExport
    BY <2>2 DEF DoExport, Sample, Export
  <2>3. CASE Boot
    BY <2>3 DEF Boot, Listen, MarkReady
  <2>4. CASE DoHealth
    BY <2>4 DEF DoHealth, Ping, HealthTick, HealthStop
  <2>5. CASE Fatal \/ Retire \/ Delete \/ Lose \/ MarkUnhealthy \/ UNCHANGED vars
    BY <2>5 DEF Fatal, Retire, Delete, Signal, Lose, MarkUnhealthy, vars
  <2>6. ASSUME NEW c \in Clients, Client(c) PROVE Recent'
    BY <2>6 DEF Client, SendNew, SendDone, StopWaiting, Joined, Left
  <2>7. ASSUME NEW cmd \in Orders, Order(cmd) PROVE Recent'
    BY <2>7 DEF Order
  <2>8. QED
    BY <2>1, <2>2, <2>3, <2>4, <2>5, <2>6, <2>7 DEF Next
<1>3. QED
  BY <1>1, <1>2, PTL DEF Spec

-----------------------------------------------------------------------------
(* The visit of a client, on a network without faults: at any time at most  *)
(* one datagram of the client's visit is under way, and it is the one the   *)
(* client waits for.                                                        *)
News == \A p \in inbox : p.cmd = "NEW" =>
          /\ p.from \in Clients /\ p.id = NoId /\ client[p.from] = "joining"
          /\ \A m \in replies : m.to # p.from

Dones == \A p \in inbox : p.cmd = "DONE" =>
           /\ p.from \in Clients /\ p.id = myId[p.from] /\ client[p.from] = "leaving"
           /\ \A m \in replies : m.to # p.from

Answers == \A m \in replies :
             /\ m.msg = "added" => client[m.to] = "joining"
             /\ m.msg = "removed" =>
                  client[m.to] = "leaving" /\ m.id = myId[m.to] /\ m.id \notin playerList
             /\ \A n \in replies : n.to = m.to => n = m

(* id is a client's, or the client will learn of it.                        *)
Owns(c, id) == \/ client[c] \in {"in", "leaving"} /\ myId[c] = id
               \/ /\ client[c] = "joining"
                  /\ [to |-> c, msg |-> "added", id |-> id] \in replies

Owned == \A id \in playerList : \E c \in Clients : Owns(c, id)

VisitInv == News /\ Dones /\ Answers /\ Owned

LEMMA VisitReceive ==
  ASSUME TypeOK, VisitInv, "udp" \notin Faults, NEW p \in inbox, Receive(p)
  PROVE  VisitInv'
<1>1. inbox' = inbox \ {p} /\ UNCHANGED <<client, myId>>
  BY DEF Receive, clientVars
<1>2. CASE AddPlayer(p)
  <2>1. PICK id \in Fresh :
          /\ playerList' = playerList \cup {id}
          /\ replies' = replies \cup
               {m \in Replies : m = [to |-> p.from, msg |-> "added", id |-> id]}
    BY <1>2 DEF AddPlayer
  <2> DEFINE c == p.from
             new == [to |-> c, msg |-> "added", id |-> id]
  <2>2. /\ c \in Clients /\ client[c] = "joining" /\ p.cmd = "NEW" /\ p.id = NoId
        /\ \A m \in replies : m.to # c
    BY <1>2 DEF AddPlayer, VisitInv, News
  <2>3. id \in Ids /\ \A m \in replies : m.id # id
    BY DEF Fresh
  <2>4. new \in Replies /\ new.to = c /\ new.msg = "added" /\ new.id = id
    BY <2>2, <2>3 DEF Replies
  <2>5. replies' = replies \cup {new}
    BY <2>1, <2>4
  <2>6. \A q \in inbox' : q.cmd \in {"NEW", "DONE"} => q.from # c
    <3>1. ASSUME NEW q \in inbox, q.cmd = "NEW", q.from = c
          PROVE  q = p
      <4>1. q.id = NoId
        BY <3>1 DEF VisitInv, News
      <4>2. q \in Packets /\ p \in Packets
        BY DEF TypeOK
      <4>3. QED
        BY <2>2, <3>1, <4>1, <4>2 DEF Packets
    <3>2. ASSUME NEW q \in inbox, q.cmd = "DONE"
          PROVE  q.from # c
      BY <2>2, <3>2 DEF VisitInv, Dones
    <3>3. QED
      BY <1>1, <3>1, <3>2
  <2>7. News' /\ Dones'
    BY <1>1, <2>4, <2>5, <2>6 DEF VisitInv, News, Dones
  <2>8. Answers'
    BY <1>1, <2>1, <2>2, <2>3, <2>4, <2>5 DEF VisitInv, Answers
  <2>9. Owned'
    <3>1. Owns(c, id)'
      BY <1>1, <2>2, <2>5 DEF Owns
    <3>2. \A d \in Clients, i \in playerList : Owns(d, i) => Owns(d, i)'
      BY <1>1, <2>5 DEF Owns
    <3>3. QED
      BY <2>1, <2>2, <3>1, <3>2 DEF VisitInv, Owned
  <2>10. QED
    BY <2>7, <2>8, <2>9 DEF VisitInv
<1>3. CASE DeletePlayer(p)
  <2> DEFINE c == p.from
             new == [to |-> c, msg |-> "removed", id |-> p.id]
  <2>1. /\ c \in Clients /\ client[c] = "leaving" /\ p.cmd = "DONE" /\ p.id = myId[c]
        /\ \A m \in replies : m.to # c
        /\ playerList' = playerList \ {p.id}
    BY <1>3 DEF DeletePlayer, VisitInv, Dones
  <2>2. /\ \A m \in replies' : m \in replies \/ m = new
        /\ replies \subseteq replies'
    BY <1>3 DEF DeletePlayer
  <2>3. new.to = c /\ new.msg = "removed" /\ new.id = p.id
    OBVIOUS
  <2>4. \A q \in inbox' : q.cmd \in {"NEW", "DONE"} => q.from # c
    <3>1. ASSUME NEW q \in inbox, q.cmd = "DONE", q.from = c
          PROVE  q = p
      <4>1. q.id = p.id
        BY <2>1, <3>1 DEF VisitInv, Dones
      <4>2. q \in Packets /\ p \in Packets
        BY DEF TypeOK
      <4>3. QED
        BY <2>1, <3>1, <4>1, <4>2 DEF Packets
    <3>2. ASSUME NEW q \in inbox, q.cmd = "NEW"
          PROVE  q.from # c
      BY <2>1, <3>2 DEF VisitInv, News
    <3>3. QED
      BY <1>1, <3>1, <3>2
  <2>5. News' /\ Dones'
    BY <1>1, <2>2, <2>3, <2>4 DEF VisitInv, News, Dones
  <2>6. Answers'
    BY <1>1, <2>1, <2>2, <2>3 DEF VisitInv, Answers
  <2>7. Owned'
    BY <1>1, <2>1, <2>2 DEF VisitInv, Owned, Owns
  <2>8. QED
    BY <2>5, <2>6, <2>7 DEF VisitInv
<1>4. CASE ExitCommand(p) \/ Unhealthy(p) \/ Query(p)
  <2>1. UNCHANGED <<playerList, replies>>
    BY <1>4 DEF ExitCommand, Unhealthy, Query, serverVars
  <2>2. QED
    BY <1>1, <2>1 DEF VisitInv, News, Dones, Answers, Owned, Owns
<1>5. QED
  BY <1>2, <1>3, <1>4 DEF Receive

LEMMA VisitClient ==
  ASSUME TypeOK, VisitInv, "udp" \notin Faults, NEW c \in Clients, Client(c)
  PROVE  VisitInv'
<1>1. CASE SendNew(c)
  <2>1. /\ client[c] = "out" /\ client' = [client EXCEPT ![c] = "joining"]
        /\ UNCHANGED <<playerList, myId>>
        /\ replies' = {m \in replies : m.to # c}
    BY <1>1 DEF SendNew, serverVars
  <2>2. ASSUME NEW q \in inbox', q.cmd \in {"NEW", "DONE"},
               q # [from |-> c, cmd |-> "NEW", id |-> NoId]
        PROVE  q \in inbox /\ q.from # c
    <3>1. PICK p \in inbox : q = IF p.from = c THEN [p EXCEPT !.from = Operator] ELSE p
      BY <1>1, <2>2 DEF SendNew
    <3>2. p \in Packets
      BY DEF TypeOK
    <3>3. q.cmd = p.cmd
      BY <3>1, <3>2 DEF Packets
    <3>4. p.from # c
      BY <2>1, <2>2, <3>3 DEF VisitInv, News, Dones
    <3>5. QED
      BY <3>1, <3>4
  <2>3. \A d \in Clients \ {c} : client'[d] = client[d]
    BY <2>1 DEF TypeOK
  <2>4. client'[c] = "joining"
    BY <2>1 DEF TypeOK
  <2>5. News'
    <3>1. ASSUME NEW q \in inbox', q.cmd = "NEW"
          PROVE  /\ q.from \in Clients /\ q.id = NoId /\ client'[q.from] = "joining"
                 /\ \A m \in replies' : m.to # q.from
      <4>1. CASE q = [from |-> c, cmd |-> "NEW", id |-> NoId]
        BY <2>1, <2>4, <4>1
      <4>2. CASE q # [from |-> c, cmd |-> "NEW", id |-> NoId]
        BY <2>1, <2>2, <2>3, <3>1, <4>2 DEF VisitInv, News
      <4>3. QED
        BY <4>1, <4>2
    <3>2. QED
      BY <3>1 DEF News
  <2>6. Dones'
    <3>1. ASSUME NEW q \in inbox', q.cmd = "DONE"
          PROVE  q \in inbox /\ q.from # c
      BY <2>2, <3>1
    <3>2. QED
      BY <2>1, <2>3, <3>1 DEF VisitInv, Dones
  <2>7. Answers'
    BY <2>1, <2>3 DEF VisitInv, Answers, TypeOK, Replies
  <2>8. Owned'
    <3>1. \A d \in Clients, i \in playerList : Owns(d, i) => d # c /\ Owns(d, i)'
      BY <2>1, <2>3 DEF Owns
    <3>2. QED
      BY <2>1, <3>1 DEF VisitInv, Owned
  <2>9. QED
    BY <2>5, <2>6, <2>7, <2>8 DEF VisitInv
<1>2. CASE SendDone(c)
  <2> DEFINE new == [from |-> c, cmd |-> "DONE", id |-> myId[c]]
  <2>1. /\ client[c] = "in" /\ client' = [client EXCEPT ![c] = "leaving"]
        /\ UNCHANGED <<playerList, replies, myId>>
        /\ inbox' = inbox \cup {new}
    BY <1>2 DEF SendDone, Send, serverVars
  <2>2. /\ client'[c] = "leaving" /\ \A d \in Clients \ {c} : client'[d] = client[d]
        /\ new.from = c /\ new.cmd = "DONE" /\ new.id = myId[c]
    BY <2>1 DEF TypeOK
  <2>3. \A m \in replies : m.to # c /\ m.to \in Clients
    BY <2>1 DEF VisitInv, Answers, TypeOK, Replies
  <2>4. News' /\ Dones'
    BY <2>1, <2>2, <2>3 DEF VisitInv, News, Dones
  <2>5. Answers'
    BY <2>1, <2>2, <2>3 DEF VisitInv, Answers
  <2>6. Owned'
    <3>1. \A d \in Clients, i \in playerList : Owns(d, i) => Owns(d, i)'
      BY <2>1, <2>2 DEF Owns
    <3>2. QED
      BY <2>1, <3>1 DEF VisitInv, Owned
  <2>7. QED
    BY <2>4, <2>5, <2>6 DEF VisitInv
<1>3. ASSUME NEW m \in replies, Joined(c, m)
      PROVE  VisitInv'
  <2>1. /\ client[c] = "joining" /\ client' = [client EXCEPT ![c] = "in"]
        /\ myId' = [myId EXCEPT ![c] = m.id]
        /\ replies' = replies \ {m} /\ m.to = c
        /\ UNCHANGED <<playerList, inbox>>
    BY <1>3 DEF Joined, serverVars
  <2>2. /\ client'[c] = "in" /\ myId'[c] = m.id
        /\ \A d \in Clients \ {c} : client'[d] = client[d] /\ myId'[d] = myId[d]
    BY <2>1 DEF TypeOK
  <2>3. \A n \in replies' : n.to # c /\ n.to \in Clients
    BY <2>1 DEF VisitInv, Answers, TypeOK, Replies
  <2>4. News' /\ Dones'
    BY <2>1, <2>2 DEF VisitInv, News, Dones
  <2>5. Answers'
    BY <2>1, <2>2, <2>3 DEF VisitInv, Answers
  <2>6. Owned'
    <3>1. ASSUME NEW d \in Clients, NEW i \in playerList, Owns(d, i)
          PROVE  Owns(d, i)'
      <4>1. CASE d = c
        <5>1. [to |-> c, msg |-> "added", id |-> i] \in replies
          BY <2>1, <3>1, <4>1 DEF Owns
        <5>2. [to |-> c, msg |-> "added", id |-> i] = m
          BY <2>1, <5>1 DEF VisitInv, Answers
        <5>3. QED
          BY <2>2, <4>1, <5>2 DEF Owns
      <4>2. CASE d # c
        BY <2>1, <2>2, <3>1, <4>2 DEF Owns
      <4>3. QED
        BY <4>1, <4>2
    <3>2. QED
      BY <2>1, <3>1 DEF VisitInv, Owned
  <2>7. QED
    BY <2>4, <2>5, <2>6 DEF VisitInv
<1>4. ASSUME NEW m \in replies, Left(c, m)
      PROVE  VisitInv'
  <2>1. /\ client[c] = "leaving" /\ client' = [client EXCEPT ![c] = "out"]
        /\ myId' = [myId EXCEPT ![c] = NoId]
        /\ replies' = replies \ {m} /\ m.to = c /\ m.msg = "removed"
        /\ UNCHANGED <<playerList, inbox>>
    BY <1>4 DEF Left, serverVars
  <2>2. /\ client'[c] = "out"
        /\ \A d \in Clients \ {c} : client'[d] = client[d] /\ myId'[d] = myId[d]
    BY <2>1 DEF TypeOK
  <2>3. \A n \in replies' : n.to # c /\ n.to \in Clients
    BY <2>1 DEF VisitInv, Answers, TypeOK, Replies
  <2>4. News' /\ Dones'
    BY <2>1, <2>2 DEF VisitInv, News, Dones
  <2>5. Answers'
    BY <2>1, <2>2, <2>3 DEF VisitInv, Answers
  <2>6. Owned'
    <3>1. myId[c] \notin playerList
      BY <2>1 DEF VisitInv, Answers
    <3>2. \A d \in Clients, i \in playerList : Owns(d, i) => d # c /\ Owns(d, i)'
      BY <2>1, <2>2, <3>1 DEF Owns
    <3>3. QED
      BY <2>1, <3>2 DEF VisitInv, Owned
  <2>7. QED
    BY <2>4, <2>5, <2>6 DEF VisitInv
<1>5. ~StopWaiting(c)
  BY DEF StopWaiting
<1>6. QED
  BY <1>1, <1>2, <1>3, <1>4, <1>5 DEF Client

Visits == "udp" \notin Faults => VisitInv

(* On a network without faults every visit goes on as VisitInv says.        *)
LEMMA VisitsHold == Spec => []Visits
<1> USE DEF Visits
<1>1. Init => Visits
  BY DEF Init, VisitInv, News, Dones, Answers, Owned
<1>2. TypeOK /\ Visits /\ [Next]_vars => Visits'
  <2> SUFFICES ASSUME TypeOK, VisitInv, "udp" \notin Faults, [Next]_vars
               PROVE  VisitInv'
    OBVIOUS
  <2>1. CASE UNCHANGED <<playerList, inbox, replies, client, myId>>
    BY <2>1 DEF VisitInv, News, Dones, Answers, Owned, Owns
  <2>2. ASSUME NEW cmd \in Orders, Order(cmd)
        PROVE  VisitInv'
    <3>1. /\ inbox' = inbox \cup {[from |-> Operator, cmd |-> cmd, id |-> NoId]}
          /\ UNCHANGED <<playerList, replies, client, myId>>
      BY <2>2 DEF Order, Send, serverVars, clientVars
    <3>2. cmd # "NEW" /\ cmd # "DONE"
      BY GameServerAssumption
    <3>3. QED
      BY <3>1, <3>2 DEF VisitInv, News, Dones, Answers, Owned, Owns
  <2>3. CASE Boot \/ DoHealth \/ DoExport \/ Fatal \/ Retire \/ Delete
    BY <2>1, <2>3 DEF Boot, Listen, MarkReady, DoHealth, Ping, HealthTick,
       HealthStop, DoExport, Sample, Export, Fatal, Retire, Delete, Signal,
       serverVars, clientVars
  <2>4. CASE MarkUnhealthy \/ UNCHANGED vars
    BY <2>1, <2>4 DEF MarkUnhealthy, vars, serverVars, clientVars
  <2>5. ~Lose
    BY DEF Lose
  <2>6. QED
    BY <2>2, <2>3, <2>4, <2>5, VisitReceive, VisitClient DEF Next
<1>3. QED
  BY <1>1, <1>2, GameServerTyped, PTL DEF Spec

(* On a network without faults the list has no ghosts, for any number of    *)
(* clients: every player in it is a client's, or the client will learn of   *)
(* it.                                                                      *)
THEOREM NoGhostsRemain == Spec => []NoGhosts
<1>1. Visits => NoGhosts
  BY DEF Visits, VisitInv, Owned, Owns, NoGhosts
<1>2. QED
  BY <1>1, VisitsHold, PTL

-----------------------------------------------------------------------------
(* The number that PCOUNT answers and the number that is exported are never *)
(* above the number of clients, on a network without faults.                *)
CountedOnce ==
  "udp" \notin Faults =>
    /\ Count <= Cardinality(Clients)
    /\ sample <= Cardinality(Clients)

(* A client owns at most one id: it plays with one, or waits for one.       *)
LEMMA OneIdEach ==
  ASSUME TypeOK, Answers, NEW c \in Clients, NEW i, NEW j, Owns(c, i), Owns(c, j)
  PROVE  i = j
<1>1. CASE client[c] = "joining"
  <2>1. /\ [to |-> c, msg |-> "added", id |-> i] \in replies
        /\ [to |-> c, msg |-> "added", id |-> j] \in replies
    BY <1>1 DEF Owns
  <2>2. [to |-> c, msg |-> "added", id |-> i] = [to |-> c, msg |-> "added", id |-> j]
    BY <2>1 DEF Answers
  <2>3. QED
    BY <2>2
<1>2. CASE client[c] # "joining"
  BY <1>2 DEF Owns
<1>3. QED
  BY <1>1, <1>2

(* So giving each id in the list its owner is an injection into the clients.*)
LEMMA CountWithinClients ==
  ASSUME TypeOK, VisitInv, IsFiniteSet(Clients)
  PROVE  Count <= Cardinality(Clients)
<1> DEFINE owner == [id \in playerList |-> CHOOSE c \in Clients : Owns(c, id)]
<1>1. \A id \in playerList : owner[id] \in Clients /\ Owns(owner[id], id)
  BY DEF VisitInv, Owned
<1>2. \A i, j \in playerList : owner[i] = owner[j] => i = j
  BY <1>1, OneIdEach DEF VisitInv
<1>3. owner \in Injection(playerList, Clients)
  BY <1>1, <1>2 DEF Injection, IsInjective
<1>4. QED
  BY <1>3, FS_Injection DEF Count

(* A player is in the list once, however often clients come and go: what    *)
(* fills a server up and what scales the fleet are not inflated by players  *)
(* who left, or who never learnt of their place.                            *)
THEOREM PlayersCountedOnce ==
  ASSUME IsFiniteSet(Clients)
  PROVE  Spec => []CountedOnce
<1> DEFINE Listed == "udp" \notin Faults => Count <= Cardinality(Clients)
           Sampled == "udp" \notin Faults => sample <= Cardinality(Clients)
<1>1. TypeOK /\ Visits => Listed
  BY CountWithinClients DEF Visits
<1>2. Init => Sampled
  <2>1. Cardinality(Clients) \in Nat
    BY FS_CardinalityType
  <2>2. QED
    BY <2>1 DEF Init
<1>3. Listed /\ Sampled /\ [Next]_vars => Sampled'
  <2>1. [Next]_vars => sample' \in {sample, Count}
    BY DEF Next, Boot, Listen, MarkReady, DoHealth, Ping, HealthTick, HealthStop,
           DoExport, Sample, Export, Fatal, Retire, Delete, Signal, Receive,
           Client, SendNew, SendDone, StopWaiting, Joined, Left, Order, Lose,
           MarkUnhealthy, vars, loopVars
  <2>2. QED
    BY <2>1
<1>4. Listed /\ Sampled => CountedOnce
  BY DEF CountedOnce
<1>5. QED
  BY <1>1, <1>2, <1>3, <1>4, VisitsHold, GameServerTyped, PTL DEF Spec

=============================================================================
