-------------------------- MODULE MatchmakerProofs --------------------------
(* Theorems about Matchmaker, for every number of requests, servers and     *)
(* cells, every player limit and every choice of faults.                    *)
EXTENDS Matchmaker, FiniteSetTheorems, TLAPS

(* The stages of a request and of its call to the allocation service agree. *)
Stages ==
  \A r \in Requests :
    /\ phase[r] = "granted" <=> grant[r] # NoServer
    /\ phase[r] # "idle" => pc[r] \in {"await", "reread", "write", "failed"}
    /\ pc[r] \in {"reread", "write"} => phase[r] = "granted" /\ ans[r] = grant[r]
    /\ pc[r] \in {"probe", "answered"} => ans[r] # NoServer
    /\ net[r] # {} => ans[r] # NoServer
    /\ pc[r] = "idle" => todo[r] = <<>> /\ ans[r] = NoServer

(* Whatever a request knows of its cell was allocated for that cell.        *)
Provenance ==
  /\ \A c \in Cells : \A i \in DOMAIN entity[c] : entity[c][i] \in granted[c]
  /\ \A r \in Requests :
       /\ \A i \in DOMAIN todo[r] : todo[r][i] \in granted[cell[r]]
       /\ ans[r] # NoServer => ans[r] \in granted[cell[r]]
       /\ grant[r] # NoServer => grant[r] \in granted[cell[r]]

(* A server that cannot stop stays Allocated, for one cell.                 *)
OneOwner ==
  \A c \in Cells : \A s \in granted[c] \ Mortal :
    /\ gs[s] = "Allocated"
    /\ \A d \in Cells \ {c} : s \notin granted[d]

(* A server that a call holds and that cannot stop is known to nobody else. *)
HeldAlone ==
  \A r \in Requests : grant[r] # NoServer /\ grant[r] \notin Mortal =>
    /\ \A q \in Requests \ {r} : grant[q] # grant[r]
    /\ \A q \in Requests : \A i \in DOMAIN todo[q] : todo[q][i] # grant[r]
    /\ \A c \in Cells : \A i \in DOMAIN entity[c] : entity[c][i] # grant[r]

(* A list of servers without repetition, those that may stop aside.         *)
Distinct(list) == \A i, j \in DOMAIN list :
                    list[i] = list[j] /\ list[i] \notin Mortal => i = j

ListsDistinct == /\ \A c \in Cells : Distinct(entity[c])
                 /\ \A r \in Requests : Distinct(todo[r])

(* Only a server that some cell was granted has players.                    *)
PlayersFollowGrants ==
  \A s \in Servers : players[s] # 0 => \E c \in Cells : s \in granted[c]

Inv == /\ TypeOK
       /\ Stages
       /\ Provenance
       /\ OneOwner
       /\ HeldAlone
       /\ ListsDistinct
       /\ PlayersFollowGrants

-----------------------------------------------------------------------------
(* What convertToValueList does to a list: one more element, at the end.    *)
LEMMA AppendElements ==
  ASSUME NEW S, NEW list \in Seq(S), NEW x \in S
  PROVE  /\ Append(list, x) \in Seq(S)
         /\ DOMAIN Append(list, x) = DOMAIN list \cup {Len(list) + 1}
         /\ Append(list, x)[Len(list) + 1] = x
         /\ \A i \in DOMAIN list : i # Len(list) + 1 /\ Append(list, x)[i] = list[i]
OBVIOUS

(* What an iterator has left after its next element.                        *)
LEMMA TailElements ==
  ASSUME NEW S, NEW list \in Seq(S), list # <<>>
  PROVE  /\ Tail(list) \in Seq(S)
         /\ \A i \in DOMAIN Tail(list) :
              i + 1 \in DOMAIN list /\ Tail(list)[i] = list[i + 1]
OBVIOUS

(* A list without elements.                                                 *)
LEMMA EmptyDomain == DOMAIN <<>> = {}
OBVIOUS

-----------------------------------------------------------------------------
(* What the parts of the invariant say of one request, for the steps that   *)
(* change what this request knows.                                          *)
Knows(r) == /\ \A i \in DOMAIN todo[r] : todo[r][i] \in granted[cell[r]]
            /\ ans[r] # NoServer => ans[r] \in granted[cell[r]]
            /\ grant[r] # NoServer => grant[r] \in granted[cell[r]]

(* The invariant holds before the first request.                            *)
LEMMA InvInit == Init => Inv
BY FleetAssumption, MatchmakerAssumption, EmptyDomain
   DEF Init, AllocInit, Inv, TypeOK, AllocTypeOK, Labels, Stages, Provenance,
       OneOwner, HeldAlone, ListsDistinct, Distinct, PlayersFollowGrants

(* Every step of the threads, the stores and the game servers keeps the     *)
(* invariant.                                                               *)
LEMMA InvStep == Inv /\ [Next]_vars => Inv'
<1> SUFFICES ASSUME Inv, [Next]_vars PROVE Inv'
  OBVIOUS
<1> USE FleetAssumption, MatchmakerAssumption
    DEF Inv, TypeOK, AllocTypeOK, Labels, Stages, allocVars, threadVars,
        netVars, history, Goto, Forget
<1>1. ASSUME NEW r \in Requests, NEW c \in Cells, GetAllocation(r, c) PROVE Inv'
  <2>1. TypeOK' /\ Stages'
    BY <1>1 DEF GetAllocation
  <2>2. OneOwner' /\ HeldAlone' /\ ListsDistinct' /\ PlayersFollowGrants'
    <3>1. UNCHANGED <<gs, grant, entity, players, todo, granted>>
      BY <1>1 DEF GetAllocation
    <3>2. QED
      BY <3>1 DEF OneOwner, HeldAlone, ListsDistinct, Distinct,
                  PlayersFollowGrants
  <2>3. Knows(r)'
    BY <1>1, EmptyDomain DEF GetAllocation, Knows
  <2>4. \A q \in Requests \ {r} : Knows(q)'
    BY <1>1 DEF GetAllocation, Provenance, Knows
  <2>5. Provenance'
    BY <1>1, <2>3, <2>4 DEF GetAllocation, Provenance, Knows
  <2>6. QED
    BY <2>1, <2>2, <2>5
<1>2. ASSUME NEW r \in Requests, Find(r) PROVE Inv'
  BY <1>2 DEF Find, Provenance, OneOwner, HeldAlone, ListsDistinct,
              Distinct, PlayersFollowGrants
<1>3. ASSUME NEW r \in Requests, SendPcount(r) PROVE Inv'
  <2>1. /\ Tail(todo[r]) \in Seq(Servers)
        /\ \A i \in DOMAIN Tail(todo[r]) :
             i + 1 \in DOMAIN todo[r] /\ Tail(todo[r])[i] = todo[r][i + 1]
    BY <1>3, TailElements DEF SendPcount
  <2>2. /\ todo' = [todo EXCEPT ![r] = Tail(todo[r])]
        /\ UNCHANGED <<allocVars, entity, players, cell, history>>
    BY <1>3 DEF SendPcount
  <2>3. TypeOK' /\ Stages' /\ OneOwner' /\ PlayersFollowGrants'
    BY <1>3 DEF SendPcount, OneOwner, PlayersFollowGrants
  <2>4. Provenance'
    BY <1>3 DEF SendPcount, Provenance
  <2>5. HeldAlone'
    BY <2>1, <2>2 DEF HeldAlone
  <2>6. ListsDistinct'
    <3>1. Distinct(Tail(todo[r]))
      BY <2>1 DEF ListsDistinct, Distinct
    <3>2. QED
      BY <2>2, <3>1 DEF ListsDistinct
  <2>7. QED
    BY <2>3, <2>4, <2>5, <2>6
<1>4. ASSUME NEW r \in Requests, ReceiveCount(r) PROVE Inv'
  BY <1>4 DEF ReceiveCount, Provenance, OneOwner, HeldAlone, ListsDistinct,
              Distinct, PlayersFollowGrants
<1>5. ASSUME NEW r \in Requests, ReceiveAck(r) PROVE Inv'
  BY <1>5 DEF ReceiveAck, Provenance, OneOwner, HeldAlone, ListsDistinct,
              Distinct, PlayersFollowGrants
<1>6. ASSUME NEW r \in Requests, Exhausted(r) PROVE Inv'
  BY <1>6 DEF Exhausted, Provenance, OneOwner, HeldAlone, ListsDistinct,
              Distinct, PlayersFollowGrants
<1>7. ASSUME NEW r \in Requests, CallAllocation(r) PROVE Inv'
  BY <1>7 DEF CallAllocation, Ask, Provenance, OneOwner, HeldAlone, ListsDistinct,
              Distinct, PlayersFollowGrants
<1>8. ASSUME NEW r \in Requests, ReceiveGrant(r) PROVE Inv'
  BY <1>8 DEF ReceiveGrant, Provenance, OneOwner, HeldAlone, ListsDistinct,
              Distinct, PlayersFollowGrants
<1>9. ASSUME NEW r \in Requests, ReceiveRefusal(r) PROVE Inv'
  BY <1>9 DEF ReceiveRefusal, Collect, Provenance, OneOwner, HeldAlone, ListsDistinct,
              Distinct, PlayersFollowGrants
<1>10. ASSUME NEW r \in Requests, Reread(r) PROVE Inv'
  BY <1>10 DEF Reread, Provenance, OneOwner, HeldAlone, ListsDistinct,
              Distinct, PlayersFollowGrants
<1>11. ASSUME NEW r \in Requests, Write(r) PROVE Inv'
  <2> DEFINE list == Append(todo[r], ans[r])
  <2>1. /\ ans[r] \in Servers /\ cell[r] \in Cells
        /\ phase[r] = "granted" /\ ans[r] = grant[r]
    BY <1>11 DEF Write
  <2>2. /\ list \in Seq(Servers)
        /\ DOMAIN list = DOMAIN todo[r] \cup {Len(todo[r]) + 1}
        /\ list[Len(todo[r]) + 1] = ans[r]
        /\ \A i \in DOMAIN todo[r] : i # Len(todo[r]) + 1 /\ list[i] = todo[r][i]
    BY <2>1, AppendElements
  <2> HIDE DEF list
  <2>3. /\ entity' = [entity EXCEPT ![cell[r]] = list]
        /\ grant' = [grant EXCEPT ![r] = NoServer]
        /\ UNCHANGED <<gs, players, cell, todo, ans, net, count, granted>>
    BY <1>11 DEF Write, Collect, list
  <2>4. spoiled' \subseteq Cells
    BY <1>11, <2>1 DEF Write
  <2>5. /\ phase' = [phase EXCEPT ![r] = "idle"]
        /\ \/ pc' = [pc EXCEPT ![r] = "answered"]
           \/ pc' = [pc EXCEPT ![r] = "failed"]
    BY <1>11 DEF Write, Collect
  <2>6. TypeOK'
    BY <2>1, <2>2, <2>3, <2>4, <2>5
  <2>7. Stages'
    BY <1>11, <2>1 DEF Write, Collect
  <2>8. Provenance'
    BY <2>1, <2>2, <2>3 DEF Provenance
  <2>9. OneOwner' /\ PlayersFollowGrants'
    BY <2>3 DEF OneOwner, PlayersFollowGrants
  <2>10. HeldAlone'
    <3> SUFFICES ASSUME NEW p \in Requests,
                        grant'[p] # NoServer, grant'[p] \notin Mortal
                 PROVE  /\ \A q \in Requests \ {p} : grant'[q] # grant'[p]
                        /\ \A q \in Requests : \A i \in DOMAIN todo'[q] :
                             todo'[q][i] # grant'[p]
                        /\ \A c \in Cells : \A i \in DOMAIN entity'[c] :
                             entity'[c][i] # grant'[p]
      BY DEF HeldAlone
    <3>1. p # r /\ grant'[p] = grant[p] /\ ans[r] # grant[p]
      BY <2>1, <2>3 DEF HeldAlone
    <3>2. /\ \A q \in Requests \ {p} : grant'[q] # grant'[p]
          /\ \A q \in Requests : \A i \in DOMAIN todo[q] : todo[q][i] # grant[p]
          /\ \A c \in Cells : \A i \in DOMAIN entity[c] : entity[c][i] # grant[p]
      BY <2>3, <3>1 DEF HeldAlone
    <3>3. \A i \in DOMAIN list : list[i] # grant[p]
      BY <2>2, <3>1, <3>2
    <3>4. QED
      BY <2>3, <3>1, <3>2, <3>3
  <2>11. ListsDistinct'
    <3>1. \A i \in DOMAIN todo[r] : ans[r] \in Mortal \/ todo[r][i] # ans[r]
      BY <2>1 DEF HeldAlone
    <3>2. Distinct(list)
      BY <2>2, <3>1 DEF ListsDistinct, Distinct
    <3>3. QED
      BY <2>1, <2>3, <3>2 DEF ListsDistinct
  <2>12. QED
    BY <2>6, <2>7, <2>8, <2>9, <2>10, <2>11
<1>12. ASSUME NEW r \in Requests, DatastoreFails(r) \/ CallFails(r) PROVE Inv'
  <2>1. TypeOK' /\ Stages'
    <3>1. CASE DatastoreFails(r)
      BY <3>1 DEF DatastoreFails
    <3>2. CASE CallFails(r)
      BY <3>2 DEF CallFails
    <3>3. QED
      BY <1>12, <3>1, <3>2
  <2>2. UNCHANGED <<gs, grant, entity, players, cell, todo, ans, granted>>
    BY <1>12 DEF DatastoreFails, CallFails
  <2>3. QED
    BY <2>1, <2>2 DEF Provenance, OneOwner, HeldAlone, ListsDistinct, Distinct,
                      PlayersFollowGrants
<1>13. CASE Crash
  BY <1>13 DEF Crash, Running, Provenance, OneOwner, HeldAlone, ListsDistinct,
              Distinct, PlayersFollowGrants
<1>14. ASSUME NEW r \in Requests, Recycle(r) PROVE Inv'
  <2>1. phase[r] = "granted" => cell[r] \in Cells
    OBVIOUS
  <2>2. /\ \/ grant' = [grant EXCEPT ![r] = NoServer]
           \/ UNCHANGED grant
        /\ todo' = [todo EXCEPT ![r] = <<>>]
        /\ UNCHANGED <<gs, entity, players, granted>>
    BY <1>14 DEF Recycle, Collect
  <2>3. TypeOK'
    <3>1. spoiled' \subseteq Cells
      BY <1>14, <2>1 DEF Recycle
    <3>2. /\ phase' \in [Requests -> {"idle", "asked", "granted", "refused"}]
          /\ grant' \in [Requests -> Servers \cup {NoServer}]
      BY <1>14 DEF Recycle, Collect
    <3>3. /\ UNCHANGED <<gs, entity, players, granted>>
          /\ pc' = [pc EXCEPT ![r] = "idle"]
          /\ cell' = [cell EXCEPT ![r] = NoCell]
          /\ todo' = [todo EXCEPT ![r] = <<>>]
          /\ ans' = [ans EXCEPT ![r] = NoServer]
          /\ net' = [net EXCEPT ![r] = {}]
          /\ count' = [count EXCEPT ![r] = 0]
      BY <1>14, <2>2 DEF Recycle
    <3>4. QED
      BY <3>1, <3>2, <3>3
  <2>4. Stages'
    BY <1>14 DEF Recycle, Collect
  <2>5. Knows(r)'
    BY <1>14, <2>4, EmptyDomain DEF Recycle, Collect, Knows
  <2>6. Provenance'
    <3>1. \A q \in Requests \ {r} : Knows(q)'
      BY <1>14, <2>2 DEF Recycle, Provenance, Knows
    <3>2. QED
      BY <2>2, <2>5, <3>1 DEF Provenance, Knows
  <2>7. OneOwner' /\ PlayersFollowGrants'
    BY <2>2 DEF OneOwner, PlayersFollowGrants
  <2>8. HeldAlone'
    <3>1. \A q \in Requests : \A i \in DOMAIN todo'[q] :
            i \in DOMAIN todo[q] /\ todo'[q][i] = todo[q][i]
      BY <2>2, EmptyDomain
    <3>2. \A q \in Requests : grant'[q] # NoServer => grant'[q] = grant[q]
      BY <2>2
    <3>3. QED
      BY <2>2, <3>1, <3>2 DEF HeldAlone
  <2>9. ListsDistinct'
    BY <2>2, EmptyDomain DEF ListsDistinct, Distinct
  <2>10. QED
    BY <2>3, <2>4, <2>6, <2>7, <2>8, <2>9
<1>15. ASSUME NEW r \in Requests, NEW s \in Servers, AllocationGrants(r, s) PROVE Inv'
  <2>1. /\ phase[r] = "asked" /\ grant[r] = NoServer /\ cell[r] \in Cells
        /\ gs[s] = "Ready" /\ gs' = [gs EXCEPT ![s] = "Allocated"]
        /\ grant' = [grant EXCEPT ![r] = s]
        /\ granted' = [granted EXCEPT ![cell[r]] = @ \cup {s}]
        /\ UNCHANGED <<entity, players, pc, cell, todo, ans, net, count, spoiled>>
    BY <1>15 DEF AllocationGrants, Grant
  <2>2. TypeOK' /\ Stages'
    BY <1>15, <2>1 DEF AllocationGrants, Grant
  <2>3. \A c \in Cells : granted[c] \subseteq granted'[c]
    BY <2>1
  <2>4. Provenance'
    <3>1. \A q \in Requests : cell[q] \notin Cells =>
            pc[q] = "idle" /\ grant[q] = NoServer
      OBVIOUS
    <3>2. \A q \in Requests \ {r} : Knows(q)'
      BY <2>1, <2>3, <3>1, EmptyDomain DEF Provenance, Knows
    <3>3. Knows(r)'
      BY <2>1, <2>3 DEF Provenance, Knows
    <3>4. \A c \in Cells : \A i \in DOMAIN entity[c] : entity[c][i] \in granted'[c]
      BY <2>3 DEF Provenance
    <3>5. QED
      BY <2>1, <3>2, <3>3, <3>4 DEF Provenance, Knows
  <2>5. s \in Mortal \/ \A c \in Cells : s \notin granted[c]
    BY <2>1 DEF OneOwner
  <2>6. OneOwner'
    BY <2>1, <2>5 DEF OneOwner
  <2>7. HeldAlone'
    <3>1. \A q \in Requests : grant[q] = s => s \in Mortal
      <4>1. \A q \in Requests : grant[q] # NoServer => cell[q] \in Cells
        OBVIOUS
      <4>2. QED
        BY <2>5, <4>1 DEF Provenance
    <3>2. \A q \in Requests : \A i \in DOMAIN todo[q] :
            todo[q][i] = s => s \in Mortal
      <4>1. \A q \in Requests : cell[q] \in Cells \/ DOMAIN todo[q] = {}
        BY EmptyDomain
      <4>2. QED
        BY <2>5, <4>1 DEF Provenance
    <3>3. \A c \in Cells : \A i \in DOMAIN entity[c] :
            entity[c][i] = s => s \in Mortal
      BY <2>5 DEF Provenance
    <3>4. QED
      BY <2>1, <3>1, <3>2, <3>3 DEF HeldAlone
  <2>8. ListsDistinct' /\ PlayersFollowGrants'
    BY <2>1, <2>3 DEF ListsDistinct, PlayersFollowGrants
  <2>9. QED
    BY <2>2, <2>4, <2>6, <2>7, <2>8
<1>16. ASSUME NEW R \in SUBSET Requests, AllocationRefuses(R) PROVE Inv'
  <2>1. spoiled' \subseteq Cells
    <3>1. \A r \in R : phase[r] = "granted" => cell[r] \in Cells
      OBVIOUS
    <3>2. QED
      BY <1>16, <3>1 DEF AllocationRefuses
  <2>2. /\ \A r \in R : pc[r] \in {"await", "failed"}
        /\ phase' = [r \in Requests |-> IF r \in R THEN "refused" ELSE phase[r]]
        /\ grant' = [r \in Requests |-> IF r \in R THEN NoServer ELSE grant[r]]
        /\ UNCHANGED <<gs, entity, players, threadVars, netVars, granted>>
    BY <1>16 DEF AllocationRefuses, Refuse
  <2>3. TypeOK' /\ Stages'
    BY <2>1, <2>2
  <2>4. Provenance' /\ OneOwner' /\ HeldAlone'
    BY <2>2 DEF Provenance, OneOwner, HeldAlone
  <2>5. ListsDistinct' /\ PlayersFollowGrants'
    BY <2>2 DEF ListsDistinct, Distinct, PlayersFollowGrants
  <2>6. QED
    BY <2>3, <2>4, <2>5
<1>17. ASSUME NEW r \in Requests, AnswerPcount(r) PROVE Inv'
  BY <1>17 DEF AnswerPcount, Provenance, OneOwner, HeldAlone, ListsDistinct,
              Distinct, PlayersFollowGrants
<1>18. ASSUME NEW r \in Requests, LoseDatagram(r) PROVE Inv'
  BY <1>18 DEF LoseDatagram, Provenance, OneOwner, HeldAlone, ListsDistinct,
              Distinct, PlayersFollowGrants
<1>19. ASSUME NEW r \in Requests, Join(r) PROVE Inv'
  <2>1. TypeOK' /\ Stages' /\ OneOwner'
    BY <1>19 DEF Join, OneOwner
  <2>2. HeldAlone' /\ ListsDistinct'
    BY <1>19, EmptyDomain DEF Join, HeldAlone, ListsDistinct, Distinct
  <2>3. PlayersFollowGrants'
    BY <1>19 DEF Join, PlayersFollowGrants, Provenance
  <2>4. Knows(r)'
    BY <1>19, EmptyDomain DEF Join, Knows
  <2>5. \A q \in Requests \ {r} : Knows(q)'
    BY <1>19 DEF Join, Provenance, Knows
  <2>6. Provenance'
    BY <1>19, <2>4, <2>5 DEF Join, Provenance, Knows
  <2>7. QED
    BY <2>1, <2>2, <2>3, <2>6
<1>20. ASSUME NEW r \in Requests, GiveUp(r) PROVE Inv'
  <2>1. TypeOK' /\ Stages' /\ OneOwner'
    BY <1>20 DEF GiveUp, OneOwner
  <2>2. HeldAlone' /\ ListsDistinct'
    BY <1>20, EmptyDomain DEF GiveUp, HeldAlone, ListsDistinct, Distinct
  <2>3. PlayersFollowGrants'
    BY <1>20 DEF GiveUp, PlayersFollowGrants, Provenance
  <2>4. Knows(r)'
    BY <1>20, EmptyDomain DEF GiveUp, Knows
  <2>5. \A q \in Requests \ {r} : Knows(q)'
    BY <1>20 DEF GiveUp, Provenance, Knows
  <2>6. Provenance'
    BY <1>20, <2>4, <2>5 DEF GiveUp, Provenance, Knows
  <2>7. QED
    BY <2>1, <2>2, <2>3, <2>6
<1>21. ASSUME NEW s \in Servers, Leave(s) PROVE Inv'
  BY <1>21 DEF Leave, Provenance, OneOwner, HeldAlone, ListsDistinct,
              Distinct, PlayersFollowGrants
<1>22. ASSUME NEW s \in Servers, SpawnServer(s) PROVE Inv'
  BY <1>22 DEF SpawnServer, Spawn, Provenance, OneOwner, HeldAlone, ListsDistinct,
              Distinct, PlayersFollowGrants
<1>23. ASSUME NEW s \in Servers, ServerExit(s) PROVE Inv'
  BY <1>23 DEF ServerExit, Exit, Provenance, OneOwner, HeldAlone, ListsDistinct,
              Distinct, PlayersFollowGrants
<1>24. CASE UNCHANGED vars
  BY <1>24 DEF vars, Provenance, OneOwner, HeldAlone, ListsDistinct,
              Distinct, PlayersFollowGrants
<1>25. QED
  BY <1>1, <1>2, <1>3, <1>4, <1>5, <1>6, <1>7, <1>8, <1>9, <1>10, <1>11, <1>12,
     <1>13, <1>14, <1>15, <1>16, <1>17, <1>18, <1>19, <1>20, <1>21, <1>22, <1>23, <1>24
     DEF Next, Thread, Player

(* The invariant holds in every reachable state of the matchmaker.          *)
THEOREM InvHolds == Spec => []Inv
BY InvInit, InvStep, PTL DEF Spec

(* Every reachable state of the matchmaker is well typed.                   *)
THEOREM MatchmakerTyped == Spec => []TypeOK
<1>1. Inv => TypeOK
  BY DEF Inv
<1>2. QED
  BY <1>1, InvHolds, PTL

(* A server that cannot stop is recorded at most once, whatever the threads *)
(* write over each other.                                                   *)
THEOREM RecordedOnce == Spec => []OneHome
<1>1. Inv => OneHome
  BY DEF Inv, TypeOK, Provenance, OneOwner, ListsDistinct, Distinct, OneHome
<1>2. QED
  BY <1>1, InvHolds, PTL

-----------------------------------------------------------------------------
(* A spent server stays on record unless its cell is spoiled: recording     *)
(* appends to what was read, and what was read is the entity itself unless  *)
(* the write is stale.                                                      *)
Holder(r, c, s) == cell[r] = c /\ phase[r] = "granted" /\ grant[r] = s

(* A step loses sight of no server spent on a cell, unless it marks the     *)
(* cell as spoiled.                                                         *)
LEMMA SpentStep ==
  Inv /\ SpentServersOnRecord /\ [Next]_vars => SpentServersOnRecord'
<1> SUFFICES ASSUME Inv, SpentServersOnRecord, [Next]_vars,
                    NEW c \in Cells, c \notin spoiled', NEW s \in granted'[c]
             PROVE  \/ \E i \in DOMAIN entity'[c] : entity'[c][i] = s
                    \/ \E q \in Requests : Holder(q, c, s)'
  BY DEF SpentServersOnRecord, Recorded, Range, Holder
<1> DEFINE Goal == \/ \E i \in DOMAIN entity'[c] : entity'[c][i] = s
                   \/ \E q \in Requests : Holder(q, c, s)'
<1> USE FleetAssumption, MatchmakerAssumption
    DEF Inv, TypeOK, AllocTypeOK, Stages, allocVars, threadVars, netVars,
        history, Goto, Forget
<1>1. c \notin spoiled /\ s \in granted[c] =>
        \/ \E i \in DOMAIN entity[c] : entity[c][i] = s
        \/ \E q \in Requests : Holder(q, c, s)
  <2> SUFFICES ASSUME c \in Cells \ spoiled, s \in granted[c]
               PROVE  \/ \E i \in DOMAIN entity[c] : entity[c][i] = s
                      \/ \E q \in Requests : Holder(q, c, s)
    OBVIOUS
  <2>1. s \in Recorded(c) \/ \E q \in Requests : Holder(q, c, s)
    BY DEF SpentServersOnRecord, Holder
  <2>2. QED
    BY <2>1 DEF Recorded, Range
<1>2. ASSUME UNCHANGED <<entity, granted, spoiled>>,
             \A q \in Requests : Holder(q, c, s) => Holder(q, c, s)'
      PROVE  Goal
  BY <1>1, <1>2
<1>3. ASSUME NEW r \in Requests, NEW d \in Cells, GetAllocation(r, d) PROVE Goal
  <2>1. \A q \in Requests : Holder(q, c, s) => Holder(q, c, s)'
    BY <1>3 DEF GetAllocation, Holder
  <2>2. QED
    BY <1>2, <1>3, <2>1 DEF GetAllocation
<1>4. ASSUME NEW r \in Requests,
             \/ Find(r) \/ SendPcount(r) \/ ReceiveCount(r) \/ ReceiveAck(r)
             \/ Exhausted(r) \/ ReceiveGrant(r) \/ Reread(r)
             \/ DatastoreFails(r) \/ CallFails(r)
             \/ AnswerPcount(r) \/ LoseDatagram(r)
      PROVE  Goal
  <2>1. UNCHANGED <<entity, granted, spoiled, cell, phase, grant>>
    BY <1>4 DEF Find, SendPcount, ReceiveCount, ReceiveAck, Exhausted,
                ReceiveGrant, Reread, DatastoreFails, CallFails, AnswerPcount,
                LoseDatagram
  <2>2. QED
    BY <1>2, <2>1 DEF Holder
<1>5. ASSUME NEW r \in Requests, CallAllocation(r) \/ ReceiveRefusal(r)
      PROVE  Goal
  <2>1. \A q \in Requests : Holder(q, c, s) => Holder(q, c, s)'
    BY <1>5 DEF CallAllocation, Ask, ReceiveRefusal, Collect, Holder
  <2>2. QED
    BY <1>2, <1>5, <2>1 DEF CallAllocation, ReceiveRefusal
<1>6. ASSUME NEW r \in Requests, Write(r) PROVE Goal
  <2>1. /\ cell[r] \in Cells /\ ans[r] \in Servers
        /\ phase[r] = "granted" /\ ans[r] = grant[r]
        /\ entity' = [entity EXCEPT ![cell[r]] = Append(todo[r], ans[r])]
        /\ UNCHANGED <<cell, granted>>
        /\ c \notin spoiled /\ (c = cell[r] => todo[r] = entity[c])
        /\ \A q \in Requests \ {r} : Holder(q, c, s) => Holder(q, c, s)'
    BY <1>6 DEF Write, Collect, Holder
  <2>2. CASE c = cell[r]
    <3>1. /\ entity'[c] = Append(entity[c], grant[r])
          /\ DOMAIN entity'[c] = DOMAIN entity[c] \cup {Len(entity[c]) + 1}
          /\ entity'[c][Len(entity[c]) + 1] = grant[r]
          /\ \A i \in DOMAIN entity[c] : entity'[c][i] = entity[c][i]
      BY <2>1, <2>2, AppendElements
    <3>2. CASE \E i \in DOMAIN entity[c] : entity[c][i] = s
      BY <3>1, <3>2
    <3>3. CASE \E q \in Requests : Holder(q, c, s)
      <4>1. Holder(r, c, s) => entity'[c][Len(entity[c]) + 1] = s
        BY <3>1 DEF Holder
      <4>2. Len(entity[c]) + 1 \in DOMAIN entity'[c]
        BY <3>1
      <4>3. QED
        BY <2>1, <3>3, <4>1, <4>2
    <3>4. QED
      BY <1>1, <2>1, <3>2, <3>3
  <2>3. CASE c # cell[r]
    <3>1. entity'[c] = entity[c] /\ ~Holder(r, c, s)
      BY <2>1, <2>3 DEF Holder
    <3>2. QED
      BY <1>1, <2>1, <3>1
  <2>4. QED
    BY <2>2, <2>3
<1>7. CASE Crash
  BY <1>2, <1>7 DEF Crash, Holder
<1>8. ASSUME NEW r \in Requests, Recycle(r) PROVE Goal
  <2>1. /\ UNCHANGED <<entity, granted>>
        /\ c \notin spoiled /\ ~Holder(r, c, s)
        /\ \A q \in Requests \ {r} : Holder(q, c, s) => Holder(q, c, s)'
    BY <1>8 DEF Recycle, Collect, Holder
  <2>2. QED
    BY <1>1, <2>1
<1>9. ASSUME NEW r \in Requests, NEW t \in Servers, AllocationGrants(r, t)
      PROVE  Goal
  <2>1. /\ UNCHANGED <<entity, cell, spoiled>>
        /\ Holder(r, cell[r], t)'
        /\ \A q \in Requests : Holder(q, c, s) => Holder(q, c, s)'
        /\ s \in granted[c] \/ (c = cell[r] /\ s = t)
    BY <1>9 DEF AllocationGrants, Grant, Holder
  <2>2. QED
    BY <1>1, <2>1
<1>10. ASSUME NEW R \in SUBSET Requests, AllocationRefuses(R) PROVE Goal
  <2>1. /\ UNCHANGED <<entity, granted>>
        /\ c \notin spoiled /\ \A q \in R : ~Holder(q, c, s)
        /\ \A q \in Requests \ R : Holder(q, c, s) => Holder(q, c, s)'
    BY <1>10 DEF AllocationRefuses, Refuse, Holder
  <2>2. QED
    BY <1>1, <2>1
<1>11. ASSUME NEW r \in Requests, Join(r) \/ GiveUp(r) PROVE Goal
  <2>1. \A q \in Requests : Holder(q, c, s) => Holder(q, c, s)'
    BY <1>11 DEF Join, GiveUp, Holder
  <2>2. QED
    BY <1>2, <1>11, <2>1 DEF Join, GiveUp
<1>12. ASSUME NEW t \in Servers, Leave(t) \/ SpawnServer(t) \/ ServerExit(t)
       PROVE  Goal
  BY <1>2, <1>12 DEF Leave, SpawnServer, ServerExit, Spawn, Exit, Holder
<1>13. CASE UNCHANGED vars
  BY <1>2, <1>13 DEF vars, Holder
<1>14. QED
  BY <1>3, <1>4, <1>5, <1>6, <1>7, <1>8, <1>9, <1>10, <1>11, <1>12, <1>13
     DEF Next, Thread, Player

(* An Allocated server is lost to its cell only by a stale write or by a    *)
(* request that broke after its grant.                                      *)
THEOREM SpentServersStay == Spec => []SpentServersOnRecord
<1>1. Init => SpentServersOnRecord
  BY DEF Init, SpentServersOnRecord
<1>2. QED
  BY <1>1, SpentStep, InvHolds, PTL DEF Spec

-----------------------------------------------------------------------------
(* How far a server can be overfilled.                                      *)
Limit(s) == MaxPlayers + Cardinality(Requests)
              + (IF s \in Mortal /\ gs[s] = "Allocated" THEN 1 ELSE 0)

(* Sets of requests can be counted.                                         *)
LEMMA CommittedSizes ==
  /\ Cardinality(Requests) \in Nat
  /\ \A S \in SUBSET Requests : /\ IsFiniteSet(S)
                                /\ Cardinality(S) \in Nat
                                /\ Cardinality(S) <= Cardinality(Requests)
BY MatchmakerAssumption, FS_Subset, FS_CardinalityType

(* A request that is no longer committed makes the count no larger.         *)
LEMMA CommittedShrinks ==
  ASSUME NEW S \in SUBSET Requests, NEW T \in SUBSET S
  PROVE  Cardinality(T) <= Cardinality(S)
BY MatchmakerAssumption, FS_Subset

(* No step takes a server over its bound: a player that joins gives up its  *)
(* commitment, and a request commits only on a count with room.             *)
LEMMA OvershootStep == Inv /\ OvershootBound /\ [Next]_vars => OvershootBound'
<1> SUFFICES ASSUME Inv, OvershootBound, [Next]_vars, NEW s \in Servers
             PROVE  players'[s] + Cardinality(Committed(s)') + 1 <= Limit(s)'
  BY DEF OvershootBound, Limit
<1> DEFINE C == Committed(s)
           Goal == players'[s] + Cardinality(C') + 1 <= Limit(s)'
<1>1. /\ players[s] + Cardinality(C) + 1 <= Limit(s)
      /\ players[s] \in Nat
      /\ C \in SUBSET Requests /\ C' \in SUBSET Requests
  BY DEF OvershootBound, Limit, Committed, Inv, TypeOK
<1>2. /\ Cardinality(C) \in Nat /\ Cardinality(C') \in Nat
      /\ Cardinality(C') <= Cardinality(Requests)
      /\ Cardinality(Requests) \in Nat /\ MaxPlayers \in Nat \ {0}
  BY <1>1, CommittedSizes, MatchmakerAssumption
<1>3. ASSUME UNCHANGED gs, players'[s] \in Nat, players'[s] <= players[s],
             C' \subseteq C
      PROVE  Goal
  <2>1. Cardinality(C') <= Cardinality(C)
    BY <1>1, <1>3, CommittedShrinks
  <2>2. Limit(s)' = Limit(s) /\ Limit(s) \in Nat
    BY <1>2, <1>3 DEF Limit
  <2> HIDE DEF C
  <2>3. QED
    BY <1>1, <1>2, <1>3, <2>1, <2>2
<1> USE FleetAssumption, MatchmakerAssumption
<1> USE DEF Inv, TypeOK, AllocTypeOK, Stages, allocVars, threadVars, netVars,
            history, Goto, Forget
<1>4. ASSUME NEW r \in Requests, NEW d \in Cells, GetAllocation(r, d) PROVE Goal
  <2>1. C' \subseteq C
    BY <1>4 DEF GetAllocation, Committed
  <2>2. QED
    BY <1>1, <1>3, <1>4, <2>1 DEF GetAllocation
<1>5. ASSUME NEW r \in Requests,
             \/ Find(r) \/ SendPcount(r) \/ ReceiveCount(r) \/ ReceiveAck(r)
             \/ Exhausted(r) \/ ReceiveGrant(r) \/ Reread(r)
             \/ DatastoreFails(r) \/ CallFails(r)
             \/ LoseDatagram(r)
      PROVE  Goal
  <2>1. UNCHANGED <<gs, players, phase, grant, count>>
    BY <1>5 DEF Find, SendPcount, ReceiveCount, ReceiveAck, Exhausted,
                ReceiveGrant, Reread, DatastoreFails, CallFails, LoseDatagram
  <2>2. C' \subseteq C
    BY <1>5, <2>1
       DEF Find, SendPcount, ReceiveCount, ReceiveAck, Exhausted, ReceiveGrant,
           Reread, DatastoreFails, CallFails, LoseDatagram, Committed
  <2>3. QED
    BY <1>1, <1>3, <2>1, <2>2
<1>6. ASSUME NEW r \in Requests, CallAllocation(r) \/ ReceiveRefusal(r)
      PROVE  Goal
  <2>1. C' \subseteq C
    BY <1>6 DEF CallAllocation, Ask, ReceiveRefusal, Collect, Committed
  <2>2. QED
    BY <1>1, <1>3, <1>6, <2>1 DEF CallAllocation, Ask, ReceiveRefusal, Collect
<1>7. ASSUME NEW r \in Requests, Write(r) PROVE Goal
  <2>1. C' \subseteq C
    BY <1>7 DEF Write, Collect, Committed
  <2>2. QED
    BY <1>1, <1>3, <1>7, <2>1 DEF Write, Collect
<1>8. CASE Crash
  <2>1. C' \subseteq C
    BY <1>8 DEF Crash, Committed
  <2>2. QED
    BY <1>1, <1>3, <1>8, <2>1 DEF Crash
<1>9. ASSUME NEW r \in Requests, Recycle(r) PROVE Goal
  <2>1. C' \subseteq C
    BY <1>9 DEF Recycle, Collect, Committed
  <2>2. QED
    BY <1>1, <1>3, <1>9, <2>1 DEF Recycle, Collect
<1>10. ASSUME NEW R \in SUBSET Requests, AllocationRefuses(R) PROVE Goal
  <2>1. C' \subseteq C
    BY <1>10 DEF AllocationRefuses, Refuse, Committed
  <2>2. QED
    BY <1>1, <1>3, <1>10, <2>1 DEF AllocationRefuses, Refuse
\* A server that is allocated has no players yet, unless it stopped and its
\* address is still in use by requests that learnt it before.
<1>11. ASSUME NEW r \in Requests, NEW t \in Servers, AllocationGrants(r, t)
       PROVE  Goal
  <2>1. /\ UNCHANGED players
        /\ gs[t] = "Ready" /\ gs' = [gs EXCEPT ![t] = "Allocated"]
        /\ \A u \in Servers \ {t} : Committed(u)' \subseteq Committed(u)
        /\ Committed(t)' \subseteq Committed(t) \cup {r}
    BY <1>11 DEF AllocationGrants, Grant, Committed
  <2>2. CASE s # t
    <3>1. Limit(s)' = Limit(s) /\ Limit(s) \in Nat
      BY <1>2, <2>1, <2>2 DEF Limit
    <3>2. Cardinality(C') <= Cardinality(C)
      BY <1>1, <2>1, <2>2, CommittedShrinks
    <3> HIDE DEF C
    <3>3. QED
      BY <1>1, <1>2, <2>1, <3>1, <3>2
  <2>3. CASE s = t /\ s \in Mortal
    <3>1. Limit(s)' = Limit(s) + 1 /\ Limit(s) \in Nat
      BY <1>2, <2>1, <2>3 DEF Limit
    <3>2. Cardinality(C') <= Cardinality(C) + 1
      <4>1. IsFiniteSet(C) /\ C \cup {r} \in SUBSET Requests
        BY <1>1, CommittedSizes
      <4>2. Cardinality(C') <= Cardinality(C \cup {r})
        BY <2>1, <2>3, <4>1, CommittedShrinks
      <4>3. Cardinality(C \cup {r})
              = IF r \in C THEN Cardinality(C) ELSE Cardinality(C) + 1
        BY <4>1, FS_AddElement
      <4>4. Cardinality(C \cup {r}) \in Nat
        BY <4>1, CommittedSizes
      <4> HIDE DEF C
      <4>5. QED
        BY <1>2, <4>2, <4>3, <4>4
    <3> HIDE DEF C
    <3>3. QED
      BY <1>1, <1>2, <2>1, <3>1, <3>2
  <2>4. CASE s = t /\ s \notin Mortal
    <3>1. players[s] = 0
      BY <2>1, <2>4 DEF PlayersFollowGrants, OneOwner
    <3>2. Limit(s)' = MaxPlayers + Cardinality(Requests)
      BY <1>2, <2>4 DEF Limit
    <3> HIDE DEF C
    <3>3. QED
      BY <1>2, <2>1, <3>1, <3>2
  <2>5. QED
    BY <2>2, <2>3, <2>4
\* The count is sent while the server has room, so at most the requests come
\* on top of it.
<1>12. ASSUME NEW r \in Requests, AnswerPcount(r) PROVE Goal
  <2>1. UNCHANGED <<gs, players>>
    BY <1>12 DEF AnswerPcount
  <2>2. CASE ans[r] = s /\ players[s] < MaxPlayers
    <3>1. Limit(s)' >= MaxPlayers + Cardinality(Requests) /\ Limit(s)' \in Nat
      BY <1>2 DEF Limit
    <3> HIDE DEF C
    <3>2. QED
      BY <1>1, <1>2, <2>1, <2>2, <3>1
  <2>3. CASE ~(ans[r] = s /\ players[s] < MaxPlayers)
    <3>1. /\ count' = [count EXCEPT ![r] = players[ans[r]]]
          /\ net' = [net EXCEPT ![r] = {"COUNT", "ACK"}]
          /\ UNCHANGED <<pc, ans, phase, grant>>
      BY <1>12 DEF AnswerPcount
    <3>2. C' \subseteq C
      BY <2>3, <3>1 DEF Committed
    <3>3. QED
      BY <1>1, <1>3, <2>1, <3>2
  <2>4. QED
    BY <2>2, <2>3
<1>13. ASSUME NEW r \in Requests, Join(r) PROVE Goal
  <2>1. /\ UNCHANGED <<gs, phase, grant>>
        /\ players' = [players EXCEPT ![ans[r]] =
                         IF gs[ans[r]] = "Absent" THEN @ ELSE @ + 1]
    BY <1>13 DEF Join
  <2>2. C' \subseteq C
    BY <1>13 DEF Join, Committed
  <2>3. CASE ans[r] # s \/ gs[s] = "Absent"
    BY <1>1, <1>3, <2>1, <2>2, <2>3
  <2>4. CASE ans[r] = s /\ gs[s] # "Absent"
    <3>1. players'[s] = players[s] + 1
      BY <2>1, <2>4
    <3>2. r \in C /\ r \notin C'
      BY <1>13, <2>4 DEF Join, Committed
    <3>3. Cardinality(C') + 1 <= Cardinality(C)
      <4>1. IsFiniteSet(C) /\ C \ {r} \in SUBSET Requests
        BY <1>1, CommittedSizes
      <4>2. Cardinality(C \ {r}) = Cardinality(C) - 1
        BY <3>2, <4>1, FS_RemoveElement
      <4>3. C' \in SUBSET (C \ {r})
        BY <2>2, <3>2
      <4>4. Cardinality(C') <= Cardinality(C \ {r})
        BY <4>1, <4>3, CommittedShrinks
      <4> HIDE DEF C
      <4>5. QED
        BY <1>2, <4>2, <4>4
    <3>4. Limit(s)' = Limit(s) /\ Limit(s) \in Nat
      BY <1>2, <2>1 DEF Limit
    <3> HIDE DEF C
    <3>5. QED
      BY <1>1, <1>2, <3>1, <3>3, <3>4
  <2>5. QED
    BY <2>3, <2>4
<1>14. ASSUME NEW r \in Requests, GiveUp(r) PROVE Goal
  <2>1. C' \subseteq C
    BY <1>14 DEF GiveUp, Committed
  <2>2. QED
    BY <1>1, <1>3, <1>14, <2>1 DEF GiveUp
<1>15. ASSUME NEW t \in Servers, Leave(t) PROVE Goal
  <2>1. C' = C /\ UNCHANGED gs
    BY <1>15 DEF Leave, Committed
  <2>2. players'[s] \in Nat /\ players'[s] <= players[s]
    BY <1>1, <1>15 DEF Leave
  <2>3. QED
    BY <1>3, <2>1, <2>2
<1>16. ASSUME NEW t \in Servers, SpawnServer(t) PROVE Goal
  <2>1. C' = C /\ UNCHANGED players /\ Limit(s)' = Limit(s)
    BY <1>16 DEF SpawnServer, Spawn, Committed, Limit
  <2>2. QED
    BY <1>1, <2>1
<1>17. ASSUME NEW t \in Servers, ServerExit(t) PROVE Goal
  <2>1. C' \subseteq C
    BY <1>17 DEF ServerExit, Exit, Committed
  <2>2. CASE s = t
    <3>1. players'[s] = 0
      BY <1>17, <2>2 DEF ServerExit
    <3>2. Limit(s)' >= MaxPlayers + Cardinality(Requests) /\ Limit(s)' \in Nat
      BY <1>2 DEF Limit
    <3> HIDE DEF C
    <3>3. QED
      BY <1>2, <3>1, <3>2
  <2>3. CASE s # t
    <3>1. players'[s] = players[s] /\ Limit(s)' = Limit(s) /\ Limit(s) \in Nat
      BY <1>2, <1>17, <2>3 DEF ServerExit, Exit, Limit
    <3>2. Cardinality(C') <= Cardinality(C)
      BY <1>1, <2>1, CommittedShrinks
    <3> HIDE DEF C
    <3>3. QED
      BY <1>1, <1>2, <3>1, <3>2
  <2>4. QED
    BY <2>2, <2>3
<1>18. CASE UNCHANGED vars
  <2>1. C' = C /\ UNCHANGED <<gs, players>>
    BY <1>18 DEF vars, Committed
  <2>2. QED
    BY <1>1, <1>3, <2>1
<1>19. QED
  BY <1>4, <1>5, <1>6, <1>7, <1>8, <1>9, <1>10, <1>11, <1>12, <1>13, <1>14,
     <1>15, <1>16, <1>17, <1>18 DEF Next, Thread, Player

(* The check of the player count and the join that follows it much later    *)
(* are not atomic; this is how much that can cost, whatever the number of   *)
(* requests in flight.                                                      *)
THEOREM OvershootIsBounded == Spec => []OvershootBound
<1>1. Init => OvershootBound
  <2> SUFFICES ASSUME Init, NEW s \in Servers
               PROVE  players[s] + Cardinality(Committed(s)) + 1 <= Limit(s)
    BY DEF OvershootBound, Limit
  <2>1. players[s] = 0 /\ Committed(s) = {}
    BY FleetAssumption DEF Init, AllocInit, Committed
  <2>2. Limit(s) >= MaxPlayers + Cardinality(Requests)
    BY CommittedSizes, MatchmakerAssumption DEF Limit
  <2>3. QED
    BY <2>1, <2>2, CommittedSizes, MatchmakerAssumption, FS_EmptySet DEF Limit
<1>2. QED
  BY <1>1, OvershootStep, InvHolds, PTL DEF Spec

-----------------------------------------------------------------------------
(* The two races are the only causes: what the code does would be right if  *)
(* the steps between a read and the use of what was read took turns.        *)

(* No two requests of a cell hold copies of its lists at the same time.     *)
WritesTakeTurns ==
  \A q, r \in Requests :
    pc[q] = "write" /\ pc[r] = "write" /\ cell[q] = cell[r] => q = r

(* Recording a server never drops another one when only one request at a    *)
(* time is between the second reading of a cell's lists and the put: a lock *)
(* or a transaction around createOrUpdateCellId is enough.                  *)
THEOREM TurnsKeepServers == Spec /\ []WritesTakeTurns => RecordedServersStay
<1> DEFINE Current == \A r \in Requests : pc[r] = "write" => todo[r] = entity[cell[r]]
           Kept == \A c \in Cells : Recorded(c) \subseteq Recorded(c)'
<1> USE DEF allocVars, threadVars, netVars, history, Goto, Forget
<1>1. Init => Current
  BY DEF Init
<1>2. Inv /\ WritesTakeTurns /\ Current /\ [Next]_vars => Current'
  <2> SUFFICES ASSUME Inv, WritesTakeTurns, Current, [Next]_vars
               PROVE  Current'
    OBVIOUS
  <2> USE DEF Inv, TypeOK
  <2>1. ASSUME NEW r \in Requests, Write(r) PROVE Current'
    <3>1. /\ pc[r] = "write" /\ pc'[r] # "write"
          /\ \A q \in Requests \ {r} : pc'[q] = pc[q]
          /\ \A c \in Cells \ {cell[r]} : entity'[c] = entity[c]
          /\ UNCHANGED <<cell, todo>>
      BY <2>1 DEF Write
    <3>2. \A q \in Requests \ {r} : pc[q] = "write" => cell[q] \in Cells \ {cell[r]}
      BY <3>1 DEF WritesTakeTurns
    <3>3. QED
      BY <3>1, <3>2
  <2>2. ASSUME NEW r \in Requests, Thread(r), ~Write(r) PROVE Current'
    BY <2>2 DEF Thread, Find, SendPcount, ReceiveCount, ReceiveAck, Exhausted,
                CallAllocation, ReceiveGrant, ReceiveRefusal, Reread, DatastoreFails,
                CallFails
  <2>3. ASSUME NEW r \in Requests, Player(r) PROVE Current'
    BY <2>3 DEF Player, Join, GiveUp, Recycle, GetAllocation
  <2>4. CASE Crash
    BY <2>4 DEF Crash
  <2>5. CASE UNCHANGED <<pc, cell, todo, entity>>
    BY <2>5
  <2>6. QED
    BY <2>1, <2>2, <2>3, <2>4, <2>5
       DEF Next, vars, AllocationGrants, AllocationRefuses, AnswerPcount,
           LoseDatagram, Leave, SpawnServer, ServerExit
<1>3. Inv /\ Current /\ [Next]_vars => [Kept]_vars
  <2> SUFFICES ASSUME Inv, Current, [Next]_vars, NEW c \in Cells
               PROVE  Recorded(c) \subseteq Recorded(c)'
    OBVIOUS
  <2>1. ASSUME NEW r \in Requests, Write(r) PROVE Recorded(c) \subseteq Recorded(c)'
    <3>1. /\ pc[r] = "write" /\ ans[r] \in Servers /\ cell[r] \in Cells
          /\ todo[r] = entity[cell[r]] /\ entity \in [Cells -> Seq(Servers)]
          /\ entity' = [entity EXCEPT ![cell[r]] = Append(todo[r], ans[r])]
      BY <2>1, FleetAssumption DEF Write, Inv, TypeOK, AllocTypeOK, Stages
    <3>2. CASE c = cell[r]
      <4>1. /\ entity'[c] = Append(entity[c], ans[r])
            /\ DOMAIN entity'[c] = DOMAIN entity[c] \cup {Len(entity[c]) + 1}
            /\ \A i \in DOMAIN entity[c] : entity'[c][i] = entity[c][i]
        BY <3>1, <3>2, AppendElements
      <4>2. QED
        BY <4>1 DEF Recorded, Range
    <3>3. CASE c # cell[r]
      BY <3>1, <3>3 DEF Recorded
    <3>4. QED
      BY <3>2, <3>3
  <2>2. CASE UNCHANGED entity
    BY <2>2 DEF Recorded
  <2>3. QED
    BY <2>1, <2>2
       DEF Next, vars, Thread, Find, SendPcount, ReceiveCount, ReceiveAck,
           Exhausted, CallAllocation, ReceiveGrant, ReceiveRefusal, Reread,
           DatastoreFails, CallFails, Player, Join, GiveUp, Recycle, GetAllocation, Crash,
           AllocationGrants, AllocationRefuses, AnswerPcount, LoseDatagram,
           Leave, SpawnServer, ServerExit
<1>4. QED
  BY <1>1, <1>2, <1>3, InvHolds, PTL DEF Spec, RecordedServersStay

(* No two requests are committed to one server at the same time.            *)
JoinsTakeTurns ==
  \A s \in Servers : \A q, r \in Committed(s) : q = r

(* No server that cannot stop has more players than allowed.                *)
NeverOverfull == \A s \in Servers \ Mortal : players[s] <= MaxPlayers

(* A server is never overfilled when only one request at a time is between  *)
(* the count and the player's NEW: the missing reservation is the only      *)
(* cause of the overshoot.                                                  *)
THEOREM TurnsPreventOverfilling == Spec /\ []JoinsTakeTurns => []NeverOverfull
<1> DEFINE Room == \A s \in Servers \ Mortal :
                     /\ players[s] <= MaxPlayers
                     /\ Committed(s) # {} => players[s] < MaxPlayers
<1> USE FleetAssumption, MatchmakerAssumption
        DEF allocVars, threadVars, netVars, history, Goto, Forget
<1>1. Init => Room
  BY DEF Init, AllocInit, Committed
<1>2. Inv /\ JoinsTakeTurns /\ Room /\ [Next]_vars => Room'
  <2> SUFFICES ASSUME Inv, JoinsTakeTurns, Room, [Next]_vars,
                      NEW s \in Servers, s \notin Mortal
               PROVE  /\ players'[s] <= MaxPlayers
                      /\ Committed(s)' # {} => players'[s] < MaxPlayers
    OBVIOUS
  <2> DEFINE C == Committed(s)
             Goal == /\ players'[s] <= MaxPlayers
                     /\ C' # {} => players'[s] < MaxPlayers
  <2> USE DEF Inv, TypeOK, AllocTypeOK, Stages
  <2>1. players[s] <= MaxPlayers /\ (C # {} => players[s] < MaxPlayers)
    OBVIOUS
  <2>2. ASSUME players'[s] = players[s], C' \subseteq C PROVE Goal
    BY <2>1, <2>2
  <2>3. ASSUME NEW r \in Requests, Thread(r) PROVE Goal
    <3>1. UNCHANGED players
      BY <2>3 DEF Thread, Find, SendPcount, ReceiveCount, ReceiveAck, Exhausted,
                  CallAllocation, ReceiveGrant, ReceiveRefusal, Reread, Write,
                  DatastoreFails, CallFails
    <3>2. CASE Find(r) \/ SendPcount(r) \/ ReceiveCount(r) \/ ReceiveAck(r) \/ Exhausted(r)
      BY <2>2, <3>1, <3>2 DEF Find, SendPcount, ReceiveCount, ReceiveAck, Exhausted,
                              Committed
    <3>3. CASE CallAllocation(r) \/ ReceiveGrant(r) \/ ReceiveRefusal(r)
      BY <2>2, <3>1, <3>3 DEF CallAllocation, Ask, ReceiveGrant, ReceiveRefusal,
                              Collect, Committed
    <3>4. CASE Reread(r) \/ Write(r) \/ DatastoreFails(r) \/ CallFails(r)
      BY <2>2, <3>1, <3>4 DEF Reread, Write, Collect, DatastoreFails, CallFails, Committed
    <3>5. QED
      BY <2>3, <3>2, <3>3, <3>4 DEF Thread
  <2>4. ASSUME NEW r \in Requests, AnswerPcount(r) PROVE Goal
    <3>1. /\ UNCHANGED <<players, pc, ans, phase, grant>>
          /\ net' = [net EXCEPT ![r] = {"COUNT", "ACK"}]
          /\ count' = [count EXCEPT ![r] = players[ans[r]]]
      BY <2>4 DEF AnswerPcount
    <3>2. CASE ans[r] = s /\ players[s] < MaxPlayers
      BY <2>1, <3>1, <3>2
    <3>3. CASE ~(ans[r] = s /\ players[s] < MaxPlayers)
      <4>1. C' \subseteq C
        BY <3>1, <3>3 DEF Committed
      <4>2. QED
        BY <2>2, <3>1, <4>1
    <3>4. QED
      BY <3>2, <3>3
  <2>5. ASSUME NEW r \in Requests, NEW t \in Servers, AllocationGrants(r, t) PROVE Goal
    <3>1. /\ UNCHANGED players
          /\ gs[t] = "Ready"
          /\ \A u \in Servers \ {t} : Committed(u)' \subseteq Committed(u)
      BY <2>5 DEF AllocationGrants, Grant, Committed
    <3>2. CASE s = t
      <4>1. players[s] = 0
        BY <3>1, <3>2 DEF PlayersFollowGrants, OneOwner
      <4>2. QED
        BY <3>1, <4>1
    <3>3. CASE s # t
      BY <2>2, <3>1, <3>3
    <3>4. QED
      BY <3>2, <3>3
  <2>6. ASSUME NEW R \in SUBSET Requests, AllocationRefuses(R) PROVE Goal
    BY <2>2, <2>6 DEF AllocationRefuses, Refuse, Committed
  <2>7. ASSUME NEW r \in Requests, Join(r) PROVE Goal
    <3>1. C' \subseteq C /\ r \notin C'
      BY <2>7 DEF Join, Committed
    <3>2. CASE players'[s] = players[s]
      BY <2>2, <3>1, <3>2
    <3>3. CASE players'[s] # players[s]
      <4>1. ans[r] = s /\ players'[s] = players[s] + 1
        BY <2>7, <3>3 DEF Join
      <4>2. r \in C
        BY <2>7, <4>1 DEF Join, Committed
      <4>3. C' = {}
        BY <3>1, <4>2 DEF JoinsTakeTurns
      <4>4. players[s] < MaxPlayers /\ players[s] \in Nat
        BY <2>1, <4>2
      <4> HIDE DEF C
      <4>5. QED
        BY <4>1, <4>3, <4>4
    <3>4. QED
      BY <3>2, <3>3
  <2>8. ASSUME NEW r \in Requests,
               \/ GiveUp(r) \/ Recycle(r) \/ LoseDatagram(r)
               \/ \E c \in Cells : GetAllocation(r, c)
        PROVE  Goal
    <3>1. C' \subseteq C
      BY <2>8 DEF GiveUp, Recycle, Collect, GetAllocation, LoseDatagram, Committed
    <3>2. QED
      BY <2>2, <2>8, <3>1 DEF GiveUp, Recycle, GetAllocation, LoseDatagram
  <2>9. ASSUME Crash PROVE Goal
    BY <2>2, <2>9 DEF Crash, Committed
  <2>10. ASSUME NEW t \in Servers, Leave(t) PROVE Goal
    <3>1. C' = C /\ players[s] \in Nat /\ players'[s] \in {players[s], players[s] - 1}
      BY <2>10 DEF Leave, Committed
    <3> HIDE DEF C
    <3>2. QED
      BY <2>1, <3>1
  <2>11. ASSUME NEW t \in Servers, SpawnServer(t) \/ ServerExit(t) PROVE Goal
    <3>1. UNCHANGED <<pc, ans, count, phase, grant>>
      BY <2>11 DEF SpawnServer, Spawn, ServerExit, Exit
    <3>5. \A q \in Requests : net'[q] \subseteq net[q]
      <4>1. CASE SpawnServer(t)
        BY <4>1 DEF SpawnServer
      <4>2. CASE ServerExit(t)
        BY <4>2 DEF ServerExit
      <4>3. QED
        BY <2>11, <4>1, <4>2
    <3>4. C' \subseteq C
      BY <3>1, <3>5 DEF Committed
    <3>2. players'[s] = players[s]
      BY <2>11 DEF SpawnServer, ServerExit, Exit
    <3>3. QED
      BY <2>2, <3>4, <3>2
  <2>12. ASSUME UNCHANGED vars PROVE Goal
    BY <2>2, <2>12 DEF vars, Committed
  <2>13. ASSUME NEW r \in Requests, Player(r) PROVE Goal
    BY <2>7, <2>8, <2>13 DEF Player
  <2>14. Goal
    <3> HIDE DEF Goal
    <3>1. QED
      BY <2>3, <2>4, <2>5, <2>6, <2>8, <2>9, <2>10, <2>11, <2>12, <2>13 DEF Next
  <2>15. QED
    BY <2>14
<1>3. Room => NeverOverfull
  BY DEF NeverOverfull
<1>4. QED
  BY <1>1, <1>2, <1>3, InvHolds, PTL DEF Spec

-----------------------------------------------------------------------------
(* The refinement of the contract, one lemma for each way in which a step   *)
(* can change what the contract sees of the requests.                       *)
Same(q) == Wanted(q)' = Wanted(q) /\ Told(q)' = Told(q)

(* A step that changes nothing the players see is no step of the contract.  *)
LEMMA NothingSeen ==
  ASSUME UNCHANGED granted, \A q \in Requests : Same(q)
  PROVE  UNCHANGED Contract!contractVars
BY DEF Same, Contract!contractVars

(* The end of requests in the matchmaker is their end in the contract.      *)
LEMMA FinishSeen ==
  ASSUME NEW R \in SUBSET Requests, R # {}, UNCHANGED granted,
         \A q \in R : Wanted(q) \in Cells /\ Wanted(q)' = NoCell /\ Told(q)' = NoServer,
         \A q \in Requests \ R : Same(q)
  PROVE  Contract!Finish(R) /\ Contract!ContractNext
<1>1. Contract!Finish(R)
  BY DEF Same, Contract!Finish
<1>2. QED
  BY <1>1 DEF Contract!ContractNext

(* The end of one request, the case of Join, GiveUp and the failures.       *)
LEMMA FinishOneSeen ==
  ASSUME NEW r \in Requests, UNCHANGED granted,
         Wanted(r) \in Cells, Wanted(r)' = NoCell, Told(r)' = NoServer,
         \A q \in Requests \ {r} : Same(q)
  PROVE  Contract!ContractNext
<1>1. /\ {r} \in SUBSET Requests /\ {r} # {}
      /\ \A q \in {r} :
           Wanted(q) \in Cells /\ Wanted(q)' = NoCell /\ Told(q)' = NoServer
  OBVIOUS
<1>2. QED
  BY <1>1, FinishSeen

(* An answer in the matchmaker is an answer of the contract.                *)
LEMMA TellSeen ==
  ASSUME NEW r \in Requests, NEW s \in Servers, UNCHANGED granted,
         Wanted(r) \in Cells, Wanted(r)' = Wanted(r), s \in granted[Wanted(r)],
         Told(r) = NoServer, Told(r)' = s,
         \A q \in Requests \ {r} : Same(q)
  PROVE  Contract!Tell(r, s) /\ Contract!ContractNext
<1>1. [q \in Requests |-> Told(q)'] = [[q \in Requests |-> Told(q)] EXCEPT ![r] = s]
  BY DEF Same
<1>2. [q \in Requests |-> Wanted(q)'] = [q \in Requests |-> Wanted(q)]
  BY DEF Same
<1>3. Contract!Tell(r, s)
  BY <1>1, <1>2 DEF Contract!Tell
<1>4. QED
  BY <1>3 DEF Contract!ContractNext

(* Each step of the matchmaker is a step of the contract or changes nothing *)
(* in it.                                                                   *)
LEMMA StepKeepsContract ==
  Inv /\ Inv' /\ [Next]_vars => [Contract!ContractNext]_(Contract!contractVars)
<1> SUFFICES ASSUME Inv, Inv', [Next]_vars
             PROVE  Contract!ContractNext \/ UNCHANGED Contract!contractVars
  OBVIOUS
<1> USE FleetAssumption, MatchmakerAssumption
    DEF Inv, TypeOK, AllocTypeOK, Labels, Stages, allocVars, threadVars,
        netVars, history, Goto, Forget
<1>1. ASSUME NEW r \in Requests, NEW c \in Cells, GetAllocation(r, c)
      PROVE  Contract!ContractNext
  <2>1. /\ UNCHANGED granted
        /\ Wanted(r) = NoCell /\ Wanted(r)' = c
        /\ Told(r) = NoServer /\ Told(r)' = NoServer
        /\ \A q \in Requests \ {r} : Same(q)
    BY <1>1 DEF GetAllocation, Wanted, Told, Same
  <2>2. [q \in Requests |-> Told(q)'] = [q \in Requests |-> Told(q)]
    BY <2>1 DEF Same
  <2>3. [q \in Requests |-> Wanted(q)']
          = [[q \in Requests |-> Wanted(q)] EXCEPT ![r] = c]
    <3> DEFINE before == [q \in Requests |-> Wanted(q)]
               after == [q \in Requests |-> Wanted(q)']
    <3>1. after[r] = c /\ \A q \in Requests \ {r} : after[q] = before[q]
      BY <2>1 DEF Same
    <3>2. DOMAIN after = Requests /\ DOMAIN before = Requests
      OBVIOUS
    <3>3. QED
      BY <2>1 DEF Same
  <2>4. Contract!Want(r, c)
    BY <2>1, <2>2, <2>3 DEF Contract!Want
  <2>5. QED
    BY <2>4 DEF Contract!ContractNext
<1>2. ASSUME NEW r \in Requests,
             \/ Find(r) \/ SendPcount(r) \/ Exhausted(r) \/ CallAllocation(r)
             \/ ReceiveGrant(r) \/ Reread(r)
      PROVE  UNCHANGED Contract!contractVars
  <2>1. UNCHANGED <<cell, granted>>
    BY <1>2 DEF Find, SendPcount, Exhausted, CallAllocation, ReceiveGrant, Reread
  <2>2. /\ pc[r] \notin {"idle", "answered", "failed"}
        /\ \E l \in Labels \ {"idle", "answered", "failed"} :
             pc' = [pc EXCEPT ![r] = l]
    BY <1>2 DEF Find, SendPcount, Exhausted, CallAllocation, ReceiveGrant, Reread
  <2>3. \A q \in Requests \ {r} : pc'[q] = pc[q] /\ ans'[q] = ans[q]
    BY <1>2 DEF Find, SendPcount, Exhausted, CallAllocation, ReceiveGrant, Reread
  <2>4. \A q \in Requests : Same(q)
    <3>1. pc'[r] \notin {"idle", "answered", "failed"}
      BY <2>2
    <3>2. Same(r)
      BY <2>1, <2>2, <3>1 DEF Same, Wanted, Told
    <3>3. \A q \in Requests \ {r} : Same(q)
      BY <2>1, <2>3 DEF Same, Wanted, Told
    <3>4. QED
      BY <3>2, <3>3
  <2>5. QED
    BY <2>1, <2>4, NothingSeen
<1>3. ASSUME NEW r \in Requests, ReceiveCount(r)
      PROVE  Contract!ContractNext \/ UNCHANGED Contract!contractVars
  <2>1. /\ UNCHANGED <<granted, cell, ans>>
        /\ pc[r] = "probe" /\ ans[r] \in Servers /\ cell[r] \in Cells
        /\ ans[r] \in granted[cell[r]]
        /\ \A q \in Requests \ {r} : Same(q)
    BY <1>3 DEF ReceiveCount, Provenance, Same, Wanted, Told
  <2>2. CASE pc'[r] = "answered"
    <3>1. /\ Wanted(r) = cell[r] /\ Wanted(r)' = cell[r]
          /\ Told(r) = NoServer /\ Told(r)' = ans[r]
      BY <2>1, <2>2 DEF Wanted, Told
    <3>2. QED
      BY <2>1, <3>1, TellSeen
  <2>3. CASE pc'[r] = "scan"
    <3>1. Same(r)
      BY <2>1, <2>3 DEF Same, Wanted, Told
    <3>2. QED
      BY <2>1, <3>1, NothingSeen
  <2>4. QED
    BY <1>3, <2>2, <2>3 DEF ReceiveCount
<1>4. ASSUME NEW r \in Requests, Write(r) PROVE Contract!ContractNext
  <2>1. /\ UNCHANGED <<granted, cell, ans>>
        /\ pc[r] = "write" /\ ans[r] \in Servers /\ cell[r] \in Cells
        /\ ans[r] \in granted[cell[r]]
        /\ \A q \in Requests \ {r} : Same(q)
    BY <1>4 DEF Write, Provenance, Same, Wanted, Told
  <2>2. CASE pc'[r] = "answered"
    <3>1. /\ Wanted(r) = cell[r] /\ Wanted(r)' = cell[r]
          /\ Told(r) = NoServer /\ Told(r)' = ans[r]
      BY <2>1, <2>2 DEF Wanted, Told
    <3>2. QED
      BY <2>1, <3>1, TellSeen
  <2>3. CASE pc'[r] = "failed"
    <3>1. Wanted(r) \in Cells /\ Wanted(r)' = NoCell /\ Told(r)' = NoServer
      BY <2>1, <2>3 DEF Wanted, Told
    <3>2. QED
      BY <2>1, <3>1, FinishOneSeen
  <2>4. QED
    BY <1>4, <2>2, <2>3 DEF Write
<1>5. ASSUME NEW r \in Requests,
             \/ ReceiveAck(r) \/ ReceiveRefusal(r) \/ DatastoreFails(r) \/ CallFails(r)
             \/ Join(r) \/ GiveUp(r)
      PROVE  Contract!ContractNext
  <2>1. UNCHANGED granted
    BY <1>5 DEF ReceiveAck, ReceiveRefusal, DatastoreFails, CallFails, Join, GiveUp
  <2>2. Wanted(r) \in Cells /\ Wanted(r)' = NoCell /\ Told(r)' = NoServer
    BY <1>5 DEF ReceiveAck, ReceiveRefusal, DatastoreFails, CallFails, Join, GiveUp,
                Wanted, Told
  <2>3. \A q \in Requests \ {r} : Same(q)
    <3>1. CASE ReceiveAck(r) \/ ReceiveRefusal(r) \/ DatastoreFails(r) \/ CallFails(r)
      BY <3>1 DEF ReceiveAck, ReceiveRefusal, DatastoreFails, CallFails, Wanted, Told,
                  Same
    <3>2. CASE Join(r) \/ GiveUp(r)
      BY <3>2 DEF Join, GiveUp, Wanted, Told, Same
    <3>3. QED
      BY <1>5, <3>1, <3>2
  <2>4. QED
    BY <2>1, <2>2, <2>3, FinishOneSeen
<1>6. CASE Crash
  <2>1. /\ UNCHANGED granted
        /\ Running # {} /\ Running \in SUBSET Requests
        /\ \A q \in Running :
             Wanted(q) \in Cells /\ Wanted(q)' = NoCell /\ Told(q)' = NoServer
        /\ \A q \in Requests \ Running : Same(q)
    BY <1>6 DEF Crash, Running, Wanted, Told, Same
  <2>2. QED
    BY <2>1, FinishSeen
<1>7. ASSUME \/ \E r \in Requests :
                  Recycle(r) \/ AnswerPcount(r) \/ LoseDatagram(r)
             \/ \E R \in SUBSET Requests : AllocationRefuses(R)
      PROVE  UNCHANGED Contract!contractVars
  <2>1. UNCHANGED granted /\ \A q \in Requests : Same(q)
    BY <1>7 DEF Recycle, AllocationRefuses, AnswerPcount, LoseDatagram, Same,
                Wanted, Told
  <2>2. QED
    BY <2>1, NothingSeen
<1>8. ASSUME NEW r \in Requests, NEW s \in Servers, AllocationGrants(r, s)
      PROVE  Contract!ContractNext
  <2>1. /\ cell[r] \in Cells
        /\ granted' = [granted EXCEPT ![cell[r]] = @ \cup {s}]
        /\ s \in Mortal \/ \A d \in Cells : s \notin granted[d]
    BY <1>8 DEF AllocationGrants, Grant, OneOwner
  <2>2. \A q \in Requests : Same(q)
    BY <1>8 DEF AllocationGrants, Same, Wanted, Told
  <2>3. Contract!Acquire(cell[r], s)
    BY <2>1, <2>2 DEF Contract!Acquire, Same
  <2>4. QED
    BY <2>1, <2>3 DEF Contract!ContractNext
<1>9. ASSUME NEW s \in Servers, Leave(s) \/ SpawnServer(s) \/ ServerExit(s)
      PROVE  UNCHANGED Contract!contractVars
  <2>1. UNCHANGED granted /\ \A q \in Requests : Same(q)
    BY <1>9 DEF Leave, SpawnServer, ServerExit, Same, Wanted, Told
  <2>2. QED
    BY <2>1, NothingSeen
<1>10. CASE UNCHANGED vars
  <2>1. UNCHANGED granted /\ \A q \in Requests : Same(q)
    BY <1>10 DEF vars, Same, Wanted, Told
  <2>2. QED
    BY <2>1, NothingSeen
<1>11. QED
  BY <1>1, <1>2, <1>3, <1>4, <1>5, <1>6, <1>7, <1>8, <1>9, <1>10
     DEF Next, Thread, Player

(* Whatever fails and however the threads interleave, a player is told a    *)
(* server of its own cell, and a server that cannot stop belongs to one     *)
(* cell only.                                                               *)
THEOREM MatchmakerKeepsContract == Spec => KeepsContract
<1>1. Init => Contract!ContractInit
  BY DEF Init, Contract!ContractInit, Wanted, Told
<1>2. QED
  BY <1>1, StepKeepsContract, InvHolds, PTL
     DEF Spec, KeepsContract, Contract!ContractSpec

=============================================================================
