---------------------------- MODULE Matchmaking ----------------------------
(* What the matchmaker (src/matchmaker) promises to the players of a cell:  *)
(* each cell collects game servers of its own, and a player is told one of  *)
(* the servers of the cell the player is in.  How full a server is, and     *)
(* what the Datastore remembers of the servers, is no part of the promise:  *)
(* the code keeps neither (see Matchmaker).                                 *)

CONSTANTS Requests, Servers, NoServer, Mortal, Cells, NoCell

VARIABLES owned,  \* the servers ever allocated for each cell
          want,   \* the cell of each request being served
          told    \* the server each request was answered with

contractVars == <<owned, want, told>>

ContractInit == /\ owned = [c \in Cells |-> {}]
                /\ want = [r \in Requests |-> NoCell]
                /\ told = [r \in Requests |-> NoServer]

(* A player of cell c asks for a server.                                    *)
Want(r, c) == /\ want[r] = NoCell
              /\ want' = [want EXCEPT ![r] = c]
              /\ UNCHANGED <<owned, told>>

(* Cell c gets server s; one that cannot stop is nobody else's, now or ever.*)
Acquire(c, s) == /\ s \in Mortal \/ \A d \in Cells : s \notin owned[d]
                 /\ owned' = [owned EXCEPT ![c] = @ \cup {s}]
                 /\ UNCHANGED <<want, told>>

(* The request is answered with a server of its cell.                       *)
Tell(r, s) == /\ want[r] \in Cells
              /\ told[r] = NoServer
              /\ s \in owned[want[r]]
              /\ told' = [told EXCEPT ![r] = s]
              /\ UNCHANGED <<owned, want>>

(* The requests in R are over, answered or not.                             *)
Finish(R) == /\ R # {}
             /\ \A r \in R : want[r] \in Cells
             /\ want' = [r \in Requests |-> IF r \in R THEN NoCell ELSE want[r]]
             /\ told' = [r \in Requests |-> IF r \in R THEN NoServer ELSE told[r]]
             /\ UNCHANGED owned

ContractNext == \/ \E r \in Requests, c \in Cells : Want(r, c)
                \/ \E c \in Cells, s \in Servers : Acquire(c, s)
                \/ \E r \in Requests, s \in Servers : Tell(r, s)
                \/ \E R \in SUBSET Requests : Finish(R)

ContractSpec == ContractInit /\ [][ContractNext]_contractVars

=============================================================================
