---------------------------- MODULE MCAuthService ----------------------------
(* AuthService on small sets.  Threads are interchangeable.                 *)
EXTENDS AuthService, TLC

CONSTANTS p1, p2, a1, a2, k1, k2, k3

OwnAccounts == p1 :> a1 @@ p2 :> a2

(* Every address has keys of its own, and p2 is typed with capitals: the    *)
(* address that Firebase returns for it has another key ...                 *)
OwnKeys == p1 :> k1 @@ p2 :> k2
OwnAccountKeys == a1 :> k1 @@ a2 :> k3

(* ... or two addresses differ only behind the second label of the domain,  *)
(* which create_email cuts off.                                             *)
SharedKey == p1 :> k1 @@ p2 :> k1
SharedAccountKey == a1 :> k1 @@ a2 :> k1

(* Players whose keys differ share nothing but the clock: the run lets the  *)
(* calls of one player end, late requests included, before another calls.   *)
OnePlayerAtATime ==
  \E p \in Players : \A x \in Slots : pc[x] # "idle" => call[x].player = p

WorkerSymmetry == Permutations(Workers)
=============================================================================
