---------------------------- MODULE MCGameServer ----------------------------
(* GameServer on small sets of model values.  Clients are interchangeable,  *)
(* and so are ids.                                                          *)
EXTENDS GameServer, TLC

ClientSymmetry == Permutations(Clients) \cup Permutations(Ids)
=============================================================================
