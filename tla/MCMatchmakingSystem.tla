------------------------ MODULE MCMatchmakingSystem ------------------------
(* MatchmakingSystem on small sets of model values.  The run checks         *)
(* liveness, so it declares no symmetry.  It follows a behaviour while      *)
(* ServersRun holds, which is what EveryRequestReturns assumes.             *)
EXTENDS MatchmakingSystem
=============================================================================
