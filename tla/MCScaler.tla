------------------------------ MODULE MCScaler ------------------------------
(* Scaler with two processes of a rollout; no symmetry, because the run     *)
(* checks liveness.                                                         *)
EXTENDS Scaler
=============================================================================
