------------------------ MODULE MCAllocationService ------------------------
(* AllocationService on small sets of model values.  The run checks         *)
(* liveness too, so it declares no symmetry.                                *)
EXTENDS AllocationService
=============================================================================
