--------------------------- MODULE MCGCHandshake ----------------------------
(* GCHandshake on two tasks, without symmetry: the run checks liveness.    *)
EXTENDS GCHandshake
=============================================================================
