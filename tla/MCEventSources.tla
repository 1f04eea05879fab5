--------------------------- MODULE MCEventSources ---------------------------
(* Small instances of EventSources for TLC, without symmetry for liveness. *)
EXTENDS EventSources
=============================================================================
