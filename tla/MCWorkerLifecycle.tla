------------------------- MODULE MCWorkerLifecycle --------------------------
(* WorkerLifecycle with the owner and the worker as model values.          *)
EXTENDS WorkerLifecycle
=============================================================================
