--------------------------- MODULE MCEventChannel ---------------------------
(* Model checking EventChannel: two clients and the finalizer.             *)
EXTENDS EventChannel
=============================================================================
