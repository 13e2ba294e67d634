----------------------------- MODULE MCCBuffer -----------------------------
(* Model checking CBuffer for one caller at a time, on slots enough for    *)
(* the indices to wrap around apart from each other.                       *)
EXTENDS CBuffer
=============================================================================
