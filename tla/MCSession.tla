----------------------------- MODULE MCSession -----------------------------
(* Model checking Session: see MCSession.cfg.                              *)
EXTENDS Session

\* The second session needs a longer file than the first one.
MCSizeOf == <<1, 2>>
=============================================================================
