---------------------------- MODULE MCSimulation ----------------------------
(* Model checking Simulation and TimeTables on top of it.                  *)
EXTENDS TimeTables
=============================================================================
