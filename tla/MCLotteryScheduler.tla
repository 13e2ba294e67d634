------------------------- MODULE MCLotteryScheduler -------------------------
(* Model checking LotteryScheduler: see the cfg files.                     *)
EXTENDS LotteryScheduler
=============================================================================
