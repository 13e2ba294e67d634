----------------------------- MODULE MCSystrace -----------------------------
(* Model checking Systrace.  The calls are execve, the last number before  *)
(* the gap in the table, one whose position holds another name, and one    *)
(* beyond the table.                                                       *)
EXTENDS Systrace

MCCalls == {execve, 334, 335, 424}
=============================================================================
