---------------------------- MODULE PeriodicTasks ----------------------------
(***************************************************************************)
(* What a simulation of project_3 promises: a chart of one hyperperiod, in *)
(* which every slot goes to a most urgent task that has work left, up to   *)
(* the first slot in which a deadline is missed.  The state is the chart;  *)
(* what a task has left to do and when it is due is read off it.           *)
(***************************************************************************)
EXTENDS Integers, Sequences, FiniteSets

None == -1

VARIABLES policy, config, hyper,
          chart,    \* the tasks of the slots so far, None in an idle one
          late,     \* the tasks that missed their deadline
          over

vars == <<policy, config, hyper, chart, late, over>>

now == Len(chart)
Period(i) == config[i].period
Release(i) == now - (now % Period(i))

\* How many of the slots from first to last - 1 task i had.
Ran(i, first, last) == Cardinality({s \in first .. last - 1 : chart[s + 1] = i})
Left(i) == config[i].execution - Ran(i, Release(i), now)

Pending == {i \in DOMAIN config : Left(i) > 0}
Late == {i \in DOMAIN config :
           /\ now > 0 /\ now = Release(i)
           /\ Ran(i, now - Period(i), now) < config[i].execution}

Deadline(i) == Release(i) + Period(i)
Urgency(i) ==
  CASE policy = "rm"  -> Period(i)
    [] policy = "edf" -> Deadline(i)
    [] policy = "llf" -> Deadline(i) - now - Left(i)
Urgent == {i \in Pending : \A j \in Pending : Urgency(i) <= Urgency(j)}

Init == chart = <<>> /\ late = {} /\ over = FALSE

RunSlot ==
  /\ ~over /\ Late = {} /\ now < hyper
  /\ \E i \in IF Pending = {} THEN {None} ELSE Urgent : chart' = Append(chart, i)
  /\ UNCHANGED <<policy, config, hyper, late, over>>

Miss ==
  /\ ~over /\ Late # {}
  /\ late' = Late
  /\ over' = TRUE
  /\ UNCHANGED <<policy, config, hyper, chart>>

Finish ==
  /\ ~over /\ Late = {} /\ now = hyper
  /\ over' = TRUE
  /\ UNCHANGED <<policy, config, hyper, chart, late>>

Next == RunSlot \/ Miss \/ Finish

Spec == Init /\ [][Next]_vars /\ WF_vars(Next)
=============================================================================
