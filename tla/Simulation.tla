----------------------------- MODULE Simulation -----------------------------
(***************************************************************************)
(* project_3: simulation.c runs a set of periodic tasks through one        *)
(* hyperperiod, under rate monotonic (rm), earliest deadline first (edf)   *)
(* or least laxity first (llf); schedulability.c tests the same set        *)
(* without running it.  A step is one turn of a simulator's loop.          *)
(*                                                                         *)
(* Task identifiers, slots and the index -1 for "no task" are those of the *)
(* code.  result->misses is the set of the tasks marked in it.             *)
(***************************************************************************)
EXTENDS Integers, FiniteSetsExt, Functions

CONSTANTS MaxTasks,   \* the largest number of tasks
          Periods,    \* the periods the user may give
          Precision   \* the floats of the tests are off by less than a part
                      \* in Precision, and EPSILON is such a part

ASSUME MaxTasksAssumption == MaxTasks \in Nat \ {0}
ASSUME PeriodsAssumption == Periods \subseteq Nat \ {0} /\ IsFiniteSet(Periods)
\* Ten tasks (MAX_TASKS) take some ten roundings to 24 bits, and the float
\* 1.0 + EPSILON is 1 + 2^-20: Precision is 2^20, and MAX_PERIOD is 1000.
ASSUME PrecisionAssumption == Precision \in Nat /\ \A p \in Periods : p + 2 <= Precision

None == -1
INT_MAX == 2147483647

VARIABLES
  policy,      \* which simulator runs
  config,      \* config[i]: the execution time and the period of task i
  hyper,       \* the least common multiple of the periods
  slot,        \* the loop counter: i in rm and edf, t in llf
  run,         \* FALSE once a miss was found
  timeLeft,    \* time_left, by task
  completed,   \* deadline_completed, in edf
  laxities,    \* in llf
  runtime,     \* in rm: runtime[k] is the task at index k, sorted by period
  running,     \* running in rm and llf, next_task in edf
  ts,          \* ts[s]: the task of slot s
  misses, missIdx

input == <<policy, config, hyper, runtime>>
vars == <<input, slot, run, timeLeft, completed, laxities, running, ts, misses,
          missIdx>>

Tasks == DOMAIN config
Execution(i) == config[i].execution
Period(i) == config[i].period

-----------------------------------------------------------------------------
(* The input and the tables built from it                                  *)

\* The simulators that gen_execution_tables runs, each on its own.
Policies == {"rm", "edf", "llf"}

\* valid_config: no execution time is longer than its period.
ValidTasks == UNION {[execution : 1 .. p, period : {p}] : p \in Periods}
Configs == UNION {[0 .. n - 1 -> ValidTasks] : n \in 1 .. MaxTasks}

lcm(a, b) == Min({m \in 1 .. a * b : m % a = 0 /\ m % b = 0})
get_lcm_from_array(array) == FoldFunction(lcm, 1, array)

\* The column of task i in the table of deadlines.  llf leaves out the last
\* slot of the table, and treats it as a deadline of every task.
Deadline(i, s) == s % Period(i) = 0

\* Mutant: the table is not sorted.
AnyOrder(order) == TRUE
\* qsort with period_compare leaves the order of equal periods open.
SortedByPeriod(order) ==
  \A k, l \in DOMAIN order : k < l => Period(order[k]) <= Period(order[l])

Init ==
  /\ policy \in Policies
  /\ config \in Configs
  /\ hyper = get_lcm_from_array([i \in Tasks |-> Period(i)])
  /\ runtime \in Bijection(Tasks, Tasks)
  /\ IF policy = "rm" THEN SortedByPeriod(runtime)
                      ELSE runtime = [k \in Tasks |-> k]
  /\ slot = 0 /\ run = TRUE
  /\ timeLeft = [i \in Tasks |-> IF policy = "llf" THEN 0 ELSE Execution(i)]
  /\ completed = [i \in Tasks |-> FALSE]
  /\ laxities = [i \in Tasks |-> 0]
  /\ running \in IF policy = "edf" THEN Tasks \cup {None} \* next_task is not set
                                   ELSE {None}
  /\ ts = [s \in 0 .. hyper |-> None]
  /\ misses = {} /\ missIdx = None

-----------------------------------------------------------------------------
(* Rate monotonic and earliest deadline first                              *)

Due == {i \in Tasks : slot # 0 /\ Deadline(i, slot)}
Missed == {i \in Due : timeLeft[i] # 0}
Released == Due \ Missed

\* time_left after the releases of this slot.
LeftAtStart == [i \in Tasks |-> IF i \in Released THEN Execution(i) ELSE timeLeft[i]]

Spend(left, i) == IF i = None THEN left ELSE [left EXCEPT ![i] = @ - 1]

RecordMisses(missed) ==
  /\ misses' = missed
  /\ missIdx' = IF missed = {} THEN missIdx ELSE slot
  /\ run' = (missed = {})

RmRuns(i, left) ==
  /\ timeLeft' = Spend(left, i)
  /\ running' = IF i # None /\ timeLeft'[i] # 0 THEN i ELSE None
  /\ ts' = [ts EXCEPT ![slot] = i]
  /\ slot' = slot + 1
  /\ UNCHANGED <<input, completed, laxities>>

RmFirstSlot ==
  /\ policy = "rm" /\ slot = 0
  /\ RmRuns(runtime[0], timeLeft)
  /\ UNCHANGED <<run, misses, missIdx>>

\* The index in runtime of the task that runs, or the last one.
IndexOf(i) == IF i = None THEN Cardinality(Tasks) - 1
                          ELSE CHOOSE k \in Tasks : runtime[k] = i

\* Mutant: the task that runs goes on without a look at what it has left.
CurrentOrHighest(left) ==
  IF running # None THEN running ELSE runtime[0]

\* check_highest_priority
check_highest_priority(left) ==
  LET unfinished == {k \in 0 .. IndexOf(running) : left[runtime[k]] # 0}
  IN  IF unfinished = {} THEN None ELSE runtime[Min(unfinished)]

RmSlot ==
  /\ policy = "rm" /\ run /\ slot \in 1 .. hyper
  /\ RecordMisses(Missed)
  /\ RmRuns(check_highest_priority(LeftAtStart), LeftAtStart)

\* The tasks with work left that are due in the first later slot in which one
\* is.
DueFirst(complete) ==
  LET due(s) == {i \in Tasks : Deadline(i, s) /\ ~complete[i]}
      slots == {s \in slot + 1 .. hyper : due(s) # {}}
  IN  IF slots = {} THEN {} ELSE due(Min(slots))

\* Mutant: the last of them, whatever ran before.
LastDue(due) == IF due = {} THEN None ELSE Max(due)
\* get_task_closest_deadline: the last of them, or next_task if it is one.
get_task_closest_deadline(due) ==
  CASE due = {} -> None
    [] running \in due -> running
    [] due # {} /\ running \notin due -> Max(due)

EdfSlot ==
  /\ policy = "edf" /\ run /\ slot \in 0 .. hyper
  /\ RecordMisses(Missed)
  /\ LET complete == [i \in Tasks |-> completed[i] /\ i \notin Released]
         i == get_task_closest_deadline(DueFirst(complete))
     IN  /\ timeLeft' = Spend(LeftAtStart, i)
         /\ completed' = [j \in Tasks |-> complete[j] \/ (j = i /\ timeLeft'[j] = 0)]
         /\ running' = i
         /\ ts' = [ts EXCEPT ![slot] = i]
  /\ slot' = slot + 1
  /\ UNCHANGED <<input, laxities>>

-----------------------------------------------------------------------------
(* Least laxity first                                                      *)

\* Mutant: the table of deadlines alone, without the extra loop.
LlfDueInTable(i) == slot < hyper /\ Deadline(i, slot)
LlfDue(i) == slot = hyper \/ Deadline(i, slot)

\* Mutant: the laxity of the task that runs decreases as well.
AllLaxitiesAfter(lax, left, i) ==
  [j \in Tasks |-> IF left[j] = 0 THEN INT_MAX ELSE lax[j] - 1]
LaxitiesAfter(lax, left, i) ==
  [j \in Tasks |-> IF left[j] = 0 THEN INT_MAX
                   ELSE IF j = i THEN lax[j] ELSE lax[j] - 1]

\* The first of the tasks with the smallest laxity below INT_MAX.
LeastLaxTask(lax) ==
  LET least == {i \in Tasks : /\ lax[i] < INT_MAX
                              /\ \A j \in Tasks : lax[i] <= lax[j]}
  IN  IF least = {} THEN None ELSE Min(least)

LlfSlot ==
  /\ policy = "llf" /\ run /\ slot \in 0 .. hyper
  /\ LET due == {i \in Tasks : LlfDue(i)}
         missed == {i \in due : timeLeft[i] # 0}
         left == [i \in Tasks |-> IF i \in due THEN Execution(i) ELSE timeLeft[i]]
         lax == [i \in Tasks |-> IF i \in due THEN Period(i) - Execution(i)
                                              ELSE laxities[i]]
         i == LeastLaxTask(lax)
     IN  /\ RecordMisses(missed)
         /\ IF missed # {} \/ slot = hyper
              THEN /\ timeLeft' = left /\ laxities' = lax
                   /\ UNCHANGED <<running, ts>>
              ELSE /\ timeLeft' = Spend(left, i)
                   /\ laxities' = LaxitiesAfter(lax, timeLeft', i)
                   /\ running' = i
                   /\ ts' = [ts EXCEPT ![slot] = i]
  /\ slot' = slot + 1
  /\ UNCHANGED <<input, completed>>

Next == RmFirstSlot \/ RmSlot \/ EdfSlot \/ LlfSlot

\* A simulator is a sequential loop: it goes on to its end.
Spec == Init /\ [][Next]_vars /\ WF_vars(Next)

-----------------------------------------------------------------------------
(* schedulability.c.  mu is a float, a sum of rounded quotients, and so is *)
(* the bound that it is compared with.  How they round is left open: a     *)
(* test has the set of the answers that it may give, TRUE if it approves.  *)
(* The exact mu is Demand / hyper; in the unit 1 / One the float mu is     *)
(* between MuLow and MuHigh.                                               *)

Demand == MapThenSumSet(LAMBDA i : Execution(i) * (hyper \div Period(i)), Tasks)

\* pow
Power(base, n) ==
  LET p[k \in 0 .. n] == IF k = 0 THEN 1 ELSE base * p[k - 1]
  IN  p[n]

One == hyper * Precision
MuLow == (Precision - 1) * Demand
MuHigh == (Precision + 1) * Demand

\* mu <= n * (2^(1/n) - 1), that is (mu + n)^n <= 2 * n^n.
testability_rm ==
  LET n == Cardinality(Tasks)
  IN  {approved \in BOOLEAN :
         IF approved THEN Power(MuLow + n * One, n) <= 2 * Power(n * One, n)
                     ELSE Power(MuHigh + n * One, n) > 2 * Power(n * One, n)}
\* mu <= 1 + EPSILON
testability_edf_llf ==
  {approved \in BOOLEAN : IF approved THEN MuLow <= One + hyper
                                      ELSE MuHigh > One + hyper}

-----------------------------------------------------------------------------
Over == ~run \/ slot > hyper

TypeOK ==
  /\ policy \in Policies
  /\ config \in Configs
  /\ hyper \in Nat \ {0} /\ \A i \in Tasks : hyper % Period(i) = 0
  /\ runtime \in Bijection(Tasks, Tasks)
  /\ slot \in 0 .. hyper + 1 /\ run \in BOOLEAN
  /\ timeLeft \in [Tasks -> Nat] /\ \A i \in Tasks : timeLeft[i] <= Execution(i)
  /\ completed \in [Tasks -> BOOLEAN] /\ laxities \in [Tasks -> Int]
  /\ running \in Tasks \cup {None}
  /\ ts \in [0 .. hyper -> Tasks \cup {None}]
  /\ misses \subseteq Tasks /\ missIdx \in {None} \cup 0 .. hyper
  /\ misses = {} <=> missIdx = None

\* The deadline of task i's current job, seen before the releases of the slot.
NextDeadline(i) ==
  IF slot % Period(i) = 0 THEN slot ELSE slot - (slot % Period(i)) + Period(i)

(* The values a simulator carries from slot to slot instead of computing   *)
(* them anew: in llf the laxity, decreased slot by slot, is the time to    *)
(* the deadline less the work left; in edf deadline_completed says whether *)
(* there is work left.                                                     *)
CachesExact ==
  ~Over =>
    /\ policy = "llf" /\ slot > 0 =>
         \A i \in Tasks :
           laxities[i] = IF timeLeft[i] = 0 THEN INT_MAX
                                            ELSE NextDeadline(i) - slot - timeLeft[i]
    /\ policy = "edf" => \A i \in Tasks : completed[i] <=> timeLeft[i] = 0

\* The deadline of the job of task i after the releases of the slot.
DueAt(i) == slot - (slot % Period(i)) + Period(i)

(* edf stays with the task that runs as long as no deadline is closer than *)
(* its own ("prefer current task", simulation.c:81).                       *)
KeepsCurrent ==
  [][policy = "edf" /\ slot > 0 /\ running # None /\ timeLeft[running] # 0
     /\ running \notin Missed =>
       \/ running' = running
       \/ DueAt(running') < DueAt(running)]_vars

(* The simulation bears out the test printed before it, however it rounds: *)
(* a set that testability_rm approves meets its deadlines under rm; edf    *)
(* and llf meet those of exactly the sets that testability_edf_llf cannot  *)
(* reject.  A set that needs more than the processor may be approved only  *)
(* if it has a hyperperiod too long for EPSILON to tell it from one that   *)
(* does not.                                                               *)
SimulationAgreesWithTest ==
  Over =>
    /\ policy = "rm" /\ TRUE \in testability_rm => misses = {}
    /\ policy \in {"edf", "llf"} =>
         /\ misses = {} <=> testability_edf_llf = {TRUE}
         /\ 2 * hyper < Precision - 1 /\ TRUE \in testability_edf_llf => misses = {}

\* The slots before the end or the first miss.
ShownSlots == IF missIdx # None THEN missIdx ELSE Min({slot, hyper})

Schedule == INSTANCE PeriodicTasks WITH
  chart <- [s \in 1 .. ShownSlots |-> ts[s - 1]],
  late <- misses,
  over <- Over

(* The three simulators draw the schedule of their policy: every slot goes *)
(* to a most urgent task with work left, a deadline is reported missed in  *)
(* the first slot where one is, and the loop comes to its end.             *)
ImplementsSchedule == Schedule!Spec
=============================================================================
