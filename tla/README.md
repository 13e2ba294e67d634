# TLA+ verification of CPU-Scheduler-Vis

The repository holds the programs of an operating systems course. Four of them have
logic worth verifying, and they have nothing in common but the repository:

* **project_2**: producers, consumers, a finalizer and a creator, separate processes that
  share a circular buffer in mapped memory and named POSIX semaphores;
* **project_1**: user-level threads under a lottery scheduler, in one process, built from
  `sigsetjmp`, `siglongjmp` and the signal `SIGVTALRM`, under a GTK window;
* **project_3**: simulators of three real-time scheduling policies, the schedulability tests
  that go with them, and the charts drawn from them;
* **homework_1**: a tracer that counts and prints the system calls of a command.

Paths below are relative to `src/src/`.

## 1. Inventory

### project_2: shared buffer

| Part | State | Operations | Correct when |
|---|---|---|---|
| `sync/cbuffer.c` | slots with a flag `valid`, `head`, `tail`, `count` | `put_msg`, `get_msg` | it is a bounded queue, and the slots marked valid are the unread ones |
| `sync/events.c` | one `event_t` in shared memory, the semaphores `sem_send`, `sem_recv`, `sem_read` | `send_event`, `wait_event`, `event_continue` | each event reaches the creator once, none is overwritten, every call returns |
| `sync/sync.c` | `is_halted`, `n_prod`, `n_cons`, the semaphores of the buffer and of the shutdown | `connect_shr_mem`, `write_buff_msg`, `read_buff_msg`, `disconnect_shr_mem`, `finalize` | the counters and the semaphore units are exact, the halt stops everybody in order, nobody waits for ever |
| how a session begins (`sync.c`, `events.c`) | the mapped file, the names of the semaphores | `init_shr_mem`, `connect_shr_mem` | who connects finds the memory and the semaphores of one session, and a new session does not depend on the old one |
| the window of the creator (`creator/main.c`, `creator/ui.c`) | its copy of the event and of the slots, the queue of callbacks, labels and text view | `windows_start_show`, `gtk_set_buffer_view`, `gtk_update_ui_labels` | what is shown is what is in the buffer, once things are at rest |
| `producer`, `consumer`, `finalizer`, `creator` | local | loops around the operations above; the creator receives and shows one event per access | they leave when told to |

The processes interact only through the mapped memory and the semaphores. Hard here: any
interleaving of any number of processes; writers that do not take the mutex of the buffer,
so that `count++` and `head = ...` race; a semaphore with two names; a process that reads a
flag or a counter and acts on it after it changed; a shutdown that must wake processes
blocked on a full or an empty buffer; a client that connects while the creator is still
making the session, or that is left from the session before; events that overtake each
other on their way from the buffer to the window.

### project_1: lottery scheduler

| Part | State | Operations | Correct when |
|---|---|---|---|
| `scheduler.c` | table of threads, counters, `current_thread`, `first_state`, `running`, `re_enter`, timer and signal mask | `create_thread`, `start_scheduler`, `schedule`, `get_next_thread`, `timer_isr`, `yield_cpu`, `finish_thread` | every ticket has one owner, only the selected thread runs, the state saved for a thread is its own, a run ends |
| `s_control.c` | the operation mode, the slots for pi | `create_pi_threads`, `run_scheduler` | the loop ends with its run |
| `main.c` | `is_running` | start and stop button | a start begins from a clean state |
| `pi_approximator.c` | the sum of the series | `run_pi_task` | it yields or is interrupted, and ends |
| `ui.c`, `ui_grid.c`, `console.c` | widgets | display, input | not modelled |

`run_scheduler` calls `start_scheduler` again and again; between two calls it processes GTK
events, and those may call `run_scheduler` once more. Hard here: the timer at every
instruction; which context a jump buffer holds; the order of blocking, unblocking and
removing the handler; runs nested in runs, with another mode.

### project_3: real-time simulations

| Part | State | Operations | Correct when |
|---|---|---|---|
| `simulation.c` | time left per task, `deadline_completed`, laxities, the array of time slots | `simulate_rm`, `simulate_edf`, `simulate_llf` | the chart is a schedule of the policy and reports the first missed deadline |
| `schedulability.c` | none | the tests for RM and for EDF and LLF | they agree with the simulation |
| `ttables/ttables.c` | position in the table | `write_ttable_slides`, `create_ts_blocks`, `append_deadlines`, `append_misses` | the pages together are the simulated schedule, and a miss is marked where it is |
| `latex.c`, `gui.c` | files, widgets | output, input | not modelled, except for the inputs `valid_config` admits and the order in `gen_execution_tables` |

Hard here: the boundaries at the end of the hyperperiod, values carried from slot to slot,
ties, a variable read before it is set, and the edges of the pages.

### homework_1: system call tracer

| Part | State | Operations | Correct when |
|---|---|---|---|
| `systrace.c` | the mode, the counters, the registers it read | `read_parameters`, `start_tracing`, `set_tracepoint`, `print_verbose` | the command gets its own arguments, each call is counted once and printed with its own result, the tracer ends |
| `syscall_table.h` | names in the order of their numbers | `get_syscall_name` | a call has its name |

Hard here: the stop at the entry of a call and the one at its exit look alike; signals and
`execve` add stops of their own; a child can end in more ways than one.

### The rest

`homework_2`, `tareas` and `proyectos` hold recorded output, exercises without state, an earlier
version of the tracer and stubs; they are not modelled.

## 2. Modules

| Module | Models | Kind |
|---|---|---|
| `MessageQueue` | what a circular buffer promises | abstract |
| `CBuffer` | `cbuffer.c`, one caller at a time | implements `MessageQueue` |
| `CreatorWindow` | the thread and the main loop of the creator, and the clients, whose accesses overlap | uses the buffer of `CBuffer`, not its steps |
| `EventDelivery` | what the event channel promises: a rendezvous | abstract |
| `EventChannel` | `events.c`, one semaphore operation or access at a time | implements `EventDelivery` |
| `SharedBuffer` | `sync.c` with the four programs, one access at a time | uses the rendezvous of `EventDelivery` |
| `Session` | `init_shr_mem` and `connect_shr_mem`, over several sessions | detailed |
| `LotteryScheduler` | `scheduler.c`, `s_control.c` and the callbacks of `main.c` | detailed |
| `PeriodicTasks` | the schedule a simulation promises | abstract |
| `Simulation` | `simulation.c` and `schedulability.c` | implements `PeriodicTasks` |
| `TimeTables` | `ttables.c` and `gen_execution_tables` | extends `Simulation` |
| `Systrace` | `systrace.c`, with the kernel and the command as its environment | detailed |
| `*_proofs` | theorems about the module of that name; `CreatorWindow_proofs` also about `CBuffer`, `Simulation_proofs` also about `TimeTables` | proofs |
| `Schedulability_proofs` | theorems about the tests of `schedulability.c` in `Simulation` | proofs |
| `MC*` | instances for TLC, one cfg per question | model checking |

An operator whose comment says "Mutant" is a plausible bug of the operation next to it. No
specification uses it; it documents which mistake each property detects.

### How state and actions correspond to the code

**CBuffer.** `put_msg` and `get_msg` are one action each, with the tests for full and empty;
`Shown` is the set of slots the window draws. This is what the functions promise to one caller at a
time. The clients do not call them so: `SharedBuffer` and `CreatorWindow` have each load and store.

**CreatorWindow.** A writer waits for no mutex (`sync.c:493`), so `put_msg` and `get_msg` are here one
load or store at a time (`TestFull` to `StoreCount`), and any number of them interleave. Then the
event is built (`LoadEntry`, `LoadExit`), received (`Receive`), the slots are copied one by one (`CopySlot`),
queued as callbacks and drawn, each a step. A sender waits from `sending` to `event_continue`, as
`EventDelivery` has it. The shutdown is `SharedBuffer`'s: here a client leaves in one step, with the
units of `buff_free` that `finalize` may have posted for it and that it may have kept.

**Session.** The file, its size and its contents, and which semaphore a name stands for, are state
that outlives the processes; a semaphore is known by the session that created it. `creator` and
`pc[c]` are the positions in `init_shr_mem` and `connect_shr_mem`; a step is one system call or
access. The semaphores are the two mutexes that a client uses to connect, and `sem_send` of the events. A client is killed while it holds `halt_mut`, or simply does nothing more.

**EventChannel.** `pc[s]` is the line sender `s` has reached in `send_event`. `sem_read` is
opened with the name of `sem_send` (`events.c:35`, `45`), so there is one variable for both.

**SharedBuffer.** `pc[p]` is where process `p` is. Each load, each store and each semaphore
operation is an action, so `count++` is `LoadCount` and `StoreCount`. Sections of `halt_mut`
and `proc_counter_mut` hold a single access and are one step; posts in a row are one step.
The call of `send_event` is one step in which the event is delivered, as `EventDelivery`
allows and `EventChannel` implements.

**LotteryScheduler.** `pc` is where the processor is, in the main context or in the current
thread, and `resume[i]` is the place saved in the jump buffer of thread `i`. A stretch of code
in which the timer is off or the signal is blocked is one step. `frames` is the stack of the
calls of `run_scheduler`: one entry per nested run. A thread's function is a number of slices
that the timer or `yield_cpu` ends.

**Simulation.** A step is one turn of a simulator's loop, with everything in it: releases,
detection of misses, selection, update. The three policies share the variables and have an
action each. Orders that `qsort` may choose, and `next_task` before it is set, are
nondeterministic. So is the rounding in the schedulability tests: the float `mu` is anything between
`MuLow` and `MuHigh`, a part in `Precision` below and above the exact sum, and `testability_rm` and
`testability_edf_llf` are the sets of the answers that are possible then.

**TimeTables.** When the simulation is over, a step writes a page. A page is what LaTeX is told to
draw: the bars, the deadlines and the rules for a miss, computed as the loops of `ttables.c` do.

**Systrace.** `tracer` is where the tracer is between two calls of `ptrace` or `waitpid`, `child` is
what the kernel does with the command. Calls, signals, faults and SIGKILL are the environment's, and
a resumed child runs to its next stop.

## 3. Runs

| Run | Instance | Shows |
|---|---|---|
| `event_channel` | 3 senders, 2 events each; 21,224 states | one token in two semaphores, no event overwritten, the rendezvous is implemented, calls return, the last event ends the creator |
| `cbuffer` | 3 slots, 2 messages; 232 states | with one caller at a time, a queue, and the slots shown are the unread ones |
| `creator_window` | 2 producers, 1 consumer and the finalizer, 2 slots, 3 accesses; 1,192,002 states | the window is the buffer as it is at rest, and right after the last event |
| `session` | sessions with 1 and then 2 slots, 2 clients, one of them a finalizer; 812,254 states | what a client finds, when the file is too small, a restart is not held up |
| `shared_buffer` | 2 producers, 2 consumers, 1 slot; 649,632 states | units conserved, counters exact, no lost wakeup |
| `shared_buffer_stop` | 2 producers, 1 consumer, 2 slots; 470,883 states | producers can wake and do leave, the order of the shutdown, silence after the last event |
| `shared_buffer_late` | 1 producer, 1 consumer, 1 slot | **violated**: a process registers after the halt |
| `shared_buffer_ends` | 1 producer, 1 consumer, 1 slot, the halt before the first write | **violated**: `finalize` may wait for ever, with the buffer empty |
| `lottery` | 3 threads, 0 or 2 tickets each, both modes, 2 starts; 321,116 states | owners of tickets, who runs, what is saved, signals, end of a run |
| `lottery_ends` | 2 threads, preemptive, 1 start | **violated**: a run may not end |
| `simulation` | all sets of 1 to 3 tasks with periods up to 4, pages of 4 slots; 37,993 states | the chart is a schedule of the policy and agrees with the tests, the pages show it and its miss |
| `systrace` | up to 3 arguments, 2 calls before the last one, 2 signals; 581,702 states | the arguments, the counters, the lines, the end |

### Why these bounds

* Three senders are a producer, a consumer and the finalizer; with two events each a sender
  can be waiting to begin while another waits for its acknowledgement. The alias of
  `sem_read` matters only then.
* Two producers and two consumers on one slot is the smallest instance in which two processes
  of a kind leave at the same time, two writers race, and the buffer is both full and empty
  under contention. `MaxWrites` bounds the writes of a producer *before* the halt; the halt
  may come after any of them. Processes of a kind are interchangeable, so the run without
  liveness uses symmetry. `shared_buffer_stop` checks liveness and uses none.
* Three threads let one be lost, one be without tickets and one go on. Two starts give one
  nested run, in the same or in the other mode. One slice lets a thread be interrupted once
  and then finish, which covers every label the timer can hit.
* The hyperperiods for periods 1 to 4 go up to 12 slots; sets under, at and over full
  utilization occur for each number of tasks. With pages of 4 slots there are up to three, the
  last one full or not, and misses inside a page, at the edge of two and after the last slot.
* `cbuffer`: three slots make the buffer full, empty and wrap around with every number of unread
  messages at every place; two messages tell neighbours apart.
* `creator_window`: two producers race on two slots, so that a slot is stored twice or an update of
  `tail` or `count` is lost, with a consumer in between. Three accesses are enough for three events to
  be built and received in any order while the slots are copied and callbacks wait; one of
  them may be the HALT of the finalizer.
* `shared_buffer_ends` has `MaxWrites` = 0 for the shortest of the behaviours it is about: the halt
  comes before the first message.
* `Precision` is 16 in `simulation`, so that the tests round far more coarsely than the code's floats
  and all their answers occur: with a hyperperiod of 12 a set that needs a slot too many may be approved, with
  a shorter one it may not. For the code it is 2^20: ten tasks (`MAX_TASKS`) take some ten roundings
  to 24 bits, and the float `1.0 + EPSILON` is 1 + 2^-20. `PrecisionAssumption` asks that periods are
  smaller; they are at most 1000 (`MAX_PERIOD`).
* Two sessions, the second with the larger buffer, are the least for a file to be too small. Each
  client may be anywhere in `connect_shr_mem` when either creator is anywhere in `init_shr_mem`.
* Three arguments are enough for an option before, between and behind words, and for both options.
  Two calls and the exit give a call after a failed `execve`, or after one that succeeded; the
  numbers include one before, one after and the ones at the edge of the gap of the table.

Three choices about the environment are constants:

* `StartsOverlapHalt`: may a process be starting while the halt is raised? `shared_buffer`
  says yes, `shared_buffer_stop` no. With yes, `StopsInOrder` and `QuietAfterLast` are
  violated as well, and with three producers and one slot `EveryProducerCanWake`: they follow from the
  late registration that `shared_buffer_late` shows.
* `TickBeforeJump`: may a quantum end between `start_timer` and the `siglongjmp` in the next
  line (`scheduler.c:206-207`, `238-239`)? The runs say no, since the shortest quantum is a
  millisecond of CPU time. If it may, `SavedByOwner` is violated: the main context is saved
  as the state of the thread just selected.
* `Tickets`: the window lets the user enter 0, so 0 is among them in `lottery`.

### What the violated properties say

1. `sync.c:411` says that no process is accepted after the halt; the test of the flag and the
   registration are two critical sections.
2. `sync.c:596-607` lists the steps of `finalize` up to the last event. A halted producer drops
   the unit of `buff_free` it took (`sync.c:489-491`). If it leaves before `finalize` reads
   `n_prod`, nobody compensates. In the trace the buffer is empty: the producer took the only unit and
   dropped it, `finalize` waits for it to write its HALT, and the consumer waits for that HALT.
3. `scheduler.h:11` promises that a run lasts until the last task completes. A quantum that ends
   between the two statements of `finish_thread` (`scheduler.c:292-293`) leaves the counter too
   high, and `get_next_thread` draws for ever. `EndsUnlessLost` shows that this, and a thread
   without tickets, are the only ways for a run not to end.

These do not have a run, as the models show them on the way or leave them out:

* `sync.c:302` requires the mutex of the buffer for `build_rw_event`, and `project_2/README.md:6` says
  that one program at a time is in the buffer. `write_buff_msg` tests a wait for the mutex that is not
  there (`sync.c:493`) and posts it all the same, so that it excludes not even readers. Every
  run of `SharedBuffer` and `CreatorWindow` has these races; `TypeOK`, `UnitsConserved` and
  `ShowsBufferAtRest` say what they leave intact.
* `sync.c:672` announces a HALT for each remaining consumer. A producer that is counted in `n_prod`, but
  leaves by the test of its own loop, does not take the unit of `buff_free` that `finalize` posts for it;
  `finalize` takes it while the buffer is full, `put_msg` fails, nobody looks at its result
  (`sync.c:500`), and the HALT is lost although `buff_used` is posted for it (`TestFull` in `SharedBuffer`).
* `events.c:77` suggests that one sender at a time is between its wait and its release of `sem_send`.
  `sem_read` has the same name, and an acknowledgement may admit another sender. The channel works
  all the same (`event_channel`): the token is never duplicated.
* `project_1/README.md:27` says that *Reiniciar* cleans up. It only resets a flag, so the next start
  adds its threads to a run that is still going on (`OnStart` and `OnStop` in `LotteryScheduler`).
* `write_halt(false)` at the end of `init_shr_mem` erases a halt that a quick finalizer has raised
  (`WriteHaltFalse` and `RaiseHalt` in `Session`).
* A client of an earlier session can shrink the file under a running creator; `ShrunkOnlyByStale` says
  that this is the only way.
* `systrace.h` says that without an option `print_verbose` does nothing; it counts, and must. The
  options `-v` and `-V` are taken from the command as well (`ArgumentsKept`). From call 335 on
  `get_syscall_name` gives another call's name, or reads behind the table, since the table is in order
  but its numbers are not consecutive (`IsLineOf` is limited to the calls before the gap).

### Fairness

* `EventChannel!FairSpec`: weak fairness for the creator and for each sender inside
  `send_event`. Building the next event is not fair: a process need not send again. Nothing is
  assumed about which waiter a semaphore wakes. With the bound on the events of a sender, weak
  fairness is enough; without it a waiter could be passed over for ever by senders that
  come back, which POSIX semaphores allow.
* `SharedBuffer!FairSpec`: weak fairness for every process that has started. Starting a process,
  and raising the halt, are the user's choice and are not fair.
* `LotteryScheduler!FairSpec`: weak fairness for the program as a whole: a processor executes
  the next instruction, and a timer that is armed expires while the processor only waits. The
  user's clicks are not fair. That a draw finds a thread when one owns a ticket is a property
  of `rand`, and the step of `GetNextThread`.
* `TimeTables!TablesSpec`, `PeriodicTasks!Spec`: a sequential loop goes on.
* `CreatorWindow!WindowSpec`: weak fairness for the creator's thread and for its main loop. A client
  need not go on with an access, nor begin one, and the finalizer need not send the last event.
* `Session!FairSpec`: weak fairness for the creator once it was started, for each client inside
  `connect_shr_mem`, and for a finalizer inside `write_halt`. Starting, closing, killing and raising the
  halt are the user's choice. No assumption is needed about who gets a mutex.
* `Systrace!FairSpec`: weak fairness for the tracer and for the child, as the kernel schedules both.
  The key that the user presses and signals from elsewhere are not fair.

`CHECK_DEADLOCK FALSE` is set wherever the system may stop: senders run out of events, processes
leave, the user clicks no more, a simulation is over, the last
event was shown, the traced command has ended.

## 4. Proofs

The theorems hold for every value of the constants that satisfies the assumptions named in the
modules, which TLC evaluates in every run. A few have a hypothesis of their own, which says
something about the program:

| Assumption on constants | Where it comes from |
|---|---|
| `WritersAssumption`: the writers are among the messages | a message has the pid of its writer (`sync.c`, `producer/main.c`), and nothing else of it matters to the window |
| `FinalizerAssumption`: producers, consumers and the finalizer are different processes | each is a program of its own |
| `PrecisionAssumption`: periods are less than `Precision` - 1 | see the bounds above |

| Theorem | Hypothesis | Why |
|---|---|---|
| `StoppedInOrder`, `ProducersCanWake`, `QuietAfterTheLast` | `~StartsOverlapHalt` | if it may overlap, TLC refutes each of them: a late process registers after the counters were read. `EveryProducerCanWake` takes three producers and one slot |
| `PlacesAreOwn` | `~TickBeforeJump` | otherwise TLC refutes the property: the main context is saved as a thread's |
| `DrawsTheSchedule`, `MissIsShown`, `TestsAreRight` | `Periods \subseteq 1 .. INT_MAX` | periods are ints; llf marks a finished task with the laxity `INT_MAX` |

**CreatorWindow_proofs** (any size, any sets of messages and clients).

1. *`CBuffer`.* The inductive invariant adds to `TypeOK` that `tail` is `count` places after `head`
   and that exactly the slots in between are valid (`WindowInv`). `WrapAround` removes the division
   from the index. From it follow `ShowsTheUnread` and the refinement `RefinesQueue`.
2. *The window.* Nothing is assumed about how accesses overlap, so nothing of `WindowInv` is left:
   `SharedTypes` knows only that the indices are inside the buffer. What does hold is that each
   store is followed by an event of the process that made it, whose copy of the slots comes later.
   `Accessing` are the processes that have yet to send that event, `UnderWay` those that wait for
   its copy as well. `CopyInv`: while no process is `Accessing`, the slots copied so far are those of the
   buffer. `NewestInv`: while none is `UnderWay`, the newest copy that waits in the queue of
   callbacks, or else the text on the screen, is the buffer as it is. `WindowIsRight` follows at
   rest.

**EventChannel_proofs** (any set of senders, any number of events). `OneToken` alone is not
inductive: the acknowledgement is taken by whoever waits for it. `EventInv` says that an unread
event is the one of a sender that waits, `LogInv` that the creator goes on only until the last
event. From their conjunction follow `TokenIsUnique`, `NothingOverwritten` and the refinement
`RefinesDelivery`, for the safety and the step relation that `EventDelivery!Spec` states.

**SharedBuffer_proofs** (any finite sets of producers and consumers, any size). Four layers, each
using the ones before; the first three hold for both values of `StartsOverlapHalt`:

1. `IInv`: types, and `CountersExact`: each step moves at most one process into or out of
   `Alive`.
2. `WakeInv`: what `finalize` knows at each of its labels, and `NoLostWakeup`. A process leaves
   by decrementing, testing the flag and reading the counter; `finalize` sets the flag and then
   reads the counter. In each interleaving one of them sees the other.
3. `UnitsConserved`: a unit moves between `buff_free`, a process and `buff_used`; the lemmas about
   `InUse` and `Leaving` change their cardinalities by one.
4. `StopInv`: nobody registers any more once the halt is raised. `LeaveInv` says that whoever posts
   that the producers, or the consumers, are gone has seen a counter of zero, which stays at zero;
   `WaitingInv` that the producers blocked on `buff_free` are among those that `finalize` counted and
   posts for. `StopsInOrder`, `EveryProducerCanWake` and `QuietAfterLast` follow.

**Session_proofs** (any number of sessions and clients, any sizes). A client may have opened the
file, or a semaphore, of an earlier session. `MutexInv` says why it does no harm: a process that
holds the first mutex of the running session could only get it after the memory was reset and the
semaphore of events was made anew (`Made`). `PhaseInv` says what the creator has done by each phase,
`MemoryInv` what the memory and the copies of its size hold from the reset on. `AttachedIsUpToDate`
is a part of the invariant, and `ShrunkOnlyByStale` follows.

**LotteryScheduler_proofs** (any number of threads, tickets and starts; both values of
`TickBeforeJump`, but for `PlacesAreOwn`). `TypeOK` is not inductive by itself either: that
`num_active` is never negative takes `ActiveExact`, and that a nested `run_scheduler` has a frame to
return to takes `ControlInv`. `SignalInv` says that the handler is installed exactly while a
preemptive run goes on, and at which places the timer is armed and the signal blocked or pending;
`CurrentInv` which thread is the current one at each place and what its status says, the status
`running` being that thread's alone; `SavedInv` where a thread may have been interrupted. They are one
invariant, since a signal moves control from any place of a thread into `schedule`.
`DrawFinds` follows from `TicketInv` with a lemma that the ranges of the unfinished threads are
not all empty.

**Systrace_proofs** (any command line, any calls and signals). The tracer does not know on which side
of a call its child has stopped; `LockStep` and `SideInv` say that, as long as the child is not
killed, its flag `in_verbose` agrees with the child at each place of the two. `CallInv` says what the
registers and the copies of them have to do with the last call, `LinesInv` how many lines there are
by then. `CountsExact` and `LinesAreCalls` are part of the invariant. The command line is read by a
loop that writes into the array that it reads; `ReadInv` says what the array holds after `i` turns:
the arguments kept so far in front, and the part from `i` on untouched. The induction over the turns
uses that each non-empty set of numbers has a least element.

**Simulation_proofs** (any set of tasks, any periods, execution times and page sizes). Both
`Simulation` and `TimeTables` are here.

1. *Recursive functions.* The fold of `lcm` and the loop of `create_ts_blocks` are functions that
   satisfy a recursive equation. That one exists is shown by adding one argument at a time; what it
   computes, by induction over a set of numbers (`Induct`, from the well-ordering of the
   naturals). The hyperperiod is a positive multiple of each period.
2. `SimIInv`: the simulation goes on exactly until a miss, and the values that edf and llf keep from
   slot to slot are the ones that a new computation would give. `CachesExact` follows, and
   `KeepsCurrent`: edf leaves an unfinished task only for a deadline that is closer.
3. *The refinement.* `WorkInv` relates the program's state to the chart it draws: the work left of a
   task is its execution time less the slots that the chart shows since its last release. From
   it, what each of the three policies chooses is a most urgent task (`MostUrgent` of `PeriodicTasks`),
   and what it marks as missed is exactly what is late there. `DrawsTheSchedule` is `ImplementsSchedule`
   without the fairness.
4. *The slides.* `BarsRight` is the invariant of the loop that merges slots into bars; `PagesInv`
   says that the pages so far follow on each other. `SlidesAreTheSchedule` follows. `HistoryInv`
   says that the recorded miss is the first slot in which the schedule falls short; with `RulesInv`
   it gives `MissIsShown`.

**Schedulability_proofs** (any set of tasks, any execution times, any order of ties, any rounding
within `Precision`). `TestsAreRight` is `SimulationAgreesWithTest` for every configuration: the tests of
`schedulability.c`, which look at the utilization alone, against the three loops of `simulation.c`. A
set that the test of rm may approve misses no deadline; the test is sufficient, as it is in theory.
The charts of edf and llf miss none exactly if the processor is enough (`Feasible`), and those are the sets
that their test approves however it rounds. It may approve others, and `EPSILON` makes it do so, but
only with a hyperperiod of half of `Precision` or more. The inductive invariant `TestInv` is `RefineInv`
with the four parts below.

1. *Sums.* `Demand` is a sum over the tasks by `MapThenSumSet`. `SumFacts` shows that such a sum does
   not depend on the order of its terms, and the lemmas on `Total` follow by induction over the subsets
   of a finite set (`SetInduct`). If the set is `Feasible`, the work of all jobs that fit
   into any `d` slots is at most `d` (`WorkFits`).
2. *edf and llf meet the deadlines of feasible sets* (`FitsInv`). `Owed(d)` is what is left of the work due by slot `d`; the
   invariant says that for every later slot `d` it fits into the slots from now to `d`. A slot given to
   a task keeps this: if the task is due by `d`, both sides decrease; if not, or if the slot stays
   idle, there must be a slot to spare before `d` (`MostUrgentFits`). Under edf nothing that is due by `d`
   has work left then, and `WorkFits` counts the rest (`IdleFits`). Under llf something may be left; but
   the task chosen has no more laxity than it, and must fit before its own deadline as well
   (`LaxityFits`). A miss would be work owed with no slot left.
3. *edf and llf miss one of the others* (`DoneInv`). Without a miss, the work of the jobs that are over and what
   was done of the others is never more than the slots so far. At the end of the hyperperiod it is
   `Demand`.
4. *rm*. `BusyInv` says that for each task there was a slot since which it and the tasks that rm may
   prefer to it had every slot, and have asked for more all the time (`Asked`, `Served`). When the task
   misses its deadline, this window has a part as long as its period, in every beginning of which more is
   asked for than there are slots (`MissIsLate`).
5. *The bound of Liu and Layland* (`LiuLayland`). In that part a task asks at most once more than its
   period fits into it; at the last of these releases the window is still full. So the demand of
   all tasks, with once more that of the tasks whose last release is earlier, exceeds that
   release (`LateCrowds`). Taking the tasks in the order of these releases, each multiplies the demand by
   less than its utilization plus one (`CrowdStep`); together they double it. The inequality
   of the means (`Mean`, from the tangent of a power, `Tangent`) turns the product into the power that
   `testability_rm` compares, so such a set was rejected (`LateIsRejected`).
6. *Rounding.* For edf and llf, `EPSILON` takes up what the sum may be too high, and a set that is not
   feasible needs a slot too many in a hyperperiod, which is more than the sum may be too low
   unless the hyperperiod is long (`RoundingOfOne`). For rm, late tasks ask for a whole unit of work too
   much in a stretch no longer than a period, which is more than a part in `Precision`
   (`LateByAUnit`); so step 5 has room for the sum to be too low.

`testability_rm` writes its powers with the recursive function `Power`, as the provers know nothing of
the operator `^` of the standard module.

**Not provable here.** Liveness under fairness, and `ENABLED`, are out of the provers' reach: the
liveness properties `CallReturns`, `LastEventEndsCreator`, `ProducersStop`, `LastEventShown`,
`RestartRecovers`, `EndsUnlessLost` and `EndsUnlessSignalled`, and the fairness in `ImplementsSchedule`,
are checked by TLC only. `ArgumentsKept` is stated by counting the arguments kept, since the
definition of `SelectSeq` in the standard module is not visible to the provers.

Every safety invariant and action property that a passing run checks is stated by a theorem. The
parts of `TestInv` are not run, as `Sums` chooses among functions, which TLC cannot evaluate.

## 5. What is not modelled

* Kills of the processes of project_2 outside `Session`: nothing in the code detects or repairs them
  within a session, and `finalize` then waits for ever.
* In `Session`, what a client does after it registered, and the other semaphores: one that is
  missing ends the client in the same way, only later.
* In `CreatorWindow`, the lines of the log, the labels of the counters and the tags ENTRY and EXIT, which
  come from the same event; the name of the buffer, which is copied without its end. A slot is stored and
  copied as a whole. The way clients leave is one step. The callbacks return
  nothing though GTK expects a result; they are assumed to be removed. A callback is one step, though
  `gtk_set_executing` is called from the thread as well.
* Which slots are valid when accesses overlap: `ShownIsUnread` is about one caller at a time. With
  two writers at once a slot may be stored twice while `count` grows by two, or `count` may lose an update,
  so the valid slots need not be the ones between `head` and `tail`. `ShowsBufferAtRest` says that the
  window shows the flags as they are, right or wrong.
* In `SharedBuffer`, the content of events and the flag `valid`, which only the window reads, and the
  semaphore `zero_messages`, for which nobody waits.
* In `LotteryScheduler`, a start that would write past the end of the table of threads, a quantum of
  zero, and the values of pi.
* In `Simulation`, the width of `int` in the hyperperiod, and how exactly the floats of the tests round:
  they are within `Precision`.
* In `TimeTables`, titles, colors, the tests and formulas, and the layout with several charts on a slide:
  charts are taken one by one.
* In `Systrace`, a `fork` that fails, a child that is gone before its first stop, a child with threads or
  children of its own, the layout of the summary.
* Widgets, LaTeX files, statistics, the command lines of project_2.

Those that are hazards of the code are in `PROJECT.json` without a property, each with its line.

## 6. Plan

1. Done: all modules of section 2, model-checked, and the theorems of section 4.
