-------------------------- MODULE LotteryScheduler --------------------------
(***************************************************************************)
(* project_1: user-level threads scheduled by lottery inside one process.  *)
(* scheduler.c switches between the threads and the main context with      *)
(* sigsetjmp and siglongjmp; a preemptive run is driven by the signal      *)
(* SIGVTALRM of a one-shot timer.  s_control.c calls start_scheduler in a  *)
(* loop and processes GTK events between two calls, so that the buttons of *)
(* main.c may start another run inside the one that is going on.           *)
(*                                                                         *)
(* pc is where the processor is, in the main context or in the current     *)
(* thread.  The code between two labels runs with the timer off or the     *)
(* signal blocked, or does nothing that the timer could disturb.           *)
(*                                                                         *)
(* Left out: the value of pi and the bars of the window.  A thread's       *)
(* function is a number of slices: each is ended by yield_cpu or by the    *)
(* timer, and the function may return at any time.                         *)
(***************************************************************************)
EXTENDS Integers, FiniteSets, Sequences

CONSTANTS MaxThreads,     \* the length of all_threads
          Modes,          \* the modes of operation the user may choose
          Tickets,        \* the numbers of tickets the user may give a thread
          MaxSlices,      \* bound: how often a thread is interrupted or yields
          MaxStarts,      \* bound: how often the user starts a run
          NoThread,       \* NULL in current_thread
          TickBeforeJump  \* may a quantum end before the jump that follows
                          \* start_timer, a few instructions later?

ASSUME MaxThreadsAssumption == MaxThreads \in Nat \ {0}
ASSUME ModesAssumption == Modes \subseteq {"preemptive", "nonpreemptive"}
ASSUME TicketsAssumption == Tickets \subseteq Nat
ASSUME BoundsAssumption == MaxSlices \in Nat /\ MaxStarts \in Nat
ASSUME NoThreadAssumption == NoThread \notin Nat
ASSUME TickAssumption == TickBeforeJump \in BOOLEAN

Ids == 0 .. MaxThreads - 1

VARIABLES
  numCreated, numActive, totalTickets, current,  \* scheduler.c
  schedMode, running, reEnter,
  status, minTicket, maxTicket,                  \* all_threads
  resume,     \* resume[i]: the place saved in jmp_state of thread i
  slices,     \* slices[i]: how often thread i may still be interrupted
  yields,     \* yields[i]: does thread i call yield_cpu (yield_percent)?
  timer,      \* is the timer armed?
  pending, blocked, handler,                     \* SIGVTALRM
  pc, from,   \* where the processor is, and where schedule was called from
  frames,     \* the calls of run_scheduler, innermost last: their "finished"
  isRunning, opMode, toCreate, starts            \* main.c and s_control.c

counts == <<numCreated, numActive, totalTickets>>
table == <<status, minTicket, maxTicket, resume, slices, yields>>
flags == <<schedMode, running, reEnter>>
signals == <<timer, pending, blocked, handler>>
user == <<isRunning, opMode, toCreate, starts>>
vars == <<counts, table, flags, signals, current, pc, from, frames, user>>

ThreadPcs == {"run", "marked", "counted", "stuck"}
MainPcs == {"idle", "create", "start", "wait", "gtk"}
SchedulerPcs == {"isr", "schedule", "draw", "jump"}

Created == 0 .. numCreated - 1
Unfinished == {i \in Created : status[i] # "done"}

Init ==
  /\ numCreated = 0 /\ numActive = 0 /\ totalTickets = 0
  /\ current = NoThread
  /\ schedMode = "nonpreemptive" /\ running = FALSE /\ reEnter = FALSE
  /\ status = [i \in Ids |-> "done"]
  /\ minTicket = [i \in Ids |-> 0] /\ maxTicket = [i \in Ids |-> 0]
  /\ resume = [i \in Ids |-> "run"]
  /\ slices = [i \in Ids |-> 0] /\ yields = [i \in Ids |-> FALSE]
  /\ timer = FALSE /\ pending = FALSE /\ blocked = FALSE /\ handler = "default"
  /\ pc = "idle" /\ from = "idle"
  /\ frames = <<>>
  /\ isRunning = FALSE /\ opMode = "nonpreemptive" /\ toCreate = 0 /\ starts = 0

-----------------------------------------------------------------------------
(* The window: main.c and s_control.c                                      *)

\* The user may click whenever GTK events are processed, inside a run too.
\* A start that would write past the end of all_threads is left out: nothing
\* in the code prevents it, and its effect is undefined.
OnStart ==
  /\ pc \in {"idle", "gtk"}
  /\ ~isRunning
  /\ starts < MaxStarts
  /\ \E n \in 1 .. MaxThreads - numCreated : toCreate' = n
  /\ \E mode \in Modes : opMode' = mode
  /\ isRunning' = TRUE
  /\ starts' = starts + 1
  /\ pc' = "create"
  /\ UNCHANGED <<counts, table, flags, signals, current, from, frames>>

OnStop ==
  /\ pc \in {"idle", "gtk"}
  /\ isRunning' = FALSE
  /\ UNCHANGED <<counts, table, flags, signals, current, pc, from, frames,
                 opMode, toCreate, starts>>

\* The end of the range of a new thread, and the total with it.  Mutants: the
\* range includes the first ticket of the next thread; the total is that of
\* the last thread.
MaxTicketIncluded(tickets) == totalTickets + tickets + 1
MaxTicket(tickets) == totalTickets + tickets
LastTickets(tickets) == tickets
TotalWith(tickets) == totalTickets + tickets

\* create_thread, in the loop of create_pi_threads.
CreateThread ==
  /\ pc = "create"
  /\ \E tickets \in Tickets, work \in 0 .. MaxSlices :
       /\ minTicket' = [minTicket EXCEPT ![numCreated] = totalTickets]
       /\ maxTicket' = [maxTicket EXCEPT ![numCreated] = MaxTicket(tickets)]
       /\ totalTickets' = TotalWith(tickets)
       /\ slices' = [slices EXCEPT ![numCreated] = work]
  /\ yields' = [yields EXCEPT ![numCreated] = opMode = "nonpreemptive"]
  /\ status' = [status EXCEPT ![numCreated] = "ready"]
  /\ resume' = [resume EXCEPT ![numCreated] = "run"]
  /\ numCreated' = numCreated + 1
  /\ numActive' = numActive + 1
  /\ toCreate' = toCreate - 1
  /\ IF toCreate = 1
       THEN pc' = "start" /\ frames' = Append(frames, FALSE)
       ELSE UNCHANGED <<pc, frames>>
  /\ UNCHANGED <<flags, signals, current, from, isRunning, opMode, starts>>

SetFinished(value) == frames' = [frames EXCEPT ![Len(frames)] = value]

\* No more events: run_scheduler calls again, or returns to its caller, which
\* is the main loop of GTK or the event loop of an outer run_scheduler.
EventsDone ==
  /\ pc = "gtk"
  /\ IF frames[Len(frames)]
       THEN /\ frames' = SubSeq(frames, 1, Len(frames) - 1)
            /\ pc' = IF Len(frames) = 1 THEN "idle" ELSE "gtk"
       ELSE UNCHANGED frames /\ pc' = "start"
  /\ UNCHANGED <<counts, table, flags, signals, current, from, user>>

-----------------------------------------------------------------------------
(* start_scheduler: the call, and the returns through first_state          *)

StartScheduler ==
  /\ pc = "start"
  /\ IF numCreated = 0 \/ numActive <= 0
       THEN /\ SetFinished(TRUE)
            /\ pc' = "gtk"
            /\ UNCHANGED <<flags, signals, from>>
       ELSE /\ running' = TRUE
            /\ schedMode' = opMode
            /\ IF opMode = "preemptive"
                 THEN /\ handler' = "isr" /\ timer' = TRUE
                      /\ pc' = "wait"
                      /\ UNCHANGED from
                 ELSE /\ pc' = "schedule" /\ from' = "start"
                      /\ UNCHANGED <<handler, timer>>
            /\ UNCHANGED <<reEnter, pending, blocked, frames>>
  /\ UNCHANGED <<counts, table, current, user>>

\* clear_signal.  A pending signal is delivered here.  Its timer_isr returns at
\* once when running is unset; otherwise it calls schedule, which does what
\* the interrupted call was about to do.  Without handler it ends the process.
ClearSignal ==
  IF schedMode = "nonpreemptive"
    THEN UNCHANGED <<pending, blocked>>
    ELSE pending' = FALSE /\ blocked' = FALSE

\* Mutant: the handler is removed before the signal is unblocked.
RemoveHandlerFirst ==
  /\ handler' = "default"
  /\ ClearSignal
  /\ pc' = IF pending THEN "killed" ELSE "gtk"

\* The signal is unblocked, then uninitialize_timer, and start_scheduler
\* returns to run_scheduler.
RemoveHandler ==
  /\ ClearSignal
  /\ pc' = IF pending /\ handler = "default" THEN "killed" ELSE "gtk"
  /\ handler' = "default"

\* schedule finds no active thread: back in start_scheduler, clean_scheduler.
ScheduleEnd ==
  /\ pc = "schedule"
  /\ numActive <= 0
  /\ running' = FALSE /\ reEnter' = FALSE
  /\ numCreated' = 0 /\ numActive' = 0 /\ totalTickets' = 0
  /\ current' = NoThread
  /\ RemoveHandler
  /\ SetFinished(TRUE)
  /\ UNCHANGED <<table, schedMode, timer, from, user>>

\* The status of the thread that schedule suspends.  Mutant: a thread that is
\* done is made ready again.
Revived(old) == "ready"
Suspended(old) == IF old = "running" THEN "ready" ELSE old

\* Mutant: start_scheduler does not set re_enter.
ReturnForGood == UNCHANGED reEnter
ReturnUnfinished == reEnter' = TRUE

\* schedule suspends the current thread: back in start_scheduler, which
\* returns 0.
ScheduleSuspend ==
  /\ pc = "schedule"
  /\ numActive > 0
  /\ current # NoThread /\ ~reEnter
  /\ resume' = [resume EXCEPT ![current] = from]
  /\ status' = [status EXCEPT ![current] = Suspended(@)]
  /\ ReturnUnfinished
  /\ RemoveHandler
  /\ SetFinished(FALSE)
  /\ UNCHANGED <<counts, minTicket, maxTicket, slices, yields, schedMode, running,
                 timer, current, from, user>>

\* Mutant: re_enter stays set.
KeepReEnter == UNCHANGED reEnter
ClearReEnter == reEnter' = FALSE

\* schedule is to select a thread, the first one or the next.
ScheduleNext ==
  /\ pc = "schedule"
  /\ numActive > 0
  /\ current = NoThread \/ reEnter
  /\ ClearReEnter
  /\ ClearSignal
  /\ pc' = "draw"
  /\ UNCHANGED <<counts, table, schedMode, running, timer, handler, current,
                 from, frames, user>>

Owns(i, ticket) == minTicket[i] <= ticket /\ ticket < maxTicket[i]

\* get_next_thread draws tickets until the owner is not done, which is one
\* step: the draws in vain change nothing.  With no ticket at all, or when only
\* threads that are done own one, there is no step: the first divides by zero,
\* the second draws for ever.
GetNextThread ==
  /\ pc = "draw"
  /\ \E ticket \in 0 .. totalTickets - 1 :
     \E i \in Created :
       /\ Owns(i, ticket)
       /\ status[i] # "done"
       /\ current' = i
       /\ status' = [status EXCEPT ![i] = "running"]
  /\ timer' = (schedMode = "preemptive")
  /\ pc' = "jump"
  /\ UNCHANGED <<counts, minTicket, maxTicket, resume, slices, yields, flags,
                 pending, blocked, handler, from, frames, user>>

\* siglongjmp to the thread; the first time that is the start of f_wrapper.
Jump ==
  /\ pc = "jump"
  /\ pc' = resume[current]
  /\ ClearSignal
  /\ UNCHANGED <<counts, table, flags, timer, handler, current, from, frames,
                 user>>

-----------------------------------------------------------------------------
(* SIGVTALRM                                                               *)

\* The quantum of the current thread, or the wait of the main context, ends.
Tick ==
  /\ timer /\ ~blocked
  /\ pc \notin {"isr", "schedule", "killed"}
  /\ pc = "jump" => TickBeforeJump
  /\ pc = "run" => slices[current] > 0
  /\ slices' = IF pc = "run" THEN [slices EXCEPT ![current] = @ - 1] ELSE slices
  /\ timer' = FALSE
  /\ IF handler = "default"
       THEN pc' = "killed" /\ UNCHANGED <<from, blocked>>
       ELSE pc' = "isr" /\ from' = pc /\ blocked' = TRUE
  /\ UNCHANGED <<counts, status, minTicket, maxTicket, resume, yields, flags,
                 pending, handler, current, frames, user>>

\* The quantum ends after raise and before the timer is stopped.
TickWhileBlocked ==
  /\ timer
  /\ pc = "isr"
  /\ timer' = FALSE
  /\ pending' = TRUE
  /\ UNCHANGED <<counts, table, flags, blocked, handler, current, pc, from,
                 frames, user>>

\* timer_isr stops the timer and calls schedule.
TimerIsr ==
  /\ pc = "isr"
  /\ timer' = FALSE
  /\ IF running
       THEN pc' = "schedule" /\ UNCHANGED blocked
       ELSE pc' = from /\ blocked' = FALSE
  /\ UNCHANGED <<counts, table, flags, pending, handler, current, from, frames,
                 user>>

-----------------------------------------------------------------------------
(* The current thread                                                      *)

\* run_pi_task calls yield_cpu, unless the thread was created for a preemptive
\* run.  While a preemptive run is going on, yield_cpu does nothing.
Yield ==
  /\ pc = "run"
  /\ schedMode = "nonpreemptive"
  /\ yields[current] /\ slices[current] > 0
  /\ slices' = [slices EXCEPT ![current] = @ - 1]
  /\ pc' = "schedule" /\ from' = "run"
  /\ UNCHANGED <<counts, status, minTicket, maxTicket, resume, yields, flags,
                 signals, current, frames, user>>

\* The thread's function has returned: finish_thread.
MarkDone ==
  /\ pc = "run"
  /\ status' = [status EXCEPT ![current] = "done"]
  /\ pc' = "marked"
  /\ UNCHANGED <<counts, minTicket, maxTicket, resume, slices, yields, flags,
                 signals, current, from, frames, user>>

\* Mutants: the thread is counted out twice; it is counted out in preemptive
\* runs only.
CountTwice == numActive - 2
CountIfPreemptive == IF schedMode = "preemptive" THEN numActive - 1 ELSE numActive
ActiveWithout == numActive - 1

CountDone ==
  /\ pc = "marked"
  /\ numActive' = ActiveWithout
  /\ pc' = "counted"
  /\ UNCHANGED <<numCreated, totalTickets, table, flags, signals, current, from,
                 frames, user>>

\* finish_thread calls schedule, or raises the signal and waits for ever.
CallSchedule ==
  /\ pc = "counted"
  /\ IF schedMode = "nonpreemptive"
       THEN pc' = "schedule" /\ from' = "counted" /\ UNCHANGED blocked
       ELSE IF handler = "default"
              THEN pc' = "killed" /\ UNCHANGED <<from, blocked>>
              ELSE pc' = "isr" /\ from' = "stuck" /\ blocked' = TRUE
  /\ UNCHANGED <<counts, table, flags, timer, pending, handler, current, frames,
                 user>>

-----------------------------------------------------------------------------
Window == CreateThread \/ EventsDone \/ StartScheduler
Scheduler == ScheduleEnd \/ ScheduleSuspend \/ ScheduleNext \/ GetNextThread \/ Jump
Signal == Tick \/ TickWhileBlocked \/ TimerIsr
Thread == Yield \/ MarkDone \/ CountDone \/ CallSchedule

Program == Window \/ Scheduler \/ Signal \/ Thread
Next == OnStart \/ OnStop \/ Program

Spec == Init /\ [][Next]_vars

\* The process goes on while it can, and its timer ends.  The lottery is fair
\* enough to draw, sooner or later, a ticket of a thread that is not done.
\* The user is not obliged to do anything.
FairSpec == Spec /\ WF_vars(Program)

-----------------------------------------------------------------------------
TypeOK ==
  /\ numCreated \in 0 .. MaxThreads /\ numActive \in 0 .. MaxThreads
  /\ totalTickets \in Nat
  /\ current \in Ids \cup {NoThread}
  /\ schedMode \in {"preemptive", "nonpreemptive"}
  /\ opMode \in {"preemptive", "nonpreemptive"}
  /\ running \in BOOLEAN /\ reEnter \in BOOLEAN /\ isRunning \in BOOLEAN
  /\ status \in [Ids -> {"ready", "running", "done"}]
  /\ minTicket \in [Ids -> Nat] /\ maxTicket \in [Ids -> Nat]
  /\ resume \in [Ids -> ThreadPcs \cup MainPcs \cup SchedulerPcs]
  /\ slices \in [Ids -> 0 .. MaxSlices] /\ yields \in [Ids -> BOOLEAN]
  /\ timer \in BOOLEAN /\ pending \in BOOLEAN /\ blocked \in BOOLEAN
  /\ handler \in {"default", "isr"}
  /\ pc \in ThreadPcs \cup MainPcs \cup SchedulerPcs \cup {"killed"}
  /\ from \in ThreadPcs \cup MainPcs \cup SchedulerPcs
  /\ frames \in Seq(BOOLEAN)
  /\ toCreate \in 0 .. MaxThreads /\ starts \in 0 .. MaxStarts

InScheduler == pc \in {"isr", "schedule"}

\* The threads whose end was interrupted after they were marked and before
\* they were counted, or is just there (scheduler.c:292-293).
Uncounted ==
  {i \in Created : /\ status[i] = "done"
                   /\ \/ resume[i] = "marked"
                      \/ i = current /\ pc = "marked"
                      \/ i = current /\ InScheduler /\ ~reEnter /\ from = "marked"}

(* num_active_threads counts the threads that are not done, and those that *)
(* a tick interrupted on their way out, in nested runs too.                *)
ActiveExact == numActive = Cardinality(Unfinished) + Cardinality(Uncounted)

(* Every ticket has exactly one owner, so that chosen_thread is always set *)
(* by the loop of get_next_thread (scheduler.c:110-116), also when a run   *)
(* was started on top of another.                                          *)
OneOwner ==
  \A ticket \in 0 .. totalTickets - 1 :
    \E i \in Created :
      Owns(i, ticket) /\ \A j \in Created : Owns(j, ticket) => j = i

(* Only the current thread is running, and a thread's own code never runs  *)
(* on behalf of another or of one that has been counted out.               *)
OneRuns ==
  /\ \A i \in Created : status[i] = "running" => i = current
  /\ pc = "run" => current \in Created /\ status[current] = "running"
  /\ pc = "gtk" => \A i \in Created : status[i] # "running"

(* The place saved for a thread is in its own code: schedule never saves   *)
(* the main context, or an earlier call of itself, as a thread's.          *)
SavedByOwner == \A i \in Created : resume[i] \in {"run", "marked", "counted", "stuck"}

(* SIGVTALRM never reaches the process without its handler, which would    *)
(* end it: neither the timer nor a pending signal outlives timer_isr's     *)
(* registration (scheduler.c:317-325, 358-363).                            *)
NeverKilled == pc # "killed" /\ (handler = "default" => ~timer /\ ~pending)

\* The threads that were interrupted on their way out, and stay so.
Lost == {i \in Created : status[i] = "done" /\ resume[i] = "marked"}

Ticketless == {i \in Unfinished : minTicket[i] = maxTicket[i]}

(* The loop of get_next_thread finds a thread, unless the only ones left   *)
(* have no ticket or were interrupted on their way out.                    *)
DrawFinds ==
  pc = "draw" /\ Lost = {} /\ Ticketless = {} =>
    \E ticket \in 0 .. totalTickets - 1 : \E i \in Unfinished : Owns(i, ticket)

(* From scheduler.h:12, "This will return until the last task completes":  *)
(* a run comes to its end.                                                 *)
RunEnds == pc = "start" ~> pc = "idle"

(* A run comes to its end, nested runs and changes of mode included,       *)
(* unless a thread has no ticket or was interrupted on its way out: these  *)
(* are the only ways for the loop of get_next_thread to go on for ever.    *)
EndsUnlessLost == pc = "start" ~> (pc = "idle" \/ Lost # {} \/ Ticketless # {})
=============================================================================
