------------------------------ MODULE Systrace ------------------------------
(***************************************************************************)
(* homework_1: systrace.c runs a command as a traced child, and counts and *)
(* prints its system calls.  PTRACE_SYSCALL resumes the child up to its    *)
(* next stop, which waitpid reports: the entry of a call, its exit (the    *)
(* two look alike), or the delivery of a signal.  The tracer steps from    *)
(* one call of ptrace or waitpid to the next; the child is the kernel's    *)
(* and the command's side of the protocol, and outside this repository.    *)
(***************************************************************************)
EXTENDS Integers, Sequences, FiniteSets

CONSTANTS Words,       \* arguments other than the two options
          MaxArgs,     \* bound on the number of arguments
          Calls,       \* numbers of the calls that the command makes
          MaxCalls,    \* bound on the calls before the last one
          MaxSignals   \* bound on the signals sent to the child

ASSUME BoundsAssumption == MaxArgs \in Nat /\ MaxCalls \in Nat /\ MaxSignals \in Nat
ASSUME CallsAssumption == Calls \subseteq 0 .. 450

execve == 59
exit_group == 231
ENOSYS == 38
NotYet == 1    \* no result of a call here: it has not returned

Options == {"-v", "-V"}
CommandLines == UNION {[1 .. n -> Options \cup Words] : n \in 0 .. MaxArgs}

VARIABLES
  args,      \* the arguments the user gave
  mode,      \* step_mode_enabled
  child_argv,
  tracer,    \* where the tracer is
  inVerbose, \* whether print_verbose called set_tracepoint
  regs, name,
  counter,
  lines,     \* the printed lines: a name and a return value
  child,     \* where the child is
  rax,       \* its registers: the call and its result
  trap,      \* execve leaves a SIGTRAP behind
  faulting,  \* the instruction at hand raises a signal each time it is run
  signals,   \* the number of signals sent so far
  calls      \* the calls the child made so far

tracing == <<inVerbose, regs, name, counter, lines>>
arguments == <<args, mode, child_argv>>
command == <<child, rax, trap, faulting, signals, calls>>
vars == <<arguments, tracer, tracing, command>>

Stopped == child \in {"stopped", "entry", "exit", "signal"}
Dead == {"exited", "killed", "reaped", "vanished"}
Killed == child \in {"killed", "vanished"}

-----------------------------------------------------------------------------
(* The command line                                                        *)

Empty(argv) == [argv |-> argv, argc |-> 0, mode |-> -1]

\* Mutant: an option that is not the first one is not recognized as such.
FirstOptionOnly(s, arg) ==
  IF arg \in Options /\ s.mode = -1
    THEN [s EXCEPT !.mode = IF arg = "-v" THEN 0 ELSE 1]
    ELSE [s EXCEPT !.argv[s.argc] = arg, !.argc = @ + 1]
\* A turn of the loop.  The kept arguments are written to the front of the
\* array that is being read.
ReadParameter(s, arg) ==
  CASE arg = "-v" -> [s EXCEPT !.mode = 0]
    [] arg = "-V" -> [s EXCEPT !.mode = 1]
    [] OTHER -> [s EXCEPT !.argv[s.argc] = arg, !.argc = @ + 1]

read_parameters(given) ==
  LET argv == [i \in 0 .. Len(given) |-> IF i = 0 THEN "systrace" ELSE given[i]]
      loop[i \in 0 .. Len(given)] ==
        IF i = 0 THEN Empty(argv) ELSE ReadParameter(loop[i - 1], loop[i - 1].argv[i])
  IN  loop[Len(given)]

Init ==
  /\ args \in CommandLines
  /\ mode = -1 /\ child_argv = <<>>
  /\ tracer = "main" /\ inVerbose = FALSE
  /\ regs = [number |-> 0, rax |-> 0] /\ name = 0
  /\ counter = [n \in 0 .. 511 |-> 0] /\ lines = <<>>
  /\ child = "none" /\ rax = 0 /\ trap = FALSE /\ faulting = FALSE
  /\ signals = 0 /\ calls = <<>>

\* read_parameters, and fork if there is a command.
Start ==
  /\ tracer = "main"
  /\ LET read == read_parameters(args)
     IN  /\ mode' = read.mode
         /\ child_argv' = [i \in 1 .. read.argc |-> read.argv[i - 1]]
         /\ IF read.argc < 1 THEN tracer' = "failed" /\ UNCHANGED child
                             ELSE tracer' = "fork" /\ child' = "forked"
  /\ UNCHANGED <<args, tracing, rax, trap, faulting, signals, calls>>

-----------------------------------------------------------------------------
(* The tracer                                                              *)

\* The first waitpid of start_tracing, and PTRACE_SETOPTIONS.
FirstStop ==
  /\ tracer = "fork" /\ child = "stopped"
  /\ tracer' = "resume"
  /\ UNCHANGED <<arguments, tracing, command>>

\* ptrace(PTRACE_SYSCALL), which fails when the child is not there.  Its last
\* argument is 0: the signal of a stop is not delivered.
Resume ==
  /\ tracer = "resume"
  /\ child' = IF child = "entry" THEN "kernel" ELSE IF Stopped THEN "user" ELSE child
  /\ tracer' = "wait"
  /\ UNCHANGED <<arguments, tracing, rax, trap, faulting, signals, calls>>

\* WSTOPSIG(status) & 0x80
IsSyscallStop == child \in {"entry", "exit"}

\* Mutant: the end of the child is not looked for.
NeverExited == FALSE
\* WIFEXITED(status)
IsExited == child = "exited"

\* waitpid in set_tracepoint, and the tests of its result.  A child that was
\* killed neither is stopped nor has exited, and after it is reaped waitpid
\* fails and leaves that status.
Wait ==
  /\ tracer = "wait" /\ (Stopped \/ child \in Dead)
  /\ tracer' = CASE IsSyscallStop -> IF inVerbose THEN "exit" ELSE "entry"
                 [] IsExited -> "done"   \* with the summary
                 [] OTHER -> "resume"
  /\ child' = CASE child = "exited" -> "reaped"
                [] child = "killed" -> "vanished"
                [] OTHER -> child
  /\ UNCHANGED <<arguments, tracing, rax, trap, faulting, signals, calls>>

\* PTRACE_GETREGS, which leaves regs alone when it fails.
GetRegs == IF Stopped THEN [number |-> calls[Len(calls)].number, rax |-> rax]
                      ELSE regs

\* The entries of the table are in order, but for a gap in the numbers.
Unknown == -1
syscall_table(position) ==
  CASE position \in 0 .. 334 -> position
    [] position \in 335 .. 361 -> position + 89
    [] OTHER -> Unknown   \* what lies behind the table
get_syscall_name(number) == syscall_table(number)

\* Mutant: a call is counted when it returns.
CountAtExit ==
  /\ tracer = "entry"
  /\ regs' = GetRegs
  /\ name' = get_syscall_name(regs'.number)
  /\ counter' = [counter EXCEPT ![regs.number] = @ + 1]
  /\ inVerbose' = TRUE
  /\ tracer' = "resume"
  /\ UNCHANGED <<arguments, lines, command>>
\* print_verbose up to its call of set_tracepoint.
Count ==
  /\ tracer = "entry"
  /\ regs' = GetRegs
  /\ name' = get_syscall_name(regs'.number)
  /\ counter' = [counter EXCEPT ![regs'.number] = @ + 1]
  /\ inVerbose' = TRUE
  /\ tracer' = "resume"
  /\ UNCHANGED <<arguments, lines, command>>

\* Mutant: the registers are not read again at the exit.
PrintLineOfEntry ==
  /\ tracer = "exit"
  /\ lines' = IF mode = -1 THEN lines
              ELSE Append(lines, [name |-> name, retval |-> regs.rax])
  /\ inVerbose' = FALSE
  /\ tracer' = IF mode = 1 THEN "getchar" ELSE "resume"
  /\ UNCHANGED <<arguments, regs, name, counter, command>>
\* print_verbose after it.
PrintLine ==
  /\ tracer = "exit"
  /\ regs' = GetRegs
  /\ lines' = IF mode = -1 THEN lines
              ELSE Append(lines, [name |-> name, retval |-> regs'.rax])
  /\ inVerbose' = FALSE
  /\ tracer' = IF mode = 1 THEN "getchar" ELSE "resume"
  /\ UNCHANGED <<arguments, name, counter, command>>

\* The user presses enter.
PressEnter ==
  /\ tracer = "getchar"
  /\ tracer' = "resume"
  /\ UNCHANGED <<arguments, tracing, command>>

-----------------------------------------------------------------------------
(* The child                                                               *)

\* PTRACE_TRACEME, and the SIGSTOP it sends to itself.
StopItself ==
  /\ child = "forked"
  /\ child' = "stopped"
  /\ UNCHANGED <<arguments, tracer, tracing, rax, trap, faulting, signals, calls>>

\* The command ends with exit_group; it may make other calls before, and
\* execve is tried in each directory of the path.
EnterCall ==
  /\ child = "user" /\ ~trap /\ ~faulting
  /\ \E n \in Calls \cup {exit_group} :
       /\ Len(calls) >= MaxCalls => n = exit_group
       /\ calls' = Append(calls, [number |-> n, retval |-> NotYet])
  /\ rax' = -ENOSYS
  /\ child' = "entry"
  /\ UNCHANGED <<arguments, tracer, tracing, trap, faulting, signals>>

Last == Len(calls)

ReturnFromCall ==
  /\ child = "kernel" /\ calls[Last].number # exit_group
  /\ \E value \in {0, -1} :
       /\ rax' = value
       /\ calls' = [calls EXCEPT ![Last].retval = value]
       /\ trap' = (calls[Last].number = execve /\ value = 0)
  /\ child' = "exit"
  /\ UNCHANGED <<arguments, tracer, tracing, faulting, signals>>

Exit ==
  /\ child = "kernel" /\ calls[Last].number = exit_group
  /\ child' = "exited"
  /\ UNCHANGED <<arguments, tracer, tracing, rax, trap, faulting, signals, calls>>

\* A stop for the SIGTRAP of execve, or for a signal from elsewhere.
SignalStop ==
  /\ child = "user"
  /\ IF trap THEN UNCHANGED signals
             ELSE signals < MaxSignals /\ signals' = signals + 1
  /\ trap' = FALSE
  /\ child' = "signal"
  /\ UNCHANGED <<arguments, tracer, tracing, rax, faulting, calls>>

\* An instruction that cannot be executed.  Without its signal the child is
\* back at the same instruction.
Fault ==
  /\ child = "user" /\ ~trap
  /\ IF faulting THEN UNCHANGED signals
                 ELSE signals < MaxSignals /\ signals' = signals + 1
  /\ faulting' = TRUE
  /\ child' = "signal"
  /\ UNCHANGED <<arguments, tracer, tracing, rax, trap, calls>>

\* SIGKILL, once the tracer saw the child stopped.
Kill ==
  /\ tracer \notin {"main", "failed", "fork"}
  /\ child \notin Dead /\ signals < MaxSignals
  /\ child' = "killed" /\ signals' = signals + 1
  /\ UNCHANGED <<arguments, tracer, tracing, rax, trap, faulting, calls>>

Tracer == Start \/ FirstStop \/ Resume \/ Wait \/ Count \/ PrintLine
Child == \/ StopItself \/ EnterCall \/ ReturnFromCall \/ Exit
         \/ (trap \/ faulting) /\ (SignalStop \/ Fault)
Next == Tracer \/ PressEnter \/ Child \/ SignalStop \/ Fault \/ Kill

\* Both processes are scheduled; the user and the senders of signals may
\* never act.
Spec == Init /\ [][Next]_vars
FairSpec == Spec /\ WF_vars(Tracer) /\ WF_vars(Child)

-----------------------------------------------------------------------------
(* What it promises                                                        *)

(* The arguments of the child are those of the user without the options,   *)
(* in their order, although the array is rewritten as it is read; of two   *)
(* options the last one counts.  An option of the command is taken too.    *)
ArgumentsKept ==
  LET given == {i \in DOMAIN args : args[i] \in Options}
      kept == DOMAIN args \ given
  IN  tracer # "main" =>
        /\ Len(child_argv) = Cardinality(kept)
        /\ \A i \in kept : child_argv[Cardinality({j \in kept : j <= i})] = args[i]
        /\ IF given = {} THEN mode = -1
           ELSE \E i \in given : /\ \A j \in given : j <= i
                                 /\ mode = IF args[i] = "-v" THEN 0 ELSE 1

MadeOf(n) == Cardinality({i \in DOMAIN calls : calls[i].number = n})

(* Entries and exits are told apart by counting alone, and with signals,   *)
(* failing calls and execve's extra stop in between: the tracer is at its  *)
(* entry side exactly at an entry, so that the summary has each call of    *)
(* the child once, the last one as well.                                   *)
CountsExact ==
  ~Killed =>
    \A n \in Calls \cup {exit_group} :
      counter[n] = MadeOf(n) - (IF child = "entry" /\ ~inVerbose /\ calls[Last].number = n
                                THEN 1 ELSE 0)

IsLineOf(line, call) ==
  /\ line.retval = call.retval
  /\ call.number <= 334 => line.name = call.number

(* Each line has the name of a call and the result of the same call, for   *)
(* the calls whose numbers are before the gap.  A child that is killed at  *)
(* its exit stop may leave one line with the value the register had at the *)
(* entry.                                                                  *)
LinesAreCalls ==
  \A k \in DOMAIN lines :
    /\ k <= Len(calls)
    /\ \/ IsLineOf(lines[k], calls[k])
       \/ k = Len(lines) /\ Killed /\ lines[k].retval = -ENOSYS

(* The tracer ends when the child exits.  It goes on for ever only after a *)
(* SIGKILL, or when it takes away a signal that the child's next           *)
(* instruction raises again; and it waits for the user in the step mode.   *)
EndsUnlessSignalled ==
  <>[](\/ tracer \in {"done", "failed"}
       \/ mode = 1 /\ tracer = "getchar"
       \/ faulting
       \/ Killed)
=============================================================================
