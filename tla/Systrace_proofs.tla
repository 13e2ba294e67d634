-------------------------- MODULE Systrace_proofs --------------------------
(***************************************************************************)
(* Proofs about Systrace, for any command line and any number of calls and *)
(* signals: what is counted and printed, by a tracer that tells entries    *)
(* from exits by counting alone.                                           *)
(***************************************************************************)
EXTENDS Systrace, FiniteSetTheorems, SequenceTheorems, WellFoundedInduction, TLAPS

Numbers == Calls \cup {exit_group}
Places == {"main", "failed", "fork", "resume", "wait", "entry", "exit", "getchar", "done"}
States == {"none", "forked", "stopped", "user", "kernel", "entry", "exit", "signal",
           "exited", "killed", "reaped", "vanished"}

-----------------------------------------------------------------------------
(* The inductive invariant                                                 *)

Types ==
  /\ tracer \in Places /\ child \in States /\ inVerbose \in BOOLEAN
  /\ regs \in [number : Int, rax : Int] /\ name \in Int /\ rax \in Int
  /\ counter \in [0 .. 511 -> Int]
  /\ calls \in Seq([number : Numbers, retval : Int])
  /\ lines \in Seq([name : Int, retval : Int])

\* Where the child is for each place of the tracer, as long as it is alive or
\* ended by itself.
LockStep ==
  /\ tracer \in {"main", "failed"} => child = "none"
  /\ tracer = "fork" => child \in {"forked", "stopped"}
  /\ tracer = "resume" => child \in {"stopped", "entry", "exit", "signal"}
  /\ tracer = "wait" => child \in {"user", "kernel", "entry", "exit", "signal", "exited"}
  /\ tracer = "entry" => child = "entry"
  /\ tracer \in {"exit", "getchar"} => child = "exit"
  /\ tracer = "done" => child = "reaped"

\* Which side of a call the tracer thinks it is at, for each place.
SideInv ==
  /\ child \in {"none", "forked", "stopped", "user", "signal"} => ~inVerbose
  /\ child \in {"kernel", "exited", "reaped"} => inVerbose
  /\ child = "entry" => (inVerbose <=> tracer = "resume")
  /\ child = "exit" => (inVerbose <=> tracer \in {"wait", "exit"})

ControlInv ==
  /\ ~Killed => LockStep /\ SideInv
  /\ Killed => tracer \in {"resume", "wait", "entry", "exit", "getchar"}
  /\ tracer = "exit" => inVerbose

\* What the registers and the tracer's copies of them say of the last call.
CallInv ==
  /\ child \in {"entry", "kernel", "exit"} \/ tracer = "entry" \/ inVerbose => Len(calls) > 0
  /\ child \in {"entry", "kernel"} => rax = -ENOSYS
  /\ child = "exit" => rax = calls[Last].retval
  /\ ~Killed \/ tracer = "exit" =>
       (inVerbose => /\ regs.rax = -ENOSYS
                     /\ name = get_syscall_name(calls[Last].number))

InCall == inVerbose \/ child = "entry"

\* The lines, one for each call that was looked at twice.
LinesInv ==
  /\ child \in {"none", "forked"} => Len(calls) = 0
  /\ mode = -1 => Len(lines) = 0
  /\ Len(lines) <= Len(calls)
  /\ ~Killed \/ tracer = "exit" =>
       /\ mode # -1 => Len(lines) = (IF InCall THEN Len(calls) - 1 ELSE Len(calls))
       /\ \A k \in 1 .. Len(lines) : IsLineOf(lines[k], calls[k])

IInv ==
  Types /\ ControlInv /\ CallInv /\ CountsExact /\ LinesInv /\ LinesAreCalls
-----------------------------------------------------------------------------
(* Facts                                                                   *)

LEMMA NumbersInTable == \A n \in Numbers : n \in Int /\ n \in 0 .. 450
<1>1. \A n \in 0 .. 450 : n \in Int
  OBVIOUS
<1>2. \A n \in Numbers : n \in 0 .. 450
  BY CallsAssumption DEF Numbers, exit_group
<1> QED
  BY <1>1, <1>2

\* Before the gap, the entry at the position of a number is that number's.
LEMMA NameFacts ==
  ASSUME NEW n \in Int
  PROVE  get_syscall_name(n) \in Int /\ (n \in 0 .. 334 => get_syscall_name(n) = n)
BY DEF get_syscall_name, syscall_table, Unknown

\* The calls as functions from 1 .. Len(calls).
LEMMA CallsFacts ==
  ASSUME Types
  PROVE  /\ Len(calls) \in Nat /\ DOMAIN calls = 1 .. Len(calls)
         /\ \A i \in 1 .. Len(calls) : calls[i] \in [number : Numbers, retval : Int]
         /\ Len(lines) \in Nat /\ DOMAIN lines = 1 .. Len(lines)
         /\ \A i \in 1 .. Len(lines) : lines[i] \in [name : Int, retval : Int]
<1>1. /\ calls \in Seq([number : Numbers, retval : Int])
      /\ lines \in Seq([name : Int, retval : Int])
  BY Zenon DEF Types
<1>2. /\ Len(calls) \in Nat /\ DOMAIN calls = 1 .. Len(calls)
      /\ \A i \in 1 .. Len(calls) : calls[i] \in [number : Numbers, retval : Int]
  BY <1>1, LenProperties, ElementOfSeq, Zenon
<1>3. /\ Len(lines) \in Nat /\ DOMAIN lines = 1 .. Len(lines)
      /\ \A i \in 1 .. Len(lines) : lines[i] \in [name : Int, retval : Int]
  BY <1>1, LenProperties, ElementOfSeq, Zenon
<1> QED
  BY <1>2, <1>3

\* An update of one place of a function, which may be outside its domain.
LEMMA UpdateFacts ==
  ASSUME NEW S, NEW T, NEW f \in [S -> T], NEW k, NEW v, k \in S => v \in T
  PROVE  [f EXCEPT ![k] = v] \in [S -> T]
OBVIOUS

\* What the child adds to the calls, and what it changes of the last one.
LEMMA EnterFacts ==
  ASSUME Types, EnterCall
  PROVE  \E n \in Numbers :
           /\ calls' \in Seq([number : Numbers, retval : Int])
           /\ Len(calls') = Len(calls) + 1
           /\ calls'[Len(calls) + 1].number = n
           /\ \A i \in 1 .. Len(calls) : calls'[i] = calls[i]
<1>1. PICK n \in Numbers : calls' = Append(calls, [number |-> n, retval |-> NotYet])
  BY DEF EnterCall, Numbers
<1>2. [number |-> n, retval |-> NotYet] \in [number : Numbers, retval : Int]
  BY DEF NotYet
<1>3. calls \in Seq([number : Numbers, retval : Int])
  BY DEF Types
<1>4. /\ Append(calls, [number |-> n, retval |-> NotYet]) \in
             Seq([number : Numbers, retval : Int])
      /\ Len(Append(calls, [number |-> n, retval |-> NotYet])) = Len(calls) + 1
      /\ \A i \in 1 .. Len(calls) :
           Append(calls, [number |-> n, retval |-> NotYet])[i] = calls[i]
      /\ Append(calls, [number |-> n, retval |-> NotYet])[Len(calls) + 1] =
           [number |-> n, retval |-> NotYet]
  BY <1>2, <1>3, AppendProperties
<1> QED
  BY <1>1, <1>4

LEMMA ReturnFacts ==
  ASSUME Types, Len(calls) > 0, ReturnFromCall
  PROVE  /\ rax' \in Int
         /\ calls' \in Seq([number : Numbers, retval : Int])
         /\ Len(calls') = Len(calls)
         /\ calls'[Len(calls)].retval = rax'
         /\ \A i \in 1 .. Len(calls) : calls'[i].number = calls[i].number
         /\ \A i \in 1 .. Len(calls) - 1 : calls'[i] = calls[i]
<1>1. PICK value \in {0, -1} :
        rax' = value /\ calls' = [calls EXCEPT ![Len(calls)].retval = value]
  BY DEF ReturnFromCall, Last
<1>2. /\ calls \in Seq([number : Numbers, retval : Int])
      /\ Len(calls) \in 1 .. Len(calls)
  <2>1. Len(calls) \in Nat /\ Len(calls) > 0
    BY CallsFacts
  <2>2. calls \in Seq([number : Numbers, retval : Int])
    BY DEF Types
  <2> QED
    BY <2>1, <2>2
<1>3. calls[Len(calls)] \in [number : Numbers, retval : Int]
  BY <1>2, CallsFacts
<1> DEFINE call == [calls[Len(calls)] EXCEPT !.retval = value]
<1>4. /\ call \in [number : Numbers, retval : Int] /\ call.retval = value
      /\ call.number = calls[Len(calls)].number
  BY <1>3
<1>5. calls' = [calls EXCEPT ![Len(calls)] = call]
  BY <1>1
<1> HIDE DEF call
<1>6. /\ [calls EXCEPT ![Len(calls)] = call] \in Seq([number : Numbers, retval : Int])
      /\ Len([calls EXCEPT ![Len(calls)] = call]) = Len(calls)
      /\ \A j \in 1 .. Len(calls) : [calls EXCEPT ![Len(calls)] = call][j] =
                                      IF j = Len(calls) THEN call ELSE calls[j]
  BY <1>2, <1>4, ExceptSeq
<1>7. /\ calls'[Len(calls)] = call
      /\ \A j \in 1 .. Len(calls) : j # Len(calls) => calls'[j] = calls[j]
  BY <1>2, <1>5, <1>6
<1>8. \A i \in 1 .. Len(calls) : calls'[i].number = calls[i].number
  BY <1>4, <1>7
<1>9. \A i \in 1 .. Len(calls) - 1 : i \in 1 .. Len(calls) /\ i # Len(calls)
  BY <1>2
<1>10. rax' \in Int
  BY <1>1
<1>11. calls'[Len(calls)].retval = rax'
  BY <1>1, <1>4, <1>7
<1> QED
  BY <1>5, <1>6, <1>7, <1>8, <1>9, <1>10, <1>11

\* PTRACE_GETREGS, in print_verbose.
LEMMA GetRegsFacts ==
  ASSUME Types, ControlInv, CallInv, tracer \in {"entry", "exit"}
  PROVE  /\ GetRegs \in [number : Int, rax : Int]
         /\ ~Killed => /\ GetRegs.number = calls[Len(calls)].number
                       /\ GetRegs.number \in Numbers
                       /\ GetRegs.rax = rax
         /\ Killed => GetRegs = regs
<1>1. CASE Killed
  <2>1. ~Stopped
    BY <1>1 DEF Killed, Stopped
  <2>2. GetRegs = regs
    BY <2>1 DEF GetRegs
  <2> QED
    BY <1>1, <2>2 DEF Types
<1>2. CASE ~Killed
  <2>1. Stopped /\ Len(calls) > 0
    BY <1>2 DEF ControlInv, LockStep, CallInv, Stopped
  <2>2. calls[Len(calls)].number \in Numbers
    BY <2>1, CallsFacts
  <2>3. calls[Len(calls)].number \in Int
    BY <2>2, NumbersInTable
  <2>4. GetRegs = [number |-> calls[Len(calls)].number, rax |-> rax]
    BY <2>1 DEF GetRegs, Last
  <2> QED
    BY <1>2, <2>2, <2>3, <2>4 DEF Types
<1> QED
  BY <1>1, <1>2

LEMMA PrintFacts ==
  ASSUME Types, ControlInv, CallInv, PrintLine
  PROVE  /\ regs' = GetRegs
         /\ lines' \in Seq([name : Int, retval : Int])
         /\ mode = -1 => lines' = lines
         /\ mode # -1 => /\ Len(lines') = Len(lines) + 1
                         /\ \A i \in 1 .. Len(lines) : lines'[i] = lines[i]
                         /\ lines'[Len(lines) + 1].name = name
                         /\ lines'[Len(lines) + 1].retval = GetRegs.rax
<1> DEFINE line == [name |-> name, retval |-> GetRegs.rax]
<1>1. /\ regs' = GetRegs
      /\ lines' = IF mode = -1 THEN lines ELSE Append(lines, line)
  BY DEF PrintLine
<1>2. lines \in Seq([name : Int, retval : Int]) /\ line \in [name : Int, retval : Int]
  BY GetRegsFacts DEF Types, PrintLine
<1>3. line.name = name /\ line.retval = GetRegs.rax
  OBVIOUS
<1> HIDE DEF line
<1>4. /\ Append(lines, line) \in Seq([name : Int, retval : Int])
      /\ Len(Append(lines, line)) = Len(lines) + 1
      /\ \A i \in 1 .. Len(lines) : Append(lines, line)[i] = lines[i]
      /\ Append(lines, line)[Len(lines) + 1] = line
  BY <1>2, AppendProperties
<1> QED
  BY <1>1, <1>2, <1>3, <1>4

LEMMA StartFacts ==
  ASSUME Start
  PROVE  /\ tracer = "main" /\ UNCHANGED <<inVerbose, regs, name, counter, lines, rax, calls>>
         /\ \/ tracer' = "failed" /\ child' = child
            \/ tracer' = "fork" /\ child' = "forked"
<1>1. /\ tracer = "main" /\ UNCHANGED <<tracing, rax, calls>>
      /\ \/ tracer' = "failed" /\ UNCHANGED child
         \/ tracer' = "fork" /\ child' = "forked"
  BY Zenon DEF Start
<1> QED
  BY <1>1 DEF tracing

\* The two steps that both sides of the protocol take part in.
LEMMA ResumeFacts ==
  ASSUME ControlInv, Resume
  PROVE  /\ tracer = "resume" /\ tracer' = "wait" /\ UNCHANGED inVerbose
         /\ \/ Killed /\ child' = child
            \/ child = "entry" /\ inVerbose /\ child' = "kernel"
            \/ child \in {"stopped", "exit", "signal"} /\ ~inVerbose /\ child' = "user"
<1>1. CASE Killed
  BY <1>1 DEF Resume, Killed, Stopped, tracing
<1>2. CASE ~Killed
  BY <1>2 DEF Resume, Stopped, tracing, ControlInv, LockStep, SideInv
<1> QED
  BY <1>1, <1>2

LEMMA WaitFacts ==
  ASSUME ControlInv, Wait
  PROVE  /\ tracer = "wait" /\ UNCHANGED inVerbose
         /\ \/ Killed /\ child' = "vanished" /\ tracer' = "resume"
            \/ child = "entry" /\ ~inVerbose /\ child' = child /\ tracer' = "entry"
            \/ child = "exit" /\ inVerbose /\ child' = child /\ tracer' = "exit"
            \/ child = "signal" /\ ~inVerbose /\ child' = child /\ tracer' = "resume"
            \/ child = "exited" /\ inVerbose /\ child' = "reaped" /\ tracer' = "done"
<1>1. CASE Killed
  BY <1>1 DEF Wait, IsSyscallStop, IsExited, Killed, tracing
<1>2. CASE ~Killed
  <2>1. /\ tracer = "wait" /\ UNCHANGED inVerbose
        /\ child \in {"entry", "exit", "signal", "exited"}
    BY <1>2 DEF Wait, Stopped, Dead, tracing, ControlInv, LockStep
  <2>2. /\ child = "entry" => ~inVerbose
        /\ child = "exit" => inVerbose
        /\ child = "signal" => ~inVerbose
        /\ child = "exited" => inVerbose
    BY <1>2, <2>1 DEF ControlInv, SideInv
  <2> QED
    BY <2>1, <2>2 DEF Wait, IsSyscallStop, IsExited
<1> QED
  BY <1>1, <1>2

-----------------------------------------------------------------------------
(* Types and control                                                       *)

ControlTypes == tracer \in Places /\ child \in States /\ inVerbose \in BOOLEAN

DataTypes ==
  /\ regs \in [number : Int, rax : Int] /\ name \in Int /\ rax \in Int
  /\ counter \in [0 .. 511 -> Int]
  /\ calls \in Seq([number : Numbers, retval : Int])
  /\ lines \in Seq([name : Int, retval : Int])

LEMMA ControlTypesStep == IInv /\ [Next]_vars => ControlTypes'
<1> SUFFICES ASSUME IInv, [Next]_vars PROVE ControlTypes'
  OBVIOUS
<1> USE DEF arguments, tracing, command
<1>0. tracer \in Places /\ child \in States /\ inVerbose \in BOOLEAN /\ ControlInv
  BY Zenon DEF IInv, Types
<1>1. CASE Start
  <2>1. tracer' \in Places /\ UNCHANGED inVerbose
    BY <1>1, StartFacts DEF Places
  <2>2. child' \in States
    BY <1>0, <1>1, StartFacts DEF States
  <2> QED
    BY <1>0, <2>1, <2>2 DEF ControlTypes
<1>2. CASE FirstStop
  BY <1>0, <1>2 DEF FirstStop, ControlTypes, Places, States, tracing, command
<1>3. CASE Resume
  <2>1. tracer' = "wait" /\ child' \in {child, "kernel", "user"} /\ UNCHANGED inVerbose
    BY <1>0, <1>3, ResumeFacts
  <2> QED
    BY <1>0, <2>1 DEF ControlTypes, Places, States
<1>4. CASE Wait
  <2>1. /\ tracer' \in {"resume", "entry", "exit", "done"}
        /\ child' \in {child, "vanished", "reaped"} /\ UNCHANGED inVerbose
    BY <1>0, <1>4, WaitFacts
  <2> QED
    BY <1>0, <2>1 DEF ControlTypes, Places, States
<1>5. CASE Count
  BY <1>0, <1>5 DEF Count, GetRegs, ControlTypes, Places, States
<1>6. CASE PrintLine
  BY <1>0, <1>6 DEF PrintLine, GetRegs, ControlTypes, Places, States
<1>7. CASE PressEnter
  BY <1>0, <1>7 DEF PressEnter, ControlTypes, Places, States
<1>8. CASE StopItself
  BY <1>0, <1>8 DEF StopItself, ControlTypes, Places, States
<1>9. CASE EnterCall
  BY <1>0, <1>9 DEF EnterCall, ControlTypes, States
<1>10. CASE ReturnFromCall
  BY <1>0, <1>10 DEF ReturnFromCall, ControlTypes, Places, States
<1>11. CASE Exit
  BY <1>0, <1>11 DEF Exit, ControlTypes, Places, States
<1>12. CASE SignalStop
  BY <1>0, <1>12 DEF SignalStop, ControlTypes, Places, States
<1>13. CASE Fault
  BY <1>0, <1>13 DEF Fault, ControlTypes, Places, States
<1>14. CASE Kill
  BY <1>0, <1>14 DEF Kill, ControlTypes, Places, States
<1>15. CASE UNCHANGED vars
  BY <1>0, <1>15 DEF vars, ControlTypes, Places, States
<1> QED
  BY <1>1, <1>2, <1>3, <1>4, <1>5, <1>6, <1>7, <1>8, <1>9, <1>10, <1>11, <1>12, <1>13, <1>14,
     <1>15
     DEF Next, Tracer, Child

LEMMA DataTypesStep == IInv /\ [Next]_vars => DataTypes'
<1> SUFFICES ASSUME IInv, [Next]_vars PROVE DataTypes'
  OBVIOUS
<1> USE DEF IInv, arguments, tracing, command
<1>1. CASE Count
  <2>1. regs' = GetRegs /\ name' = get_syscall_name(regs'.number)
    BY <1>1 DEF Count
  <2>2. regs' \in [number : Int, rax : Int]
    BY <1>1, <2>1, GetRegsFacts DEF Count
  <2>3. name' \in Int
    BY <2>1, <2>2, NameFacts
  <2>4. counter' \in [0 .. 511 -> Int]
    <3> DEFINE S == 0 .. 511
               k == regs'.number
               v == counter[k] + 1
    <3>1. counter' = [counter EXCEPT ![k] = v]
      BY <1>1 DEF Count
    <3>2. counter \in [S -> Int]
      BY DEF Types
    <3>3. \A n \in S : counter[n] + 1 \in Int
      BY <3>2
    <3>4. k \in S => v \in Int
      BY <3>3
    <3> HIDE DEF S, k, v
    <3>5. [counter EXCEPT ![k] = v] \in [S -> Int]
      BY <3>2, <3>4, UpdateFacts
    <3> QED
      BY <3>1, <3>5 DEF S
  <2> QED
    BY <1>1, <2>2, <2>3, <2>4 DEF Count, Types, DataTypes
<1>2. CASE PrintLine
  <2>1. regs' \in [number : Int, rax : Int] /\ lines' \in Seq([name : Int, retval : Int])
    BY <1>2, PrintFacts, GetRegsFacts DEF PrintLine
  <2> QED
    BY <1>2, <2>1 DEF PrintLine, Types, DataTypes
<1>3. CASE EnterCall
  <2>1. calls' \in Seq([number : Numbers, retval : Int])
    BY <1>3, EnterFacts
  <2>2. rax' \in Int
    BY <1>3 DEF EnterCall, ENOSYS
  <2> QED
    BY <1>3, <2>1, <2>2 DEF EnterCall, Types, DataTypes
<1>4. CASE ReturnFromCall
  <2>1. Len(calls) > 0
    BY <1>4 DEF ReturnFromCall, CallInv
  <2> QED
    BY <1>4, <2>1, ReturnFacts DEF ReturnFromCall, Types, DataTypes
<1>5. CASE Start \/ FirstStop \/ Resume \/ Wait \/ PressEnter \/ StopItself \/ Exit \/
           SignalStop \/ Fault \/ Kill \/ UNCHANGED vars
  <2>1. UNCHANGED <<regs, name, rax, counter, calls, lines>>
    BY <1>5, Zenon
       DEF Start, FirstStop, Resume, Wait, PressEnter, StopItself, Exit, SignalStop, Fault,
           Kill, vars
  <2>2. DataTypes
    BY Zenon DEF Types, DataTypes
  <2> QED
    BY <2>1, <2>2 DEF DataTypes
<1> QED
  BY <1>1, <1>2, <1>3, <1>4, <1>5 DEF Next, Tracer, Child

LEMMA ControlStep == IInv /\ [Next]_vars => ControlInv'
<1> SUFFICES ASSUME IInv, [Next]_vars PROVE ControlInv'
  OBVIOUS
<1> USE DEF IInv, arguments, tracing, command
<1>1. CASE Start
  BY <1>1, StartFacts DEF ControlInv, LockStep, SideInv, Killed
<1>2. CASE FirstStop
  BY <1>2
     DEF FirstStop, Types, ControlInv, LockStep, SideInv, Killed, Stopped, Dead, States,
         Places
<1>3. CASE Resume
  BY <1>3, ResumeFacts DEF ControlInv, LockStep, SideInv, Killed
<1>4. CASE Wait
  BY <1>4, WaitFacts DEF ControlInv, LockStep, SideInv, Killed
<1>5. CASE Count
  BY <1>5
     DEF Count, GetRegs, Types, ControlInv, LockStep, SideInv, Killed, Stopped, Dead,
         States, Places
<1>6. CASE PrintLine
  BY <1>6
     DEF PrintLine, GetRegs, Types, ControlInv, LockStep, SideInv, Killed, Stopped, Dead,
         States, Places
<1>7. CASE PressEnter
  BY <1>7
     DEF PressEnter, Types, ControlInv, LockStep, SideInv, Killed, Stopped, Dead, States,
         Places
<1>8. CASE StopItself
  BY <1>8
     DEF StopItself, Types, ControlInv, LockStep, SideInv, Killed, Stopped, Dead, States,
         Places
<1>9. CASE EnterCall
  BY <1>9
     DEF EnterCall, Types, ControlInv, LockStep, SideInv, Killed, Stopped, Dead, States,
         Places
<1>10. CASE ReturnFromCall
  BY <1>10
     DEF ReturnFromCall, Types, ControlInv, LockStep, SideInv, Killed, Stopped, Dead,
         States, Places
<1>11. CASE Exit
  BY <1>11
     DEF Exit, Types, ControlInv, LockStep, SideInv, Killed, Stopped, Dead, States, Places
<1>12. CASE SignalStop
  BY <1>12
     DEF SignalStop, Types, ControlInv, LockStep, SideInv, Killed, Stopped, Dead, States,
         Places
<1>13. CASE Fault
  BY <1>13
     DEF Fault, Types, ControlInv, LockStep, SideInv, Killed, Stopped, Dead, States, Places
<1>14. CASE Kill
  BY <1>14
     DEF Kill, Types, ControlInv, LockStep, SideInv, Killed, Stopped, Dead, States, Places
<1>15. CASE UNCHANGED vars
  BY <1>15
     DEF vars, Types, ControlInv, LockStep, SideInv, Killed, Stopped, Dead, States, Places
<1> QED
  BY <1>1, <1>2, <1>3, <1>4, <1>5, <1>6, <1>7, <1>8, <1>9, <1>10, <1>11, <1>12, <1>13, <1>14,
     <1>15
     DEF Next, Tracer, Child

LEMMA CallStep == IInv /\ [Next]_vars => CallInv'
<1> SUFFICES ASSUME IInv, [Next]_vars PROVE CallInv'
  OBVIOUS
<1> USE DEF IInv, arguments, tracing, command
<1>1. CASE Start
  BY <1>1, StartFacts DEF CallInv, ControlInv, LockStep, SideInv, Killed, Last
<1>2. CASE FirstStop
  BY <1>2
     DEF FirstStop, Types, ControlInv, LockStep, SideInv, CallInv, Killed, Stopped, Dead,
         Last, States
<1>3. CASE Resume
  BY <1>3, ResumeFacts DEF Resume, CallInv, Killed, Last
<1>4. CASE Wait
  BY <1>4, WaitFacts DEF Wait, CallInv, Killed, Last
<1>5. CASE Count
  <2>1. ~Killed => /\ regs'.rax = -ENOSYS
                   /\ name' = get_syscall_name(calls[Last].number)
    BY <1>5, GetRegsFacts DEF Count, CallInv, ControlInv, LockStep, Last
  <2>2. ~Killed => Len(calls) > 0
    BY <1>5 DEF Count, CallInv, ControlInv, LockStep
  <2>3. UNCHANGED <<child, rax, calls>> /\ tracer = "entry" /\ tracer' = "resume"
    BY <1>5 DEF Count
  <2>4. child = "entry" \/ Killed
    BY <2>3 DEF ControlInv, LockStep
  <2> QED
    BY <2>1, <2>2, <2>3, <2>4 DEF CallInv, Killed, Last
<1>6. CASE PrintLine
  BY <1>6
     DEF PrintLine, GetRegs, Types, ControlInv, LockStep, SideInv, CallInv, Killed, Stopped,
         Dead, Last, States
<1>7. CASE PressEnter
  BY <1>7
     DEF PressEnter, Types, ControlInv, LockStep, SideInv, CallInv, Killed, Stopped, Dead,
         Last, States
<1>8. CASE StopItself
  BY <1>8
     DEF StopItself, Types, ControlInv, LockStep, SideInv, CallInv, Killed, Stopped, Dead,
         Last, States
<1>9. CASE EnterCall
  <2>1. Len(calls') > 0
    BY <1>9, EnterFacts, CallsFacts
  <2> QED
    BY <1>9, <2>1 DEF EnterCall, CallInv, ControlInv, SideInv, LockStep, Killed
<1>10. CASE ReturnFromCall
  <2>1. Len(calls) > 0
    BY <1>10 DEF ReturnFromCall, CallInv
  <2>2. Len(calls') = Len(calls) /\ calls'[Len(calls)].retval = rax'
    BY <1>10, <2>1, ReturnFacts
  <2>3. calls'[Len(calls)].number = calls[Len(calls)].number
    BY <1>10, <2>1, ReturnFacts, CallsFacts
  <2> QED
    BY <1>10, <2>1, <2>2, <2>3 DEF ReturnFromCall, CallInv, Killed, Last
<1>11. CASE Exit
  BY <1>11
     DEF Exit, Types, ControlInv, LockStep, SideInv, CallInv, Killed, Stopped, Dead, Last,
         States
<1>12. CASE SignalStop
  BY <1>12
     DEF SignalStop, Types, ControlInv, LockStep, SideInv, CallInv, Killed, Stopped, Dead,
         Last, States
<1>13. CASE Fault
  BY <1>13
     DEF Fault, Types, ControlInv, LockStep, SideInv, CallInv, Killed, Stopped, Dead, Last,
         States
<1>14. CASE Kill
  BY <1>14
     DEF Kill, Types, ControlInv, LockStep, SideInv, CallInv, Killed, Stopped, Dead, Last,
         States
<1>15. CASE UNCHANGED vars
  BY <1>15
     DEF vars, Types, ControlInv, LockStep, SideInv, CallInv, Killed, Stopped, Dead, Last,
         States
<1> QED
  BY <1>1, <1>2, <1>3, <1>4, <1>5, <1>6, <1>7, <1>8, <1>9, <1>10, <1>11, <1>12, <1>13, <1>14,
     <1>15
     DEF Next, Tracer, Child

LEMMA LinesStep == IInv /\ [Next]_vars => LinesInv'
<1> SUFFICES ASSUME IInv, [Next]_vars PROVE LinesInv'
  OBVIOUS
<1> USE DEF IInv, arguments, tracing, command
<1>1. CASE Start
  <2>1. /\ child = "none" /\ child' \in {"none", "forked"} /\ ~inVerbose
        /\ UNCHANGED <<calls, lines, inVerbose>>
    BY <1>1, StartFacts DEF ControlInv, LockStep, SideInv, Killed
  <2>2. Len(calls) = 0 /\ Len(lines) = 0
    BY <2>1, CallsFacts DEF LinesInv
  <2>3. ~InCall'
    BY <2>1 DEF InCall
  <2> QED
    BY <2>1, <2>2, <2>3 DEF LinesInv, IsLineOf
<1>2. CASE FirstStop
  BY <1>2 DEF FirstStop, ControlInv, LockStep, SideInv, LinesInv, InCall, Killed, IsLineOf
<1>3. CASE Resume
  <2>1. UNCHANGED <<mode, calls, lines>>
    BY <1>3 DEF Resume
  <2>2. /\ ~Killed' \/ tracer' = "exit" => ~Killed
        /\ ~Killed => (InCall' <=> InCall)
        /\ child' \notin {"none", "forked"}
    BY <1>3, ResumeFacts DEF InCall, Killed
  <2> QED
    BY <2>1, <2>2 DEF LinesInv, IsLineOf
<1>4. CASE Wait
  <2>1. UNCHANGED <<mode, calls, lines>>
    BY <1>4 DEF Wait
  <2>2. /\ ~Killed' \/ tracer' = "exit" => ~Killed
        /\ ~Killed => (InCall' <=> InCall)
        /\ child' \notin {"none", "forked"}
    BY <1>4, WaitFacts DEF InCall, Killed
  <2> QED
    BY <2>1, <2>2 DEF LinesInv, IsLineOf
<1>5. CASE Count
  BY <1>5
     DEF Count, GetRegs, ControlInv, LockStep, SideInv, LinesInv, InCall, Killed, IsLineOf
<1>6. CASE PrintLine
  <2>1. /\ tracer = "exit" /\ tracer' # "exit" /\ inVerbose /\ ~inVerbose'
        /\ UNCHANGED <<mode, calls, child>>
    BY <1>6 DEF PrintLine, ControlInv
  <2>2. Len(calls) \in Nat /\ Len(lines) \in Nat /\ Len(calls) > 0
    BY <2>1, CallsFacts DEF CallInv
  <2>3. CASE mode = -1
    <3>1. lines' = lines /\ Len(lines) = 0
      BY <1>6, <2>3, PrintFacts DEF LinesInv
    <3> QED
      BY <2>1, <2>2, <2>3, <3>1 DEF LinesInv, ControlInv, LockStep, Killed
  <2>4. CASE mode # -1
    <3>1. Len(lines) = Len(calls) - 1 /\ Len(lines') = Len(calls)
      BY <1>6, <2>1, <2>2, <2>4, PrintFacts DEF LinesInv, InCall
    <3>2. ~Killed => child = "exit"
      BY <2>1 DEF ControlInv, LockStep
    <3>3. \A k \in 1 .. Len(lines) : IsLineOf(lines'[k], calls[k])
      BY <1>6, <2>1, <2>4, PrintFacts DEF LinesInv
    <3>4. ~Killed => IsLineOf(lines'[Len(calls)], calls[Len(calls)])
      <4>1. /\ lines'[Len(calls)].name = name /\ lines'[Len(calls)].retval = GetRegs.rax
        BY <1>6, <2>2, <2>4, <3>1, PrintFacts
      <4>2. ~Killed => GetRegs.rax = calls[Len(calls)].retval
        BY <2>1, <3>2, GetRegsFacts DEF CallInv, Last
      <4>3. ~Killed => name = get_syscall_name(calls[Len(calls)].number)
        BY <2>1 DEF CallInv, Last
      <4>4. calls[Len(calls)].number \in 0 .. 450
        <5>1. Len(calls) \in 1 .. Len(calls)
          BY <2>2
        <5>2. calls[Len(calls)].number \in Numbers
          BY <5>1, CallsFacts
        <5> QED
          BY <5>2, NumbersInTable
      <4>5. ~Killed /\ calls[Len(calls)].number <= 334 => name = calls[Len(calls)].number
        <5>1. \A n \in 0 .. 450 : n \in Int /\ (n <= 334 => n \in 0 .. 334)
          OBVIOUS
        <5>2. \A n \in 0 .. 450 : n <= 334 => get_syscall_name(n) = n
          BY <5>1, NameFacts
        <5> QED
          BY <4>3, <4>4, <5>2, Zenon
      <4> QED
        BY <4>1, <4>2, <4>5 DEF IsLineOf
    <3>5. \A k \in 1 .. Len(lines') : k \in 1 .. Len(lines) \/ k = Len(calls)
      BY <2>2, <3>1
    <3>6. ~Killed => \A k \in 1 .. Len(lines') : IsLineOf(lines'[k], calls[k])
      BY <3>3, <3>4, <3>5
    <3>7. ~Killed => ~InCall'
      BY <2>1, <3>2 DEF InCall
    <3>8. Killed' <=> Killed
      BY <2>1 DEF Killed
    <3>9. Len(lines') <= Len(calls)
      BY <2>2, <3>1
    <3>10. ~Killed => child' \notin {"none", "forked"}
      BY <2>1, <3>2
    <3>11. Killed => child' \notin {"none", "forked"}
      BY <2>1 DEF Killed
    <3> QED
      BY <2>1, <2>4, <3>1, <3>6, <3>7, <3>8, <3>9, <3>10, <3>11 DEF LinesInv, IsLineOf
  <2> QED
    BY <2>3, <2>4
<1>7. CASE PressEnter
  BY <1>7 DEF PressEnter, ControlInv, LockStep, SideInv, LinesInv, InCall, Killed, IsLineOf
<1>8. CASE StopItself
  BY <1>8 DEF StopItself, ControlInv, LockStep, SideInv, LinesInv, InCall, Killed, IsLineOf
<1>9. CASE EnterCall
  <2>1. child = "user" /\ child' = "entry" /\ UNCHANGED <<mode, tracer, inVerbose, lines>>
    BY <1>9 DEF EnterCall
  <2>2. /\ ~Killed /\ ~Killed' /\ ~InCall /\ InCall'
    BY <2>1 DEF Killed, InCall, ControlInv, SideInv
  <2>3. /\ Len(calls') = Len(calls) + 1 /\ Len(calls) \in Nat /\ Len(lines) \in Nat
        /\ \A i \in 1 .. Len(calls) : calls'[i] = calls[i]
    BY <1>9, EnterFacts, CallsFacts
  <2>4. \A k \in 1 .. Len(lines) : IsLineOf(lines[k], calls'[k])
    <3>1. \A k \in 1 .. Len(lines) : k \in 1 .. Len(calls)
      BY <2>3 DEF LinesInv
    <3> QED
      BY <2>2, <2>3, <3>1 DEF LinesInv
  <2>5. mode # -1 => Len(lines) = Len(calls') - 1
    BY <2>2, <2>3 DEF LinesInv
  <2>6. Len(lines) <= Len(calls')
    BY <2>3 DEF LinesInv
  <2> QED
    BY <2>1, <2>2, <2>4, <2>5, <2>6 DEF LinesInv, IsLineOf
<1>10. CASE ReturnFromCall
  <2>1. /\ child = "kernel" /\ child' = "exit"
        /\ UNCHANGED <<mode, tracer, inVerbose, lines>>
    BY <1>10 DEF ReturnFromCall
  <2>2. ~Killed /\ ~Killed' /\ inVerbose /\ Len(calls) > 0
    BY <2>1 DEF Killed, ControlInv, SideInv, CallInv
  <2>3. InCall /\ InCall'
    BY <2>1, <2>2 DEF InCall
  <2>4. /\ Len(calls') = Len(calls) /\ Len(calls) \in Nat /\ Len(lines) \in Nat
        /\ \A i \in 1 .. Len(calls) - 1 : calls'[i] = calls[i]
    BY <1>10, <2>2, ReturnFacts, CallsFacts
  <2>5. \A k \in 1 .. Len(lines) : IsLineOf(lines[k], calls'[k])
    <3>1. \A k \in 1 .. Len(lines) : k \in 1 .. Len(calls) - 1
      BY <2>2, <2>3, <2>4 DEF LinesInv
    <3> QED
      BY <2>2, <2>4, <3>1 DEF LinesInv
  <2> QED
    BY <2>1, <2>2, <2>3, <2>4, <2>5 DEF LinesInv, IsLineOf
<1>11. CASE Exit
  BY <1>11 DEF Exit, ControlInv, LockStep, SideInv, LinesInv, InCall, Killed, IsLineOf
<1>12. CASE SignalStop
  BY <1>12 DEF SignalStop, ControlInv, LockStep, SideInv, LinesInv, InCall, Killed, IsLineOf
<1>13. CASE Fault
  BY <1>13 DEF Fault, ControlInv, LockStep, SideInv, LinesInv, InCall, Killed, IsLineOf
<1>14. CASE Kill
  BY <1>14 DEF Kill, ControlInv, LockStep, SideInv, LinesInv, InCall, Killed, IsLineOf
<1>15. CASE UNCHANGED vars
  BY <1>15 DEF vars, ControlInv, LockStep, SideInv, LinesInv, InCall, Killed, IsLineOf
<1> QED
  BY <1>1, <1>2, <1>3, <1>4, <1>5, <1>6, <1>7, <1>8, <1>9, <1>10, <1>11, <1>12, <1>13, <1>14,
     <1>15
     DEF Next, Tracer, Child

-----------------------------------------------------------------------------
(* The properties                                                          *)

LEMMA LinesAreCallsStep == IInv /\ [Next]_vars => LinesAreCalls'
<1> SUFFICES ASSUME IInv, [Next]_vars PROVE LinesAreCalls'
  OBVIOUS
<1> USE DEF IInv, arguments, tracing, command
<1>1. DataTypes' /\ LinesInv'
  BY DataTypesStep, LinesStep
<1>2. DOMAIN lines' = 1 .. Len(lines') /\ Len(lines') \in Nat /\ Len(calls') \in Nat
  <2>1. /\ lines' \in Seq([name : Int, retval : Int])
        /\ calls' \in Seq([number : Numbers, retval : Int])
    BY <1>1 DEF DataTypes
  <2> QED
    BY <2>1, LenProperties, Zenon
<1>3. CASE ~Killed'
  BY <1>1, <1>2, <1>3 DEF LinesInv, LinesAreCalls
<1>4. CASE PrintLine /\ Killed
  <2>1. tracer = "exit" /\ inVerbose /\ UNCHANGED <<mode, calls, child>>
    BY <1>4 DEF PrintLine, ControlInv
  <2>2. Killed'
    BY <1>4, <2>1 DEF Killed
  <2>3. CASE mode = -1
    BY <1>4, <2>1, <2>2, <2>3, PrintFacts DEF LinesAreCalls, IsLineOf
  <2>4. CASE mode # -1
    <3>1. /\ Len(calls) > 0 /\ Len(lines) \in Nat
          /\ Len(lines) = Len(calls) - 1 /\ Len(lines') = Len(lines) + 1
      BY <1>4, <2>1, <2>4, CallsFacts, PrintFacts DEF LinesInv, InCall, CallInv
    <3>2. lines'[Len(lines')].retval = -ENOSYS
      BY <1>4, <2>1, <2>4, <3>1, PrintFacts, GetRegsFacts DEF CallInv
    <3>3. \A k \in 1 .. Len(lines) : IsLineOf(lines'[k], calls[k])
      BY <1>4, <2>1, <2>4, PrintFacts DEF LinesInv
    <3>4. \A k \in 1 .. Len(lines') : k \in 1 .. Len(lines) \/ k = Len(lines')
      BY <3>1
    <3>5. \A k \in 1 .. Len(lines') : k <= Len(calls)
      BY <1>2, <2>1, <3>1
    <3> QED
      BY <1>2, <2>1, <2>2, <3>2, <3>3, <3>4, <3>5 DEF LinesAreCalls, IsLineOf
  <2> QED
    BY <2>3, <2>4
<1>5. CASE Killed' /\ ~(PrintLine /\ Killed)
  <2>1. UNCHANGED <<lines, calls>> /\ (Killed => Killed')
    BY <1>5, StartFacts
       DEF Next, Tracer, Child, FirstStop, Resume, Wait, Count, PrintLine, PressEnter,
           StopItself, EnterCall, ReturnFromCall, Exit, SignalStop, Fault, Kill, Killed, vars
  <2> QED
    BY <1>5, <2>1 DEF LinesAreCalls, IsLineOf
<1> QED
  BY <1>3, <1>4, <1>5

LEMMA MadeFinite ==
  ASSUME Types, NEW n
  PROVE  /\ IsFiniteSet({i \in DOMAIN calls : calls[i].number = n})
         /\ MadeOf(n) \in Nat
<1>1. IsFiniteSet(1 .. Len(calls)) /\ DOMAIN calls = 1 .. Len(calls)
  BY CallsFacts, FS_Interval
<1>2. IsFiniteSet({i \in DOMAIN calls : calls[i].number = n})
  BY <1>1, FS_Subset
<1> QED
  BY <1>2, FS_CardinalityType DEF MadeOf

\* An entry that the tracer has not seen yet.
Unseen == child = "entry" /\ ~inVerbose

LEMMA CountsStep == IInv /\ [Next]_vars => CountsExact'
<1> SUFFICES ASSUME IInv, [Next]_vars, ~Killed', NEW n \in Numbers
             PROVE  counter'[n] = MadeOf(n)' -
                      (IF Unseen' /\ calls'[Len(calls')].number = n THEN 1 ELSE 0)
  BY DEF CountsExact, Numbers, Unseen, Last
<1> USE DEF IInv, arguments, tracing, command
<1>1. ~Killed => counter[n] = MadeOf(n) -
                   (IF Unseen /\ calls[Len(calls)].number = n THEN 1 ELSE 0)
  BY DEF CountsExact, Numbers, Unseen, Last
<1>2. MadeOf(n) \in Nat /\ n \in 0 .. 511 /\ counter[n] \in Int
  <2>1. n \in 0 .. 511
    BY NumbersInTable
  <2> QED
    BY <2>1, MadeFinite, Zenon DEF Types
<1>3. CASE EnterCall
  <2>1. child = "user" /\ child' = "entry" /\ UNCHANGED <<inVerbose, counter>>
    BY <1>3 DEF EnterCall
  <2>2. ~Killed /\ ~Unseen /\ Unseen'
    BY <2>1 DEF Killed, Unseen, ControlInv, SideInv
  <2>3. /\ calls' \in Seq([number : Numbers, retval : Int])
        /\ Len(calls') = Len(calls) + 1 /\ Len(calls) \in Nat /\ DOMAIN calls = 1 .. Len(calls)
        /\ \A i \in 1 .. Len(calls) : calls'[i] = calls[i]
    BY <1>3, EnterFacts, CallsFacts
  <2>4. DOMAIN calls' = DOMAIN calls \cup {Len(calls')} /\ Len(calls') \notin DOMAIN calls
    <3>1. DOMAIN calls' = 1 .. Len(calls')
      BY <2>3, LenProperties
    <3> QED
      BY <2>3, <3>1
  <2> DEFINE made == {i \in DOMAIN calls : calls[i].number = n}
             made2 == {i \in DOMAIN calls' : calls'[i].number = n}
  <2>5. made2 = IF calls'[Len(calls')].number = n THEN made \cup {Len(calls')} ELSE made
    BY <2>3, <2>4
  <2>6. Len(calls') \notin made
    BY <2>4
  <2>7. IsFiniteSet(made) /\ Cardinality(made) = MadeOf(n) /\ Cardinality(made2) = MadeOf(n)'
    BY MadeFinite DEF MadeOf
  <2> HIDE DEF made, made2
  <2>8. Cardinality(made \cup {Len(calls')}) = Cardinality(made) + 1
    BY <2>6, <2>7, FS_AddElement
  <2>9. MadeOf(n)' = IF calls'[Len(calls')].number = n THEN MadeOf(n) + 1 ELSE MadeOf(n)
    BY <2>5, <2>7, <2>8
  <2>10. counter'[n] = MadeOf(n)
    BY <1>1, <1>2, <2>1, <2>2
  <2> QED
    BY <1>2, <2>2, <2>9, <2>10
<1>4. CASE ReturnFromCall
  <2>1. child = "kernel" /\ child' = "exit" /\ UNCHANGED <<inVerbose, counter>>
    BY <1>4 DEF ReturnFromCall
  <2>2. ~Killed /\ ~Unseen /\ ~Unseen' /\ Len(calls) > 0
    BY <2>1 DEF Killed, Unseen, CallInv
  <2>3. /\ calls' \in Seq([number : Numbers, retval : Int])
        /\ Len(calls') = Len(calls) /\ DOMAIN calls = 1 .. Len(calls)
        /\ \A i \in 1 .. Len(calls) : calls'[i].number = calls[i].number
    BY <1>4, <2>2, ReturnFacts, CallsFacts
  <2>4. DOMAIN calls' = DOMAIN calls
    BY <2>3, LenProperties
  <2>5. MadeOf(n)' = MadeOf(n)
    <3>1. {i \in DOMAIN calls' : calls'[i].number = n} =
            {i \in DOMAIN calls : calls[i].number = n}
      BY <2>3, <2>4
    <3> QED
      BY <3>1 DEF MadeOf
  <2> QED
    BY <1>1, <1>2, <2>1, <2>2, <2>5
<1>5. CASE Count
  <2>1. /\ tracer = "entry" /\ inVerbose' /\ UNCHANGED <<child, calls>>
        /\ counter' = [counter EXCEPT ![GetRegs.number] = @ + 1]
    BY <1>5 DEF Count
  <2>2. ~Killed /\ Unseen /\ ~Unseen'
    BY <2>1 DEF Killed, Unseen, ControlInv, LockStep, SideInv
  <2>3. GetRegs.number = calls[Len(calls)].number
    BY <2>1, <2>2, GetRegsFacts
  <2>4. counter'[n] = IF calls[Len(calls)].number = n THEN counter[n] + 1 ELSE counter[n]
    BY <1>2, <2>1, <2>3 DEF Types
  <2>5. MadeOf(n)' = MadeOf(n)
    BY <2>1 DEF MadeOf
  <2> QED
    BY <1>1, <1>2, <2>2, <2>4, <2>5
<1>6. CASE UNCHANGED <<counter, calls>> /\ ~Killed /\ (Unseen' <=> Unseen)
  BY <1>1, <1>6 DEF MadeOf
<1>7. CASE Resume
  <2>1. UNCHANGED <<counter, calls>>
    BY <1>7 DEF Resume
  <2>2. ~Killed /\ (Unseen' <=> Unseen)
    BY <1>7, ResumeFacts DEF Killed, Unseen
  <2> QED
    BY <1>6, <2>1, <2>2
<1>8. CASE Wait
  <2>1. UNCHANGED <<counter, calls>>
    BY <1>8 DEF Wait
  <2>2. ~Killed /\ (Unseen' <=> Unseen)
    BY <1>8, WaitFacts DEF Killed, Unseen
  <2> QED
    BY <1>6, <2>1, <2>2
<1>9. CASE Start
  BY <1>6, <1>9, StartFacts DEF Killed, Unseen, ControlInv, LockStep
<1>10. CASE PrintLine
  BY <1>6, <1>10 DEF PrintLine, Killed, Unseen, ControlInv, LockStep
<1>11. CASE \/ FirstStop \/ PressEnter \/ StopItself \/ Exit \/ SignalStop \/ Fault \/ Kill
            \/ UNCHANGED vars
  BY <1>6, <1>11 DEF FirstStop, PressEnter, StopItself, Exit, SignalStop, Fault, Kill, vars,
                     Killed, Unseen
<1> QED
  BY <1>3, <1>4, <1>5, <1>7, <1>8, <1>9, <1>10, <1>11 DEF Next, Tracer, Child

-----------------------------------------------------------------------------
(* The inductive invariant holds                                           *)

LEMMA InitIInv == Init => IInv
<1> SUFFICES ASSUME Init PROVE IInv
  OBVIOUS
<1>1. Types
  <2>1. /\ calls \in Seq([number : Numbers, retval : Int])
        /\ lines \in Seq([name : Int, retval : Int])
    BY EmptySeq, Zenon DEF Init
  <2>2. counter \in [0 .. 511 -> Int]
    BY DEF Init
  <2>3. regs \in [number : Int, rax : Int] /\ name \in Int /\ rax \in Int
    BY DEF Init
  <2>4. tracer \in Places /\ child \in States /\ inVerbose \in BOOLEAN
    BY DEF Init, Places, States
  <2> QED
    BY <2>1, <2>2, <2>3, <2>4, Zenon DEF Types
<1>2. ControlInv /\ ~Killed
  BY DEF Init, ControlInv, LockStep, SideInv, Killed
<1>3. CallInv /\ LinesInv
  BY DEF Init, CallInv, LinesInv, InCall, IsLineOf
<1>4. LinesAreCalls
  BY <1>1, <1>3, CallsFacts DEF Init, LinesAreCalls
<1>5. CountsExact
  <2> SUFFICES ASSUME NEW n \in Numbers
               PROVE  counter[n] = MadeOf(n) - (IF child = "entry" /\ ~inVerbose
                                                   /\ calls[Last].number = n THEN 1 ELSE 0)
    BY DEF CountsExact, Numbers
  <2>0. child # "entry"
    BY DEF Init
  <2>1. {i \in DOMAIN calls : calls[i].number = n} = {}
    BY DEF Init
  <2>2. n \in 0 .. 511
    BY NumbersInTable
  <2>3. counter[n] = 0 /\ MadeOf(n) = 0
    BY <2>1, <2>2, FS_EmptySet DEF Init, MadeOf
  <2>4. (IF child = "entry" /\ ~inVerbose /\ calls[Last].number = n THEN 1 ELSE 0) = 0
    BY <2>0, Zenon
  <2>5. 0 - 0 = 0
    OBVIOUS
  <2> QED
    BY <2>3, <2>4, <2>5, Zenon
<1> QED
  BY <1>1, <1>2, <1>3, <1>4, <1>5 DEF IInv

LEMMA StepIInv == IInv /\ [Next]_vars => IInv'
<1>1. IInv /\ [Next]_vars => Types'
  BY ControlTypesStep, DataTypesStep DEF Types, ControlTypes, DataTypes
<1> QED
  BY <1>1, ControlStep, CallStep, CountsStep, LinesStep, LinesAreCallsStep DEF IInv

LEMMA IInvHolds == Spec => []IInv
BY InitIInv, StepIInv, PTL DEF Spec

(* The summary has each system call of the child once: print_verbose       *)
(* counts (systrace.c:97) at entries only, although an entry and an exit   *)
(* look alike to it and signals, execve's trap among them, stop the child  *)
(* in between.                                                             *)
THEOREM EachCallCounted == Spec => []CountsExact
BY IInvHolds, PTL DEF IInv

(* Each printed line has the name and the result of one call of the child, *)
(* in the order of the calls, whatever number of calls and signals there   *)
(* were.                                                                   *)
THEOREM EachLineIsACall == Spec => []LinesAreCalls
BY IInvHolds, PTL DEF IInv
-----------------------------------------------------------------------------
(* The command line                                                        *)

\* Induction, for sets of numbers.
LEMMA Induct ==
  ASSUME NEW S, 0 \in S, \A n \in S : n \in Nat => n + 1 \in S
  PROVE  Nat \subseteq S
<1> SUFFICES ASSUME Nat \ S # {} PROVE FALSE
  OBVIOUS
<1> DEFINE T == Nat \ S
<1>1. \E m \in T : \A n \in T : ~(<<n, m>> \in OpToRel(<, Nat))
  <2>1. T \subseteq Nat /\ T # {}
    OBVIOUS
  <2> HIDE DEF T
  <2> QED
    BY <2>1, NatLessThanWellFounded, WFMin, Zenon
<1>2. PICK m \in T : \A n \in T : ~(<<n, m>> \in OpToRel(<, Nat))
  BY <1>1
<1>3. ASSUME NEW n \in T PROVE ~(n < m)
  <2>1. ~(<<n, m>> \in {ss \in Nat \X Nat : ss[1] < ss[2]})
    BY <1>2, Zenon DEF OpToRel
  <2> QED
    BY <2>1
<1>4. m # 0 /\ m - 1 \in Nat /\ m - 1 < m
  OBVIOUS
<1>5. m - 1 \in S
  BY <1>3, <1>4
<1>6. (m - 1) + 1 \in S
  BY <1>4, <1>5
<1> QED
  BY <1>6

\* The array that read_parameters reads, and the equation of its loop.
Array(given) == [i \in 0 .. Len(given) |-> IF i = 0 THEN "systrace" ELSE given[i]]
LoopStep(given, g) ==
  [i \in 0 .. Len(given) |->
     IF i = 0 THEN Empty(Array(given)) ELSE ReadParameter(g[i - 1], g[i - 1].argv[i])]

LEMMA ReadUnfold ==
  ASSUME NEW given
  PROVE  read_parameters(given) = (CHOOSE g : g = LoopStep(given, g))[Len(given)]
BY DEF read_parameters, LoopStep, Array

\* A function that satisfies the equation exists.
LEMMA LoopExists ==
  ASSUME NEW given, Len(given) \in Nat
  PROVE  \E g : g = LoopStep(given, g)
<1> DEFINE D == 0 .. Len(given)
           Step(g) == LoopStep(given, g)
           Solves(g, n) == \A i \in D : i <= n => g[i] = Step(g)[i]
           S == {n \in Nat : \E g : Solves(g, n)}
<1>1. \A g : \A i \in D : Step(g)[i] =
        IF i = 0 THEN Empty(Array(given)) ELSE ReadParameter(g[i - 1], g[i - 1].argv[i])
  BY DEF LoopStep
<1>2. \A i \in D : i \in Int /\ (i # 0 => i - 1 \in D)
  OBVIOUS
<1>3. 0 \in S
  <2> DEFINE g == [i \in D |-> Empty(Array(given))]
  <2>1. ASSUME NEW i \in D, i <= 0 PROVE g[i] = Step(g)[i]
    <3>1. i = 0
      BY <2>1
    <3> QED
      BY <1>1, <3>1
  <2> HIDE DEF g
  <2>2. Solves(g, 0)
    BY <2>1
  <2> QED
    BY <2>2
<1> HIDE DEF D, Step
<1>4. ASSUME NEW n \in S PROVE n + 1 \in S
  <2>1. PICK g : Solves(g, n)
    OBVIOUS
  <2> DEFINE h == Step(g)
  <2>2. ASSUME NEW i \in D, i <= n + 1 PROVE h[i] = Step(h)[i]
    <3>1. CASE i = 0
      BY <1>1, <3>1
    <3>2. CASE i # 0
      <4>1. i - 1 \in D /\ i - 1 <= n
        BY <1>2, <2>2, <3>2
      <4>2. g[i - 1] = h[i - 1]
        BY <2>1, <4>1
      <4>3. h[i] = ReadParameter(g[i - 1], g[i - 1].argv[i])
        BY <1>1, <3>2
      <4> HIDE DEF h
      <4>4. Step(h)[i] = ReadParameter(h[i - 1], h[i - 1].argv[i])
        BY <1>1, <3>2
      <4> QED
        BY <4>2, <4>3, <4>4
    <3> QED
      BY <3>1, <3>2
  <2> HIDE DEF h
  <2>3. Solves(h, n + 1)
    BY <2>2
  <2> QED
    BY <2>3
<1> HIDE DEF S
<1>5. Len(given) \in S
  BY <1>3, <1>4, Induct
<1>6. PICK g : Solves(g, Len(given))
  BY <1>5 DEF S
<1>7. \A i \in D : g[i] = Step(g)[i]
  BY <1>6 DEF D
<1> DEFINE h == Step(g)
<1>8. \A i \in D : g[i] = h[i]
  BY <1>7
<1> HIDE DEF h
<1>9. ASSUME NEW i \in D PROVE h[i] = Step(h)[i]
  <2>1. h[i] = IF i = 0 THEN Empty(Array(given))
                        ELSE ReadParameter(g[i - 1], g[i - 1].argv[i])
    BY <1>1 DEF h
  <2>2. Step(h)[i] = IF i = 0 THEN Empty(Array(given))
                              ELSE ReadParameter(h[i - 1], h[i - 1].argv[i])
    BY <1>1
  <2>3. i # 0 => g[i - 1] = h[i - 1]
    BY <1>2, <1>8
  <2> QED
    BY <2>1, <2>2, <2>3
<1>10. h = [i \in D |-> h[i]] /\ Step(h) = [i \in D |-> Step(h)[i]]
  BY DEF h, Step, LoopStep, D
<1>11. h = Step(h)
  BY <1>9, <1>10
<1> QED
  BY <1>11 DEF Step

\* The arguments up to the i-th one that are no options, and those that are.
KeptUpTo(given, i) == {j \in 1 .. i : given[j] \notin Options}
TakenUpTo(given, i) == {j \in 1 .. i : given[j] \in Options}

LEMMA KeptCount ==
  ASSUME NEW given, NEW i \in Nat
  PROVE  /\ IsFiniteSet(KeptUpTo(given, i))
         /\ Cardinality(KeptUpTo(given, i)) \in 0 .. i
         /\ \A j \in KeptUpTo(given, i) :
              Cardinality(KeptUpTo(given, j)) \in 1 .. Cardinality(KeptUpTo(given, i))
<1>1. IsFiniteSet(1 .. i) /\ Cardinality(1 .. i) = i
  BY FS_Interval
<1>2. KeptUpTo(given, i) \subseteq 1 .. i
  BY DEF KeptUpTo
<1>3. IsFiniteSet(KeptUpTo(given, i)) /\ Cardinality(KeptUpTo(given, i)) \in Nat
      /\ Cardinality(KeptUpTo(given, i)) <= i
  BY <1>1, <1>2, FS_Subset, FS_CardinalityType
<1>4. ASSUME NEW j \in KeptUpTo(given, i)
      PROVE  Cardinality(KeptUpTo(given, j)) \in 1 .. Cardinality(KeptUpTo(given, i))
  <2>1. j \in 1 .. i /\ KeptUpTo(given, j) \subseteq KeptUpTo(given, i)
        /\ j \in KeptUpTo(given, j)
    BY DEF KeptUpTo
  <2>2. /\ IsFiniteSet(KeptUpTo(given, j))
        /\ Cardinality(KeptUpTo(given, j)) <= Cardinality(KeptUpTo(given, i))
    BY <1>3, <2>1, FS_Subset
  <2>3. Cardinality(KeptUpTo(given, j)) \in Nat /\ Cardinality(KeptUpTo(given, j)) # 0
    BY <2>1, <2>2, FS_CardinalityType, FS_EmptySet
  <2> QED
    BY <1>3, <2>2, <2>3
<1> QED
  BY <1>3, <1>4

\* What a turn of the loop has done: the kept arguments are at the front, those
\* still to be read are in place.
ReadInv(given, i, s) ==
  /\ s = [argv |-> s.argv, argc |-> s.argc, mode |-> s.mode]
  /\ s.argv = [k \in 0 .. Len(given) |-> s.argv[k]]
  /\ s.argc = Cardinality(KeptUpTo(given, i))
  /\ \A j \in KeptUpTo(given, i) : s.argv[Cardinality(KeptUpTo(given, j)) - 1] = given[j]
  /\ \A j \in i + 1 .. Len(given) : s.argv[j] = given[j]
  /\ IF TakenUpTo(given, i) = {} THEN s.mode = -1
     ELSE \E j \in TakenUpTo(given, i) :
            /\ \A k \in TakenUpTo(given, i) : k <= j
            /\ s.mode = IF given[j] = "-v" THEN 0 ELSE 1

LEMMA ReadStart ==
  ASSUME NEW given, Len(given) \in Nat
  PROVE  ReadInv(given, 0, Empty(Array(given)))
<1>1. KeptUpTo(given, 0) = {} /\ TakenUpTo(given, 0) = {}
  BY DEF KeptUpTo, TakenUpTo
<1>2. Cardinality(KeptUpTo(given, 0)) = 0
  BY <1>1, FS_EmptySet
<1> QED
  BY <1>1, <1>2 DEF ReadInv, Empty, Array

LEMMA ReadTurn ==
  ASSUME NEW given, Len(given) \in Nat, NEW i \in 0 .. Len(given) - 1, NEW s,
         ReadInv(given, i, s)
  PROVE  ReadInv(given, i + 1, ReadParameter(s, s.argv[i + 1]))
<1> DEFINE arg == s.argv[i + 1]
           next == ReadParameter(s, arg)
           argc == Cardinality(KeptUpTo(given, i))
<1>1. /\ s = [argv |-> s.argv, argc |-> s.argc, mode |-> s.mode]
      /\ s.argv = [k \in 0 .. Len(given) |-> s.argv[k]]
      /\ s.argc = argc
      /\ \A j \in KeptUpTo(given, i) :
           s.argv[Cardinality(KeptUpTo(given, j)) - 1] = given[j]
      /\ \A j \in i + 1 .. Len(given) : s.argv[j] = given[j]
  BY DEF ReadInv
<1>2. IF TakenUpTo(given, i) = {} THEN s.mode = -1
      ELSE \E j \in TakenUpTo(given, i) :
             /\ \A k \in TakenUpTo(given, i) : k <= j
             /\ s.mode = IF given[j] = "-v" THEN 0 ELSE 1
  BY DEF ReadInv
<1>3. i \in Nat /\ i + 1 \in 1 .. Len(given) /\ arg = given[i + 1]
  <2>1. i \in Nat /\ i + 1 \in i + 1 .. Len(given) /\ i + 1 \in 1 .. Len(given)
    OBVIOUS
  <2>2. \A j \in i + 1 .. Len(given) : s.argv[j] = given[j]
    BY <1>1
  <2> QED
    BY <2>1, <2>2
<1>4. /\ IsFiniteSet(KeptUpTo(given, i)) /\ argc \in 0 .. i
      /\ \A j \in KeptUpTo(given, i) : Cardinality(KeptUpTo(given, j)) \in 1 .. argc
  BY <1>3, KeptCount
<1>5. 1 .. i + 1 = (1 .. i) \cup {i + 1}
  BY <1>3
<1> HIDE DEF arg
<1>6. CASE arg \in Options
  <2>1. /\ KeptUpTo(given, i + 1) = KeptUpTo(given, i)
        /\ TakenUpTo(given, i + 1) = TakenUpTo(given, i) \cup {i + 1}
    BY <1>3, <1>5, <1>6 DEF KeptUpTo, TakenUpTo
  <2>2. next = [s EXCEPT !.mode = IF arg = "-v" THEN 0 ELSE 1]
    BY <1>6 DEF ReadParameter, Options
  <2> HIDE DEF next
  <2>3. /\ next.argv = s.argv /\ next.argc = s.argc
        /\ next.mode = IF given[i + 1] = "-v" THEN 0 ELSE 1
        /\ next = [argv |-> next.argv, argc |-> next.argc, mode |-> next.mode]
    BY <1>1, <1>3, <2>2
  <2>4. \A k \in TakenUpTo(given, i + 1) : k <= i + 1
    BY <1>3 DEF TakenUpTo
  <2>5. \E j \in TakenUpTo(given, i + 1) :
          /\ \A k \in TakenUpTo(given, i + 1) : k <= j
          /\ next.mode = IF given[j] = "-v" THEN 0 ELSE 1
    BY <2>1, <2>3, <2>4
  <2>6. \A j \in i + 1 + 1 .. Len(given) : next.argv[j] = given[j]
    <3>1. \A j \in i + 1 + 1 .. Len(given) : j \in i + 1 .. Len(given)
      BY <1>3
    <3>2. \A j \in i + 1 .. Len(given) : s.argv[j] = given[j]
      BY <1>1
    <3> QED
      BY <2>3, <3>1, <3>2
  <2>7. ReadInv(given, i + 1, next)
    BY <1>1, <2>1, <2>3, <2>5, <2>6 DEF ReadInv
  <2> QED
    BY <2>7 DEF next, arg
<1>7. CASE arg \notin Options
  <2>1. /\ KeptUpTo(given, i + 1) = KeptUpTo(given, i) \cup {i + 1}
        /\ i + 1 \notin KeptUpTo(given, i)
        /\ TakenUpTo(given, i + 1) = TakenUpTo(given, i)
    BY <1>3, <1>5, <1>7 DEF KeptUpTo, TakenUpTo
  <2>2. next = [s EXCEPT !.argv[s.argc] = arg, !.argc = @ + 1]
    BY <1>7 DEF ReadParameter, Options
  <2> HIDE DEF next, argc
  <2>3. /\ next.argv = [s.argv EXCEPT ![s.argc] = arg]
        /\ next.argc = s.argc + 1 /\ next.mode = s.mode
        /\ next = [argv |-> next.argv, argc |-> next.argc, mode |-> next.mode]
    BY <1>1, <2>2
  <2>4. next.argv = [k \in 0 .. Len(given) |-> IF k = argc THEN given[i + 1] ELSE s.argv[k]]
    BY <1>1, <1>3, <2>3
  <2>5. Cardinality(KeptUpTo(given, i + 1)) = argc + 1
    BY <1>4, <2>1, FS_AddElement DEF argc
  <2>6. ASSUME NEW j \in KeptUpTo(given, i + 1)
        PROVE  next.argv[Cardinality(KeptUpTo(given, j)) - 1] = given[j]
    <3>1. CASE j = i + 1
      <4>1. Cardinality(KeptUpTo(given, j)) - 1 = argc
        BY <1>4, <2>5, <3>1
      <4>2. argc \in 0 .. Len(given)
        BY <1>3, <1>4
      <4> QED
        BY <2>4, <3>1, <4>1, <4>2
    <3>2. CASE j \in KeptUpTo(given, i)
      <4> DEFINE c == Cardinality(KeptUpTo(given, j))
      <4>1. c \in 1 .. argc
        BY <1>4, <3>2
      <4>2. s.argv[c - 1] = given[j]
        BY <1>1, <3>2
      <4> HIDE DEF c
      <4>3. c - 1 \in 0 .. Len(given) /\ c - 1 # argc
        BY <1>3, <1>4, <4>1
      <4>4. next.argv[c - 1] = given[j]
        BY <2>4, <4>2, <4>3
      <4> QED
        BY <4>4 DEF c
    <3> QED
      BY <2>1, <3>1, <3>2
  <2>7. \A j \in i + 1 + 1 .. Len(given) : next.argv[j] = given[j]
    <3>1. \A j \in i + 1 + 1 .. Len(given) :
            j \in 0 .. Len(given) /\ j # argc /\ j \in i + 1 .. Len(given)
      BY <1>3, <1>4
    <3> QED
      BY <1>1, <2>4, <3>1
  <2>8. next.argv = [k \in 0 .. Len(given) |-> next.argv[k]]
    BY <2>4
  <2>9. next.argc = Cardinality(KeptUpTo(given, i + 1))
    BY <1>1, <2>3, <2>5
  <2>10. IF TakenUpTo(given, i + 1) = {} THEN next.mode = -1
         ELSE \E j \in TakenUpTo(given, i + 1) :
                /\ \A k \in TakenUpTo(given, i + 1) : k <= j
                /\ next.mode = IF given[j] = "-v" THEN 0 ELSE 1
    BY <1>2, <2>1, <2>3
  <2>11. ReadInv(given, i + 1, next)
    BY <2>3, <2>6, <2>7, <2>8, <2>9, <2>10 DEF ReadInv
  <2> QED
    BY <2>11 DEF next, arg
<1> QED
  BY <1>6, <1>7

LEMMA ReadRight ==
  ASSUME NEW given, Len(given) \in Nat
  PROVE  ReadInv(given, Len(given), read_parameters(given))
<1> DEFINE loop == CHOOSE g : g = LoopStep(given, g)
           S == {n \in Nat : n <= Len(given) => ReadInv(given, n, loop[n])}
<1>1. loop = LoopStep(given, loop)
  BY LoopExists
<1>2. read_parameters(given) = loop[Len(given)]
  BY ReadUnfold
<1> HIDE DEF loop
<1>3. \A i \in 0 .. Len(given) : loop[i] =
        IF i = 0 THEN Empty(Array(given)) ELSE ReadParameter(loop[i - 1], loop[i - 1].argv[i])
  BY <1>1 DEF LoopStep
<1>4. 0 \in S
  <2>1. loop[0] = Empty(Array(given))
    BY <1>3
  <2> QED
    BY <2>1, ReadStart
<1>5. ASSUME NEW n \in S PROVE n + 1 \in S
  <2>1. ASSUME n + 1 <= Len(given) PROVE ReadInv(given, n + 1, loop[n + 1])
    <3>1. n \in 0 .. Len(given) - 1 /\ ReadInv(given, n, loop[n])
      BY <2>1
    <3>2. n + 1 \in 0 .. Len(given) /\ n + 1 # 0 /\ (n + 1) - 1 = n
      BY <3>1
    <3>3. loop[n + 1] = ReadParameter(loop[n], loop[n].argv[n + 1])
      BY <1>3, <3>2
    <3> QED
      BY <3>1, <3>3, ReadTurn
  <2> QED
    BY <2>1
<1> HIDE DEF S
<1>6. Len(given) \in S
  BY <1>4, <1>5, Induct
<1> QED
  BY <1>2, <1>6 DEF S

\* ArgumentsKept, of any arguments.
PassedOn(a, argv, m) ==
  LET given == {i \in DOMAIN a : a[i] \in Options}
      kept == DOMAIN a \ given
  IN  /\ Len(argv) = Cardinality(kept)
      /\ \A i \in kept : argv[Cardinality({j \in kept : j <= i})] = a[i]
      /\ IF given = {} THEN m = -1
         ELSE \E i \in given : /\ \A j \in given : j <= i
                               /\ m = IF a[i] = "-v" THEN 0 ELSE 1

ArgumentsInv == args \in CommandLines /\ ArgumentsKept

LEMMA StartKeeps ==
  ASSUME args \in CommandLines, Start
  PROVE  ArgumentsKept'
<1> DEFINE read == read_parameters(args)
           n == Len(args)
<1>1. PICK m \in 0 .. MaxArgs : args \in [1 .. m -> Options \cup Words]
  BY DEF CommandLines
<1>2. /\ n \in Nat /\ DOMAIN args = 1 .. n
  BY <1>1, BoundsAssumption
<1>3. /\ args' = args /\ mode' = read.mode
      /\ child_argv' = [i \in 1 .. read.argc |-> read.argv[i - 1]]
  BY DEF Start
<1>4. ReadInv(args, n, read)
  BY <1>2, ReadRight
<1> HIDE DEF read, n
<1>5. /\ read.argc = Cardinality(KeptUpTo(args, n))
      /\ \A j \in KeptUpTo(args, n) :
           read.argv[Cardinality(KeptUpTo(args, j)) - 1] = args[j]
      /\ IF TakenUpTo(args, n) = {} THEN read.mode = -1
         ELSE \E j \in TakenUpTo(args, n) :
                /\ \A k \in TakenUpTo(args, n) : k <= j
                /\ read.mode = IF args[j] = "-v" THEN 0 ELSE 1
  BY <1>4 DEF ReadInv, n
<1> DEFINE given == {i \in DOMAIN args : args[i] \in Options}
           kept == DOMAIN args \ given
<1>6. /\ given = TakenUpTo(args, n) /\ kept = KeptUpTo(args, n)
      /\ \A i \in kept : {j \in kept : j <= i} = KeptUpTo(args, i)
  BY <1>2 DEF TakenUpTo, KeptUpTo
<1>7. /\ Cardinality(kept) \in Nat
      /\ \A i \in kept : Cardinality(KeptUpTo(args, i)) \in 1 .. Cardinality(kept)
  <2>1. /\ Cardinality(KeptUpTo(args, n)) \in Nat
        /\ \A i \in KeptUpTo(args, n) :
             Cardinality(KeptUpTo(args, i)) \in 1 .. Cardinality(KeptUpTo(args, n))
    BY <1>2, KeptCount
  <2> HIDE DEF given, kept
  <2> QED
    BY <1>6, <2>1
<1> HIDE DEF given, kept
<1>8. Len(child_argv') = Cardinality(kept)
  BY <1>3, <1>5, <1>6, <1>7
<1>9. ASSUME NEW i \in kept
      PROVE  child_argv'[Cardinality({j \in kept : j <= i})] = args[i]
  <2> DEFINE c == Cardinality(KeptUpTo(args, i))
  <2>1. c \in 1 .. read.argc /\ read.argv[c - 1] = args[i]
    BY <1>5, <1>6, <1>7
  <2> HIDE DEF c
  <2>2. child_argv'[c] = args[i]
    BY <1>3, <2>1
  <2> QED
    BY <1>6, <2>2 DEF c
<1>10. IF given = {} THEN mode' = -1
       ELSE \E i \in given : /\ \A j \in given : j <= i
                             /\ mode' = IF args[i] = "-v" THEN 0 ELSE 1
  BY <1>3, <1>5, <1>6
<1>11. PassedOn(args, child_argv', mode')
  BY <1>8, <1>9, <1>10 DEF PassedOn, given, kept
<1>12. PassedOn(args', child_argv', mode')
  BY <1>3, <1>11
<1> QED
  BY <1>12 DEF ArgumentsKept, PassedOn

(* The arguments that are passed on are those without the options, in      *)
(* their order: the loop of read_parameters (systrace.c:50) never          *)
(* overwrites one that it has not read.                                    *)
THEOREM ArgumentsArePassedOn == Spec => []ArgumentsKept
<1>1. Init => ArgumentsInv
  BY DEF Init, ArgumentsInv, ArgumentsKept
<1>2. ArgumentsInv /\ [Next]_vars => ArgumentsInv'
  <2> SUFFICES ASSUME ArgumentsInv, [Next]_vars PROVE ArgumentsInv'
    OBVIOUS
  <2>1. CASE Start
    <3>1. args' = args
      BY <2>1 DEF Start
    <3> QED
      BY <2>1, <3>1, StartKeeps DEF ArgumentsInv
  <2>2. CASE ~Start
    <3>1. UNCHANGED arguments /\ (tracer' # "main" => tracer # "main")
      BY <2>2 DEF Next, Tracer, Child, FirstStop, Resume, Wait, Count, PrintLine, PressEnter,
                  StopItself, EnterCall, ReturnFromCall, Exit, SignalStop, Fault, Kill, vars
    <3> QED
      BY <3>1 DEF ArgumentsInv, ArgumentsKept, arguments
  <2> QED
    BY <2>1, <2>2
<1> QED
  BY <1>1, <1>2, PTL DEF Spec, ArgumentsInv
=============================================================================
