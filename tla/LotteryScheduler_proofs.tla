---------------------- MODULE LotteryScheduler_proofs ----------------------
(***************************************************************************)
(* Proofs about LotteryScheduler, for any number of threads, tickets,      *)
(* slices and starts, whether or not a quantum may end before the jump:    *)
(* what signals find, whose code runs, who is counted and who owns which   *)
(* ticket.                                                                 *)
(***************************************************************************)
EXTENDS LotteryScheduler, FiniteSetTheorems, SequenceTheorems, TLAPS

-----------------------------------------------------------------------------
(* The inductive invariant                                                 *)

\* The places between the call of start_scheduler and its return.
InRun == pc \in {"wait"} \cup SchedulerPcs \cup ThreadPcs

\* The place that goes on when the signal handler or schedule has finished.
Place == IF InScheduler THEN from ELSE pc

\* A thread has been chosen, and its stack is the one in use.
OnThread == Place \in ThreadPcs \cup {"jump"}

\* Where the program is: run_scheduler has a frame, the table has room.
ControlInv ==
  /\ pc = "create" => toCreate <= MaxThreads - numCreated /\ toCreate > 0
  /\ pc \in {"start", "gtk"} \/ InRun => Len(frames) > 0
  /\ InRun => running
  /\ InScheduler => from \in ThreadPcs \cup {"jump", "start", "wait"}
  /\ InScheduler /\ from = "jump" => TickBeforeJump
  /\ pc = "draw" => numActive > 0

\* The signal: its handler is there as long as a preemptive run goes on.
SignalInv ==
  /\ pc # "killed"
  /\ handler = "isr" <=> schedMode = "preemptive" /\ InRun
  /\ timer => handler = "isr" /\ pc \in {"wait", "isr", "jump"} \cup ThreadPcs
  /\ blocked => handler = "isr" /\ InScheduler
  /\ pending => blocked
  /\ pc = "isr" => blocked

\* Which thread is chosen, and what its status says of the place it is at.
CurrentInv ==
  /\ current \in Created \cup {NoThread}
  /\ OnThread => current \in Created /\ ~reEnter
  /\ ~OnThread /\ pc # "draw" => current = NoThread \/ reEnter
  /\ pc = "draw" => ~reEnter
  /\ \A i \in Created : status[i] = "running" => OnThread /\ i = current
  /\ Place \in {"run", "jump"} => status[current] = "running"
  /\ Place \in {"marked", "counted", "stuck"} => status[current] = "done"
  /\ Place \in ThreadPcs => resume[current] = "run"

\* The places saved for the threads.
SavedInv ==
  \A i \in Created :
    /\ resume[i] \in ThreadPcs \cup {"jump"}
    /\ resume[i] = "jump" => TickBeforeJump
    /\ resume[i] \in {"marked", "counted", "stuck"} => status[i] = "done"

\* The ranges of tickets lie below the total.
TicketInv ==
  /\ \A i \in Created : minTicket[i] <= maxTicket[i] /\ maxTicket[i] <= totalTickets
  /\ OneOwner

IInv ==
  /\ TypeOK /\ ControlInv /\ SignalInv /\ CurrentInv /\ SavedInv /\ ActiveExact
  /\ TicketInv

-----------------------------------------------------------------------------
(* Facts                                                                   *)

LEMMA CreatedFacts == TypeOK => /\ Created \subseteq Ids /\ NoThread \notin Ids
                                /\ numCreated \notin Created
BY NoThreadAssumption, MaxThreadsAssumption DEF TypeOK, Created, Ids

\* What is known of a chosen thread.
LEMMA ThreadFacts ==
  ASSUME TypeOK, CurrentInv, OnThread
  PROVE  current \in Ids /\ current # NoThread /\ ~reEnter
BY CreatedFacts DEF CurrentInv

LEMMA JumpFacts ==
  ASSUME TypeOK, CurrentInv, SavedInv, pc = "jump"
  PROVE  /\ current \in Created /\ resume[current] \in {"run", "jump"}
         /\ status[current] = "running" /\ ~reEnter
BY DEF CurrentInv, SavedInv, OnThread, Place, InScheduler, ThreadPcs

LEMMA AppendLength ==
  ASSUME NEW S, NEW s \in Seq(S), NEW x \in S
  PROVE  Append(s, x) \in Seq(S) /\ Len(Append(s, x)) > 0
OBVIOUS

LEMMA FrontLength ==
  ASSUME NEW S, NEW s \in Seq(S), Len(s) > 0
  PROVE  /\ SubSeq(s, 1, Len(s) - 1) \in Seq(S)
         /\ Len(s) # 1 => Len(SubSeq(s, 1, Len(s) - 1)) > 0
<1>1. Len(s) \in Nat /\ 1 \in Int /\ Len(s) - 1 \in Int
  BY LenProperties
<1>2. \A i \in 1 .. Len(s) - 1 : s[i] \in S
  BY <1>1, ElementOfSeq
<1>3. SubSeq(s, 1, Len(s) - 1) \in Seq(S)
  BY <1>1, <1>2, SubSeqProperties
<1>4. Len(SubSeq(s, 1, Len(s) - 1)) = IF 1 <= Len(s) - 1 THEN (Len(s) - 1) - 1 + 1 ELSE 0
  BY <1>1, <1>2, SubSeqProperties
<1>5. \A n \in Nat : n > 0 /\ n # 1 => (IF 1 <= n - 1 THEN (n - 1) - 1 + 1 ELSE 0) > 0
  OBVIOUS
<1> QED
  BY <1>1, <1>3, <1>4, <1>5, Zenon

\* What create_thread adds.
LEMMA CreateFacts ==
  ASSUME TypeOK, ControlInv, CreateThread
  PROVE  /\ Created' = Created \cup {numCreated} /\ numCreated \in Ids
         /\ numActive' = numActive + 1
         /\ status' = [status EXCEPT ![numCreated] = "ready"]
         /\ resume' = [resume EXCEPT ![numCreated] = "run"]
         /\ pc = "create" /\ pc' \in {"create", "start"}
         /\ UNCHANGED <<current, reEnter, from>>
<1>1. Created' = Created \cup {numCreated} /\ numCreated \in Ids
  <2>1. /\ numCreated' = numCreated + 1 /\ numCreated < MaxThreads
        /\ numCreated \in 0 .. MaxThreads
    <3>1. pc = "create" /\ numCreated' = numCreated + 1
      BY DEF CreateThread
    <3>2. numCreated \in 0 .. MaxThreads /\ toCreate \in 0 .. MaxThreads
      BY DEF TypeOK
    <3>3. toCreate <= MaxThreads - numCreated /\ toCreate > 0
      BY <3>1 DEF ControlInv
    <3> QED
      BY <3>1, <3>2, <3>3, MaxThreadsAssumption
  <2>2. numCreated \in Nat /\ MaxThreads \in Nat
    BY <2>1, MaxThreadsAssumption
  <2>3. 0 .. (numCreated + 1) - 1 = (0 .. numCreated - 1) \cup {numCreated}
    BY <2>2
  <2>4. numCreated \in 0 .. MaxThreads - 1
    BY <2>1, <2>2
  <2> QED
    BY <2>1, <2>3, <2>4 DEF Created, Ids
<1> QED
  BY <1>1 DEF CreateThread, flags

-----------------------------------------------------------------------------
(* The count of the active threads                                         *)

LEMMA Finite ==
  ASSUME TypeOK
  PROVE  /\ IsFiniteSet(Created) /\ Cardinality(Created) = numCreated
         /\ IsFiniteSet(Unfinished) /\ Cardinality(Unfinished) \in Nat
         /\ IsFiniteSet(Uncounted) /\ Cardinality(Uncounted) \in Nat
         /\ Cardinality(Unfinished) + Cardinality(Uncounted) <= numCreated
<1>1. IsFiniteSet(Created) /\ Cardinality(Created) = numCreated
  <2>1. numCreated \in Nat /\ 0 \in Int /\ numCreated - 1 \in Int
    BY DEF TypeOK
  <2>2. IsFiniteSet(0 .. numCreated - 1)
    BY <2>1, FS_Interval
  <2>3. Cardinality(0 .. numCreated - 1) =
          IF 0 > numCreated - 1 THEN 0 ELSE (numCreated - 1) - 0 + 1
    BY <2>1, FS_Interval
  <2> QED
    BY <2>1, <2>2, <2>3 DEF Created
<1>2. /\ Unfinished \in SUBSET Created /\ Uncounted \in SUBSET Created
      /\ Unfinished \cap Uncounted = {} /\ Unfinished \cup Uncounted \in SUBSET Created
  BY DEF Unfinished, Uncounted
<1>3. IsFiniteSet(Unfinished) /\ IsFiniteSet(Uncounted)
  BY <1>1, <1>2, FS_Subset
<1>4. Cardinality(Unfinished) \in Nat /\ Cardinality(Uncounted) \in Nat
  BY <1>3, FS_CardinalityType
<1>5. Cardinality(Unfinished \cup Uncounted) =
        Cardinality(Unfinished) + Cardinality(Uncounted)
          - Cardinality(Unfinished \cap Uncounted)
  BY <1>3, FS_Union
<1>6. Cardinality(Unfinished \cap Uncounted) = 0
  BY <1>2, FS_EmptySet
<1>7. Cardinality(Unfinished \cup Uncounted) <= Cardinality(Created)
  BY <1>1, <1>2, FS_Subset
<1> QED
  BY <1>1, <1>3, <1>4, <1>5, <1>6, <1>7

LEMMA ActiveBounds ==
  ASSUME TypeOK, CurrentInv, ActiveExact
  PROVE  numActive <= numCreated /\ (pc = "marked" => numActive > 0)
<1>1. numActive <= numCreated
  BY Finite DEF ActiveExact
<1>2. ASSUME pc = "marked" PROVE numActive > 0
  <2>1. current \in Uncounted
    BY <1>2 DEF Uncounted, CurrentInv, OnThread, Place, InScheduler, ThreadPcs
  <2>2. Cardinality(Uncounted) # 0
    BY <2>1, Finite, FS_EmptySet
  <2> QED
    BY <2>2, Finite DEF ActiveExact
<1> QED
  BY <1>1, <1>2

-----------------------------------------------------------------------------
(* Places and signals                                                      *)

LEMMA ControlStep == IInv /\ [Next]_vars => ControlInv'
<1> SUFFICES ASSUME IInv, [Next]_vars PROVE ControlInv'
  OBVIOUS
<1> USE DEF IInv, counts, table, flags, signals, user, ThreadPcs, MainPcs, SchedulerPcs
<1>1. CASE OnStart
  BY <1>1 DEF OnStart, TypeOK, ControlInv, InRun, InScheduler
<1>2. CASE CreateThread
  <2>1. toCreate \in Nat /\ numCreated \in Nat /\ MaxThreads \in Nat
    BY MaxThreadsAssumption DEF TypeOK
  <2>2. pc = "create" /\ toCreate <= MaxThreads - numCreated /\ toCreate > 0
    BY <1>2 DEF CreateThread, ControlInv
  <2>3. CASE toCreate = 1
    <3>1. Len(frames') > 0
      BY <1>2, <2>3, AppendLength DEF CreateThread, TypeOK
    <3> QED
      BY <1>2, <2>3, <3>1 DEF CreateThread, ControlInv, InRun, InScheduler
  <2>4. CASE toCreate # 1
    <3>1. toCreate' <= MaxThreads - numCreated' /\ toCreate' > 0
      BY <1>2, <2>1, <2>2, <2>4 DEF CreateThread
    <3> QED
      BY <1>2, <2>4, <3>1 DEF CreateThread, ControlInv, InRun, InScheduler
  <2> QED
    BY <2>3, <2>4
<1>3. CASE EventsDone
  <2>1. Len(frames) # 1 => Len(SubSeq(frames, 1, Len(frames) - 1)) > 0
    BY <1>3, FrontLength DEF EventsDone, ControlInv, TypeOK
  <2> QED
    BY <1>3, <2>1 DEF EventsDone, ControlInv, InRun, InScheduler
<1>4. CASE StartScheduler
  BY <1>4 DEF StartScheduler, SetFinished, TypeOK, ControlInv, InRun, InScheduler
<1>5. CASE ScheduleEnd
  BY <1>5
     DEF ScheduleEnd, RemoveHandler, ClearSignal, SetFinished, TypeOK, ControlInv, InRun,
         InScheduler
<1>6. CASE ScheduleSuspend
  BY <1>6
     DEF ScheduleSuspend, Suspended, ReturnUnfinished, RemoveHandler, ClearSignal,
         SetFinished, TypeOK, ControlInv, InRun, InScheduler
<1>7. CASE ScheduleNext
  BY <1>7
     DEF ScheduleNext, ClearReEnter, ClearSignal, TypeOK, ControlInv, InRun, InScheduler
<1>8. CASE GetNextThread
  BY <1>8 DEF GetNextThread, Owns, TypeOK, ControlInv, InRun, InScheduler
<1>9. CASE Jump
  BY <1>9, JumpFacts DEF Jump, ControlInv, InRun, InScheduler
<1>10. CASE Tick
  BY <1>10 DEF Tick, TypeOK, ControlInv, SignalInv, InRun, InScheduler
<1>11. CASE TimerIsr
  BY <1>11 DEF TimerIsr, TypeOK, ControlInv, InRun, InScheduler
<1>12. CASE Yield
  BY <1>12 DEF Yield, TypeOK, ControlInv, InRun, InScheduler
<1>13. CASE MarkDone
  BY <1>13 DEF MarkDone, TypeOK, ControlInv, InRun, InScheduler
<1>14. CASE CountDone
  BY <1>14 DEF CountDone, ActiveWithout, TypeOK, ControlInv, InRun, InScheduler
<1>15. CASE CallSchedule
  BY <1>15 DEF CallSchedule, TypeOK, ControlInv, InRun, InScheduler
<1>16. CASE OnStop \/ TickWhileBlocked \/ UNCHANGED vars
  BY <1>16 DEF OnStop, TickWhileBlocked, vars, TypeOK, ControlInv, InRun, InScheduler
<1> QED
  BY <1>1, <1>2, <1>3, <1>4, <1>5, <1>6, <1>7, <1>8, <1>9, <1>10, <1>11, <1>12, <1>13,
     <1>14, <1>15, <1>16
     DEF Next, Program, Window, Scheduler, Signal, Thread

LEMMA SignalStep == IInv /\ [Next]_vars => SignalInv'
<1> SUFFICES ASSUME IInv, [Next]_vars PROVE SignalInv'
  OBVIOUS
<1> USE DEF IInv, counts, table, flags, signals, user, ThreadPcs, MainPcs, SchedulerPcs
<1>1. CASE OnStart
  BY <1>1 DEF OnStart, TypeOK, ControlInv, SignalInv, InRun, InScheduler
<1>2. CASE OnStop
  BY <1>2 DEF OnStop, TypeOK, ControlInv, SignalInv, InRun, InScheduler
<1>3. CASE CreateThread
  BY <1>3
     DEF CreateThread, MaxTicket, TotalWith, TypeOK, ControlInv, SignalInv, InRun,
         InScheduler
<1>4. CASE EventsDone
  BY <1>4 DEF EventsDone, TypeOK, ControlInv, SignalInv, InRun, InScheduler
<1>5. CASE StartScheduler
  BY <1>5 DEF StartScheduler, SetFinished, TypeOK, ControlInv, SignalInv, InRun, InScheduler
<1>6. CASE ScheduleEnd
  BY <1>6
     DEF ScheduleEnd, RemoveHandler, ClearSignal, SetFinished, TypeOK, ControlInv,
         SignalInv, InRun, InScheduler
<1>7. CASE ScheduleSuspend
  BY <1>7
     DEF ScheduleSuspend, Suspended, ReturnUnfinished, RemoveHandler, ClearSignal,
         SetFinished, TypeOK, ControlInv, SignalInv, InRun, InScheduler
<1>8. CASE ScheduleNext
  BY <1>8
     DEF ScheduleNext, ClearReEnter, ClearSignal, TypeOK, ControlInv, SignalInv, InRun,
         InScheduler
<1>9. CASE GetNextThread
  BY <1>9 DEF GetNextThread, Owns, TypeOK, ControlInv, SignalInv, InRun, InScheduler
<1>10. CASE Jump
  BY <1>10, JumpFacts DEF Jump, ClearSignal, ControlInv, SignalInv, InRun, InScheduler
<1>11. CASE Tick
  BY <1>11 DEF Tick, TypeOK, ControlInv, SignalInv, InRun, InScheduler
<1>12. CASE TickWhileBlocked
  BY <1>12 DEF TickWhileBlocked, TypeOK, ControlInv, SignalInv, InRun, InScheduler
<1>13. CASE TimerIsr
  BY <1>13 DEF TimerIsr, TypeOK, ControlInv, SignalInv, InRun, InScheduler
<1>14. CASE Yield
  BY <1>14 DEF Yield, TypeOK, ControlInv, SignalInv, InRun, InScheduler
<1>15. CASE MarkDone
  BY <1>15 DEF MarkDone, TypeOK, ControlInv, SignalInv, InRun, InScheduler
<1>16. CASE CountDone
  BY <1>16 DEF CountDone, ActiveWithout, TypeOK, ControlInv, SignalInv, InRun, InScheduler
<1>17. CASE CallSchedule
  BY <1>17 DEF CallSchedule, TypeOK, ControlInv, SignalInv, InRun, InScheduler
<1>18. CASE UNCHANGED vars
  BY <1>18 DEF vars, TypeOK, ControlInv, SignalInv, InRun, InScheduler
<1> QED
  BY <1>1, <1>2, <1>3, <1>4, <1>5, <1>6, <1>7, <1>8, <1>9, <1>10, <1>11, <1>12, <1>13,
     <1>14, <1>15, <1>16, <1>17, <1>18
     DEF Next, Program, Window, Scheduler, Signal, Thread

LEMMA CurrentStep == IInv /\ [Next]_vars => CurrentInv'
<1> SUFFICES ASSUME IInv, [Next]_vars PROVE CurrentInv'
  OBVIOUS
<1> USE DEF IInv, counts, table, flags, signals, user, ThreadPcs, MainPcs, SchedulerPcs
<1>1. CASE OnStart
  BY <1>1
     DEF OnStart, TypeOK, ControlInv, SignalInv, CurrentInv, SavedInv, Created, OnThread,
         Place, InRun, InScheduler
<1>2. CASE OnStop
  BY <1>2
     DEF OnStop, TypeOK, ControlInv, SignalInv, CurrentInv, SavedInv, Created, OnThread,
         Place, InRun, InScheduler
<1>3. CASE CreateThread
  <2>1. Created' = Created \cup {numCreated} /\ numCreated \in Ids
    BY <1>3, CreateFacts
  <2>2. /\ status' = [status EXCEPT ![numCreated] = "ready"]
        /\ UNCHANGED <<current, reEnter, from>>
    BY <1>3, CreateFacts
  <2>3. pc = "create" /\ pc' \in {"create", "start"}
    BY <1>3, CreateFacts
  <2>4. ~OnThread /\ ~OnThread' /\ Place' \notin ThreadPcs \cup {"jump"}
    BY <2>3 DEF OnThread, Place, InScheduler
  <2>5. \A i \in Created' : status'[i] # "running"
    <3>1. \A i \in Created : status[i] # "running"
      BY <2>4 DEF CurrentInv
    <3> QED
      BY <2>1, <2>2, <3>1, CreatedFacts DEF TypeOK
  <2> QED
    BY <2>1, <2>2, <2>3, <2>4, <2>5 DEF CurrentInv
<1>4. CASE EventsDone
  BY <1>4
     DEF EventsDone, TypeOK, ControlInv, SignalInv, CurrentInv, SavedInv, Created, OnThread,
         Place, InRun, InScheduler
<1>5. CASE StartScheduler
  BY <1>5
     DEF StartScheduler, SetFinished, TypeOK, ControlInv, SignalInv, CurrentInv, SavedInv,
         Created, OnThread, Place, InRun, InScheduler
<1>6. CASE ScheduleEnd
  BY <1>6
     DEF ScheduleEnd, RemoveHandler, ClearSignal, SetFinished, TypeOK, ControlInv,
         SignalInv, CurrentInv, SavedInv, Created, OnThread, Place, InRun, InScheduler
<1>7. CASE ScheduleSuspend
  BY <1>7
     DEF ScheduleSuspend, Suspended, ReturnUnfinished, RemoveHandler, ClearSignal,
         SetFinished, TypeOK, ControlInv, SignalInv, CurrentInv, SavedInv, Created,
         OnThread, Place, InRun, InScheduler
<1>8. CASE ScheduleNext
  <2>1. pc = "schedule" /\ pc' = "draw" /\ UNCHANGED <<numCreated, status, current>>
        /\ reEnter' = FALSE
    BY <1>8 DEF ScheduleNext, ClearReEnter
  <2>2. ~OnThread
    BY <1>8, ThreadFacts DEF ScheduleNext
  <2>3. ~OnThread' /\ Place' = "draw"
    BY <2>1 DEF OnThread, Place, InScheduler
  <2> QED
    BY <2>1, <2>2, <2>3 DEF CurrentInv, Created
<1>9. CASE GetNextThread
  <2>1. PICK i \in Created : /\ current' = i
                             /\ status' = [status EXCEPT ![i] = "running"]
                             /\ status[i] # "done"
    BY <1>9 DEF GetNextThread
  <2>2. pc = "draw" /\ pc' = "jump" /\ UNCHANGED <<numCreated, reEnter>>
    BY <1>9 DEF GetNextThread
  <2>3. ~OnThread /\ OnThread' /\ Place' = "jump"
    BY <2>2 DEF OnThread, Place, InScheduler
  <2>4. ~reEnter
    BY <2>2 DEF CurrentInv
  <2>5. status'[i] = "running" /\ \A j \in Created : j # i => status'[j] # "running"
    BY <2>1, <2>3, CreatedFacts DEF TypeOK, CurrentInv
  <2> QED
    BY <2>1, <2>2, <2>3, <2>4, <2>5 DEF CurrentInv, Created
<1>10. CASE Jump
  BY <1>10
     DEF Jump, ClearSignal, TypeOK, ControlInv, SignalInv, CurrentInv, SavedInv, Created,
         OnThread, Place, InRun, InScheduler
<1>11. CASE Tick
  BY <1>11
     DEF Tick, TypeOK, ControlInv, SignalInv, CurrentInv, SavedInv, Created, OnThread,
         Place, InRun, InScheduler
<1>12. CASE TickWhileBlocked
  BY <1>12
     DEF TickWhileBlocked, TypeOK, ControlInv, SignalInv, CurrentInv, SavedInv, Created,
         OnThread, Place, InRun, InScheduler
<1>13. CASE TimerIsr
  BY <1>13
     DEF TimerIsr, TypeOK, ControlInv, SignalInv, CurrentInv, SavedInv, Created, OnThread,
         Place, InRun, InScheduler
<1>14. CASE Yield
  BY <1>14
     DEF Yield, TypeOK, ControlInv, SignalInv, CurrentInv, SavedInv, Created, OnThread,
         Place, InRun, InScheduler
<1>15. CASE MarkDone
  <2>1. /\ pc = "run" /\ pc' = "marked" /\ status' = [status EXCEPT ![current] = "done"]
        /\ UNCHANGED <<numCreated, reEnter, current, resume>>
    BY <1>15 DEF MarkDone
  <2>2. OnThread /\ OnThread' /\ Place = "run" /\ Place' = "marked"
    BY <2>1 DEF OnThread, Place, InScheduler
  <2>3. /\ status'[current] = "done"
        /\ \A i \in Created : status'[i] = "running" => status[i] = "running"
    BY <2>1, <2>2, ThreadFacts DEF TypeOK
  <2> QED
    BY <2>1, <2>2, <2>3 DEF CurrentInv, Created
<1>16. CASE CountDone
  BY <1>16
     DEF CountDone, ActiveWithout, TypeOK, ControlInv, SignalInv, CurrentInv, SavedInv,
         Created, OnThread, Place, InRun, InScheduler
<1>17. CASE CallSchedule
  BY <1>17
     DEF CallSchedule, TypeOK, ControlInv, SignalInv, CurrentInv, SavedInv, Created,
         OnThread, Place, InRun, InScheduler
<1>18. CASE UNCHANGED vars
  BY <1>18
     DEF vars, TypeOK, ControlInv, SignalInv, CurrentInv, SavedInv, Created, OnThread,
         Place, InRun, InScheduler
<1> QED
  BY <1>1, <1>2, <1>3, <1>4, <1>5, <1>6, <1>7, <1>8, <1>9, <1>10, <1>11, <1>12, <1>13,
     <1>14, <1>15, <1>16, <1>17, <1>18
     DEF Next, Program, Window, Scheduler, Signal, Thread

LEMMA SavedStep == IInv /\ [Next]_vars => SavedInv'
<1> SUFFICES ASSUME IInv, [Next]_vars PROVE SavedInv'
  OBVIOUS
<1> USE DEF IInv, counts, table, flags, signals, user, ThreadPcs, MainPcs, SchedulerPcs
<1>1. CASE CreateThread
  <2>1. /\ Created' = Created \cup {numCreated}
        /\ status' = [status EXCEPT ![numCreated] = "ready"]
        /\ resume' = [resume EXCEPT ![numCreated] = "run"]
    BY <1>1, CreateFacts
  <2>2. numCreated \in Ids /\ numCreated \notin Created /\ Created \subseteq Ids
    BY <1>1, CreateFacts, CreatedFacts
  <2>3. resume'[numCreated] = "run"
    BY <2>1, <2>2 DEF TypeOK
  <2>4. \A i \in Created : resume'[i] = resume[i] /\ status'[i] = status[i]
    BY <2>1, <2>2 DEF TypeOK
  <2> QED
    BY <2>1, <2>3, <2>4 DEF SavedInv
<1>2. CASE ScheduleEnd
  BY <1>2
     DEF ScheduleEnd, RemoveHandler, ClearSignal, SetFinished, TypeOK, ControlInv,
         CurrentInv, SavedInv, Created, OnThread, Place, InScheduler
<1>3. CASE ScheduleSuspend
  BY <1>3
     DEF ScheduleSuspend, Suspended, ReturnUnfinished, RemoveHandler, ClearSignal,
         SetFinished, TypeOK, ControlInv, CurrentInv, SavedInv, Created, OnThread, Place,
         InScheduler
<1>4. CASE GetNextThread
  BY <1>4
     DEF GetNextThread, Owns, TypeOK, ControlInv, CurrentInv, SavedInv, Created, OnThread,
         Place, InScheduler
<1>5. CASE MarkDone
  BY <1>5
     DEF MarkDone, TypeOK, ControlInv, CurrentInv, SavedInv, Created, OnThread, Place,
         InScheduler
<1>6. CASE OnStart \/ OnStop \/ EventsDone \/ StartScheduler \/ ScheduleNext \/ Jump \/
           Tick \/ TickWhileBlocked \/ TimerIsr \/ Yield \/ CountDone \/ CallSchedule \/
           UNCHANGED vars
  BY <1>6
     DEF OnStart, OnStop, EventsDone, StartScheduler, ScheduleNext, Jump, Tick,
         TickWhileBlocked, TimerIsr, Yield, CountDone, CallSchedule, SetFinished,
         ClearSignal, vars, TypeOK, ControlInv, CurrentInv, SavedInv, Created, OnThread,
         Place, InScheduler
<1> QED
  BY <1>1, <1>2, <1>3, <1>4, <1>5, <1>6 DEF Next, Program, Window, Scheduler, Signal, Thread

-----------------------------------------------------------------------------
(* Types                                                                   *)

NumberTypes ==
  /\ numCreated \in 0 .. MaxThreads /\ numActive \in 0 .. MaxThreads
  /\ totalTickets \in Nat /\ current \in Ids \cup {NoThread}
  /\ toCreate \in 0 .. MaxThreads /\ starts \in 0 .. MaxStarts

FlagTypes ==
  /\ running \in BOOLEAN /\ reEnter \in BOOLEAN /\ isRunning \in BOOLEAN
  /\ timer \in BOOLEAN /\ pending \in BOOLEAN /\ blocked \in BOOLEAN

PlaceTypes ==
  /\ schedMode \in {"preemptive", "nonpreemptive"}
  /\ opMode \in {"preemptive", "nonpreemptive"}
  /\ handler \in {"default", "isr"}
  /\ pc \in ThreadPcs \cup MainPcs \cup SchedulerPcs \cup {"killed"}
  /\ from \in ThreadPcs \cup MainPcs \cup SchedulerPcs

FrameTypes == frames \in Seq(BOOLEAN)

TableTypes ==
  /\ status \in [Ids -> {"ready", "running", "done"}]
  /\ minTicket \in [Ids -> Nat] /\ maxTicket \in [Ids -> Nat]
  /\ resume \in [Ids -> ThreadPcs \cup MainPcs \cup SchedulerPcs]
  /\ slices \in [Ids -> 0 .. MaxSlices] /\ yields \in [Ids -> BOOLEAN]

LEMMA NumberTypesStep == IInv /\ [Next]_vars => NumberTypes'
<1> SUFFICES ASSUME IInv, [Next]_vars PROVE NumberTypes'
  OBVIOUS
<1> USE DEF IInv, counts, table, flags, signals, user, ThreadPcs, MainPcs, SchedulerPcs
<1>1. CASE OnStart
  BY <1>1, MaxThreadsAssumption, BoundsAssumption DEF OnStart, TypeOK, NumberTypes
<1>2. CASE CreateThread
  <2>1. numCreated' \in 0 .. MaxThreads /\ toCreate' \in 0 .. MaxThreads
    BY <1>2, MaxThreadsAssumption DEF CreateThread, TypeOK, ControlInv
  <2>2. numActive' \in 0 .. MaxThreads
    BY <1>2, <2>1, ActiveBounds, MaxThreadsAssumption DEF CreateThread, TypeOK
  <2>3. totalTickets' \in Nat
    BY <1>2, TicketsAssumption DEF CreateThread, TotalWith, TypeOK
  <2> QED
    BY <1>2, <2>1, <2>2, <2>3 DEF CreateThread, TypeOK, NumberTypes
<1>3. CASE ScheduleEnd
  BY <1>3 DEF ScheduleEnd, RemoveHandler, ClearSignal, SetFinished, TypeOK, NumberTypes
<1>4. CASE GetNextThread
  BY <1>4, CreatedFacts DEF GetNextThread, TypeOK, NumberTypes
<1>5. CASE CountDone
  BY <1>5, ActiveBounds, MaxThreadsAssumption DEF CountDone, ActiveWithout, TypeOK,
     NumberTypes
<1>6. CASE OnStop \/ EventsDone \/ StartScheduler \/ ScheduleSuspend \/ ScheduleNext \/
           Jump \/ Tick \/ TickWhileBlocked \/ TimerIsr \/ Yield \/ MarkDone \/
           CallSchedule \/ UNCHANGED vars
  BY <1>6
     DEF OnStop, EventsDone, StartScheduler, ScheduleSuspend, ScheduleNext, Jump, Tick,
         TickWhileBlocked, TimerIsr, Yield, MarkDone, CallSchedule, SetFinished,
         RemoveHandler, ClearSignal, vars, TypeOK, NumberTypes
<1> QED
  BY <1>1, <1>2, <1>3, <1>4, <1>5, <1>6 DEF Next, Program, Window, Scheduler, Signal, Thread

LEMMA FlagTypesStep == IInv /\ [Next]_vars => FlagTypes'
<1> SUFFICES ASSUME IInv, [Next]_vars PROVE FlagTypes'
  OBVIOUS
<1> USE DEF IInv, counts, table, flags, signals, user, ThreadPcs, MainPcs, SchedulerPcs
<1>1. CASE OnStart
  BY <1>1 DEF OnStart, TypeOK, FlagTypes
<1>2. CASE OnStop
  BY <1>2 DEF OnStop, TypeOK, FlagTypes
<1>3. CASE StartScheduler
  BY <1>3 DEF StartScheduler, SetFinished, TypeOK, FlagTypes
<1>4. CASE ScheduleEnd
  BY <1>4 DEF ScheduleEnd, RemoveHandler, ClearSignal, SetFinished, TypeOK, FlagTypes
<1>5. CASE ScheduleSuspend
  BY <1>5
     DEF ScheduleSuspend, Suspended, ReturnUnfinished, RemoveHandler, ClearSignal,
         SetFinished, TypeOK, FlagTypes
<1>6. CASE ScheduleNext
  BY <1>6 DEF ScheduleNext, ClearReEnter, ClearSignal, TypeOK, FlagTypes
<1>7. CASE GetNextThread
  BY <1>7 DEF GetNextThread, Owns, TypeOK, FlagTypes
<1>8. CASE Jump
  BY <1>8 DEF Jump, ClearSignal, TypeOK, FlagTypes
<1>9. CASE Tick
  BY <1>9 DEF Tick, TypeOK, FlagTypes
<1>10. CASE TickWhileBlocked
  BY <1>10 DEF TickWhileBlocked, TypeOK, FlagTypes
<1>11. CASE TimerIsr
  BY <1>11 DEF TimerIsr, TypeOK, FlagTypes
<1>12. CASE CallSchedule
  BY <1>12 DEF CallSchedule, TypeOK, FlagTypes
<1>13. CASE CreateThread \/ EventsDone \/ Yield \/ MarkDone \/ CountDone \/ UNCHANGED
            vars
  BY <1>13 DEF CreateThread, EventsDone, Yield, MarkDone, CountDone, vars, TypeOK, FlagTypes
<1> QED
  BY <1>1, <1>2, <1>3, <1>4, <1>5, <1>6, <1>7, <1>8, <1>9, <1>10, <1>11, <1>12, <1>13
     DEF Next, Program, Window, Scheduler, Signal, Thread

LEMMA PlaceTypesStep == IInv /\ [Next]_vars => PlaceTypes'
<1> SUFFICES ASSUME IInv, [Next]_vars PROVE PlaceTypes'
  OBVIOUS
<1> USE DEF IInv, counts, table, flags, signals, user, ThreadPcs, MainPcs, SchedulerPcs
<1>1. CASE OnStart
  BY <1>1, ModesAssumption DEF OnStart, TypeOK, PlaceTypes
<1>2. CASE CreateThread
  BY <1>2
     DEF CreateThread, MaxTicket, TotalWith, TypeOK, PlaceTypes, ControlInv, InScheduler
<1>3. CASE EventsDone
  BY <1>3 DEF EventsDone, TypeOK, PlaceTypes, ControlInv, InScheduler
<1>4. CASE StartScheduler
  BY <1>4 DEF StartScheduler, SetFinished, TypeOK, PlaceTypes, ControlInv, InScheduler
<1>5. CASE ScheduleEnd
  BY <1>5
     DEF ScheduleEnd, RemoveHandler, ClearSignal, SetFinished, TypeOK, PlaceTypes,
         ControlInv, InScheduler
<1>6. CASE ScheduleSuspend
  BY <1>6
     DEF ScheduleSuspend, Suspended, ReturnUnfinished, RemoveHandler, ClearSignal,
         SetFinished, TypeOK, PlaceTypes, ControlInv, InScheduler
<1>7. CASE ScheduleNext
  BY <1>7
     DEF ScheduleNext, ClearReEnter, ClearSignal, TypeOK, PlaceTypes, ControlInv,
         InScheduler
<1>8. CASE GetNextThread
  BY <1>8 DEF GetNextThread, Owns, TypeOK, PlaceTypes, ControlInv, InScheduler
<1>9. CASE Jump
  BY <1>9, JumpFacts DEF Jump, TypeOK, PlaceTypes
<1>10. CASE Tick
  BY <1>10 DEF Tick, TypeOK, PlaceTypes, ControlInv, InScheduler
<1>11. CASE TimerIsr
  BY <1>11 DEF TimerIsr, TypeOK, PlaceTypes, ControlInv, InScheduler
<1>12. CASE Yield
  BY <1>12 DEF Yield, TypeOK, PlaceTypes, ControlInv, InScheduler
<1>13. CASE MarkDone
  BY <1>13 DEF MarkDone, TypeOK, PlaceTypes, ControlInv, InScheduler
<1>14. CASE CountDone
  BY <1>14 DEF CountDone, ActiveWithout, TypeOK, PlaceTypes, ControlInv, InScheduler
<1>15. CASE CallSchedule
  BY <1>15 DEF CallSchedule, TypeOK, PlaceTypes, ControlInv, InScheduler
<1>16. CASE OnStop \/ TickWhileBlocked \/ UNCHANGED vars
  BY <1>16 DEF OnStop, TickWhileBlocked, vars, TypeOK, PlaceTypes, ControlInv, InScheduler
<1> QED
  BY <1>1, <1>2, <1>3, <1>4, <1>5, <1>6, <1>7, <1>8, <1>9, <1>10, <1>11, <1>12, <1>13,
     <1>14, <1>15, <1>16
     DEF Next, Program, Window, Scheduler, Signal, Thread

LEMMA FrameTypesStep == IInv /\ [Next]_vars => FrameTypes'
<1> SUFFICES ASSUME IInv, [Next]_vars PROVE FrameTypes'
  OBVIOUS
<1> USE DEF IInv, counts, table, flags, signals, user, ThreadPcs, MainPcs, SchedulerPcs
<1>1. CASE CreateThread
  <2>1. Append(frames, FALSE) \in Seq(BOOLEAN)
    BY AppendLength, FALSE \in BOOLEAN DEF TypeOK
  <2> QED
    BY <1>1, <2>1 DEF CreateThread, TypeOK, FrameTypes
<1>2. CASE EventsDone
  BY <1>2, FrontLength DEF EventsDone, TypeOK, FrameTypes, ControlInv
<1>3. CASE StartScheduler
  <2>1. UNCHANGED frames \/ \E value \in BOOLEAN : SetFinished(value)
    BY <1>3 DEF StartScheduler
  <2>2. Len(frames) \in 1 .. Len(frames)
    BY <1>3, LenProperties DEF StartScheduler, TypeOK, ControlInv, InRun
  <2>3. \A value \in BOOLEAN : SetFinished(value) => frames' \in Seq(BOOLEAN)
    BY <2>2, ExceptSeq DEF SetFinished, TypeOK
  <2> QED
    BY <2>1, <2>3 DEF TypeOK, FrameTypes
<1>4. CASE ScheduleEnd
  <2>1. UNCHANGED frames \/ \E value \in BOOLEAN : SetFinished(value)
    BY <1>4 DEF ScheduleEnd
  <2>2. Len(frames) \in 1 .. Len(frames)
    BY <1>4, LenProperties DEF ScheduleEnd, TypeOK, ControlInv, InRun
  <2>3. \A value \in BOOLEAN : SetFinished(value) => frames' \in Seq(BOOLEAN)
    BY <2>2, ExceptSeq DEF SetFinished, TypeOK
  <2> QED
    BY <2>1, <2>3 DEF TypeOK, FrameTypes
<1>5. CASE ScheduleSuspend
  <2>1. UNCHANGED frames \/ \E value \in BOOLEAN : SetFinished(value)
    BY <1>5 DEF ScheduleSuspend
  <2>2. Len(frames) \in 1 .. Len(frames)
    BY <1>5, LenProperties DEF ScheduleSuspend, TypeOK, ControlInv, InRun
  <2>3. \A value \in BOOLEAN : SetFinished(value) => frames' \in Seq(BOOLEAN)
    BY <2>2, ExceptSeq DEF SetFinished, TypeOK
  <2> QED
    BY <2>1, <2>3 DEF TypeOK, FrameTypes
<1>6. CASE OnStart \/ OnStop \/ ScheduleNext \/ GetNextThread \/ Jump \/ Tick \/
           TickWhileBlocked \/ TimerIsr \/ Yield \/ MarkDone \/ CountDone \/
           CallSchedule \/ UNCHANGED vars
  BY <1>6
     DEF OnStart, OnStop, ScheduleNext, GetNextThread, Jump, Tick, TickWhileBlocked,
         TimerIsr, Yield, MarkDone, CountDone, CallSchedule, ClearSignal, vars, TypeOK,
         FrameTypes
<1> QED
  BY <1>1, <1>2, <1>3, <1>4, <1>5, <1>6 DEF Next, Program, Window, Scheduler, Signal, Thread

LEMMA TableTypesStep == IInv /\ [Next]_vars => TableTypes'
<1> SUFFICES ASSUME IInv, [Next]_vars PROVE TableTypes'
  OBVIOUS
<1> USE DEF IInv, counts, table, flags, signals, user, ThreadPcs, MainPcs, SchedulerPcs
<1>1. CASE CreateThread
  <2>1. PICK tickets \in Tickets, work \in 0 .. MaxSlices :
          /\ minTicket' = [minTicket EXCEPT ![numCreated] = totalTickets]
          /\ maxTicket' = [maxTicket EXCEPT ![numCreated] = totalTickets + tickets]
          /\ slices' = [slices EXCEPT ![numCreated] = work]
    BY <1>1 DEF CreateThread, MaxTicket
  <2>2. tickets \in Nat /\ totalTickets + tickets \in Nat
    BY TicketsAssumption DEF TypeOK
  <2>3. /\ minTicket' \in [Ids -> Nat] /\ maxTicket' \in [Ids -> Nat]
        /\ slices' \in [Ids -> 0 .. MaxSlices]
    BY <2>1, <2>2 DEF TypeOK
  <2>4. yields' \in [Ids -> BOOLEAN]
    BY <1>1 DEF CreateThread, TypeOK
  <2> QED
    BY <1>1, <2>3, <2>4 DEF CreateThread, TypeOK, TableTypes
<1>2. CASE ScheduleSuspend
  BY <1>2
     DEF ScheduleSuspend, Suspended, ReturnUnfinished, RemoveHandler, ClearSignal,
         SetFinished, TypeOK, TableTypes, ControlInv
<1>3. CASE GetNextThread
  BY <1>3 DEF GetNextThread, Owns, TypeOK, TableTypes, ControlInv
<1>4. CASE Tick
  <2>1. slices' \in [Ids -> 0 .. MaxSlices]
    <3>1. pc = "run" => slices[current] > 0 /\ slices[current] \in 0 .. MaxSlices
      BY <1>4, ThreadFacts DEF Tick, TypeOK, OnThread, Place, InScheduler
    <3>2. pc = "run" => slices[current] - 1 \in 0 .. MaxSlices
      BY <3>1, BoundsAssumption
    <3> QED
      BY <1>4, <3>2 DEF Tick, TypeOK
  <2> QED
    BY <1>4, <2>1 DEF Tick, TypeOK, TableTypes
<1>5. CASE Yield
  <2>1. slices' \in [Ids -> 0 .. MaxSlices]
    <3>1. pc = "run" => slices[current] > 0 /\ slices[current] \in 0 .. MaxSlices
      BY <1>5, ThreadFacts DEF Yield, TypeOK, OnThread, Place, InScheduler
    <3>2. pc = "run" => slices[current] - 1 \in 0 .. MaxSlices
      BY <3>1, BoundsAssumption
    <3> QED
      BY <1>5, <3>2 DEF Yield, TypeOK
  <2> QED
    BY <1>5, <2>1 DEF Yield, TypeOK, TableTypes
<1>6. CASE MarkDone
  BY <1>6 DEF MarkDone, TypeOK, TableTypes, ControlInv
<1>7. CASE OnStart \/ OnStop \/ EventsDone \/ StartScheduler \/ ScheduleEnd \/
           ScheduleNext \/ Jump \/ TickWhileBlocked \/ TimerIsr \/ CountDone \/
           CallSchedule \/ UNCHANGED vars
  BY <1>7
     DEF OnStart, OnStop, EventsDone, StartScheduler, ScheduleEnd, ScheduleNext, Jump,
         TickWhileBlocked, TimerIsr, CountDone, CallSchedule, SetFinished, RemoveHandler,
         ClearSignal, vars, TypeOK, TableTypes, ControlInv
<1> QED
  BY <1>1, <1>2, <1>3, <1>4, <1>5, <1>6, <1>7
     DEF Next, Program, Window, Scheduler, Signal, Thread

-----------------------------------------------------------------------------
(* The count, step by step                                                 *)

SameCount == numActive' = numActive /\ Unfinished' = Unfinished /\ Uncounted' = Uncounted

\* Most steps count nobody in or out, a switch in the middle of finish_thread
\* among them.
LEMMA SameCountStep == IInv /\ [Next]_vars =>
  CreateThread \/ ScheduleEnd \/ MarkDone \/ CountDone \/ SameCount
<1> SUFFICES ASSUME IInv, [Next]_vars
             PROVE  CreateThread \/ ScheduleEnd \/ MarkDone \/ CountDone \/ SameCount
  OBVIOUS
<1> USE DEF IInv, counts, table, flags, signals, user, ThreadPcs, MainPcs, SchedulerPcs
<1>1. CASE OnStart
  BY <1>1
     DEF OnStart, TypeOK, ControlInv, SignalInv, CurrentInv, SavedInv, SameCount, Created,
         Unfinished, Uncounted, OnThread, Place, InRun, InScheduler
<1>2. CASE OnStop
  BY <1>2
     DEF OnStop, TypeOK, ControlInv, SignalInv, CurrentInv, SavedInv, SameCount, Created,
         Unfinished, Uncounted, OnThread, Place, InRun, InScheduler
<1>3. CASE EventsDone
  BY <1>3
     DEF EventsDone, TypeOK, ControlInv, SignalInv, CurrentInv, SavedInv, SameCount,
         Created, Unfinished, Uncounted, OnThread, Place, InRun, InScheduler
<1>4. CASE StartScheduler
  BY <1>4
     DEF StartScheduler, SetFinished, TypeOK, ControlInv, SignalInv, CurrentInv, SavedInv,
         SameCount, Created, Unfinished, Uncounted, OnThread, Place, InRun, InScheduler
<1>5. CASE ScheduleSuspend
  <2>1. /\ status' = [status EXCEPT ![current] = Suspended(@)]
        /\ resume' = [resume EXCEPT ![current] = from]
        /\ pc = "schedule" /\ pc' \in {"gtk", "killed"} /\ ~reEnter
        /\ UNCHANGED <<current, numCreated, numActive>>
    BY <1>5 DEF ScheduleSuspend, RemoveHandler
  <2>2. OnThread /\ Place = from
    BY <1>5 DEF ScheduleSuspend, CurrentInv, Place, InScheduler
  <2>3. current \in Created /\ current \in Ids
    BY <2>2, ThreadFacts DEF CurrentInv
  <2>4. \A i \in Created : status'[i] = "done" <=> status[i] = "done"
    BY <2>1, <2>3, CreatedFacts DEF Suspended, TypeOK
  <2>5. resume'[current] = from /\ \A i \in Created : i # current => resume'[i] = resume[i]
    BY <2>1, <2>3, CreatedFacts DEF TypeOK
  <2>6. resume[current] # "marked" \/ (from = "jump" /\ status[current] # "done")
    <3>1. from \in ThreadPcs \/ from = "jump"
      BY <2>2 DEF OnThread
    <3>2. from \in ThreadPcs => resume[current] = "run"
      BY <2>2 DEF CurrentInv
    <3>3. from = "jump" => status[current] = "running"
      BY <2>2 DEF CurrentInv
    <3> QED
      BY <3>1, <3>2, <3>3
  <2>7. numActive' = numActive /\ Unfinished' = Unfinished
    BY <2>1, <2>4 DEF Created, Unfinished
  <2>8. Uncounted' = Uncounted
    BY <2>1, <2>2, <2>3, <2>4, <2>5, <2>6 DEF Uncounted, Created, InScheduler
  <2> QED
    BY <2>7, <2>8 DEF SameCount
<1>6. CASE ScheduleNext
  <2>1. /\ pc = "schedule" /\ pc' = "draw"
        /\ UNCHANGED <<numCreated, numActive, status, resume, current>>
    BY <1>6 DEF ScheduleNext
  <2>2. ~OnThread
    BY <1>6, ThreadFacts DEF ScheduleNext
  <2>3. from # "marked"
    BY <2>1, <2>2 DEF OnThread, Place, InScheduler
  <2> QED
    BY <2>1, <2>3 DEF SameCount, Created, Unfinished, Uncounted, InScheduler
<1>7. CASE GetNextThread
  <2>1. PICK i \in Created : status' = [status EXCEPT ![i] = "running"] /\ status[i] # "done"
    BY <1>7 DEF GetNextThread
  <2>2. \A j \in Created : status'[j] = "done" <=> status[j] = "done"
    BY <2>1, CreatedFacts DEF TypeOK
  <2> QED
    BY <1>7, <2>2 DEF GetNextThread, SameCount, Created, Unfinished, Uncounted, InScheduler
<1>8. CASE Jump
  BY <1>8
     DEF Jump, ClearSignal, TypeOK, ControlInv, SignalInv, CurrentInv, SavedInv, SameCount,
         Created, Unfinished, Uncounted, OnThread, Place, InRun, InScheduler
<1>9. CASE Tick
  BY <1>9
     DEF Tick, TypeOK, ControlInv, SignalInv, CurrentInv, SavedInv, SameCount, Created,
         Unfinished, Uncounted, OnThread, Place, InRun, InScheduler
<1>10. CASE TickWhileBlocked
  BY <1>10
     DEF TickWhileBlocked, TypeOK, ControlInv, SignalInv, CurrentInv, SavedInv, SameCount,
         Created, Unfinished, Uncounted, OnThread, Place, InRun, InScheduler
<1>11. CASE TimerIsr
  BY <1>11
     DEF TimerIsr, TypeOK, ControlInv, SignalInv, CurrentInv, SavedInv, SameCount, Created,
         Unfinished, Uncounted, OnThread, Place, InRun, InScheduler
<1>12. CASE Yield
  BY <1>12
     DEF Yield, TypeOK, ControlInv, SignalInv, CurrentInv, SavedInv, SameCount, Created,
         Unfinished, Uncounted, OnThread, Place, InRun, InScheduler
<1>13. CASE CallSchedule
  BY <1>13
     DEF CallSchedule, TypeOK, ControlInv, SignalInv, CurrentInv, SavedInv, SameCount,
         Created, Unfinished, Uncounted, OnThread, Place, InRun, InScheduler
<1>14. CASE CreateThread \/ ScheduleEnd \/ MarkDone \/ CountDone
  BY <1>14
<1>15. CASE UNCHANGED vars
  BY <1>15 DEF vars, SameCount, Created, Unfinished, Uncounted, InScheduler
<1> QED
  BY <1>1, <1>2, <1>3, <1>4, <1>5, <1>6, <1>7, <1>8, <1>9, <1>10, <1>11, <1>12, <1>13,
     <1>14, <1>15
     DEF Next, Program, Window, Scheduler, Signal, Thread

LEMMA ActiveStep == IInv /\ [Next]_vars => ActiveExact'
<1> SUFFICES ASSUME IInv, [Next]_vars PROVE ActiveExact'
  OBVIOUS
<1> USE DEF IInv, counts, table, flags, signals, user, ThreadPcs, MainPcs, SchedulerPcs
<1>1. CASE CreateThread
  <2>1. /\ Created' = Created \cup {numCreated} /\ numActive' = numActive + 1
        /\ status' = [status EXCEPT ![numCreated] = "ready"]
        /\ resume' = [resume EXCEPT ![numCreated] = "run"]
        /\ pc = "create" /\ pc' \in {"create", "start"}
    BY <1>1, CreateFacts
  <2>2. numCreated \in Ids
    BY <1>1, CreateFacts
  <2>3. \A i \in Created : status'[i] = status[i] /\ resume'[i] = resume[i]
    BY <2>1, <2>2, CreatedFacts DEF TypeOK
  <2>4. status'[numCreated] = "ready"
    BY <2>1, <2>2 DEF TypeOK
  <2>5. Unfinished' = Unfinished \cup {numCreated} /\ numCreated \notin Unfinished
    BY <2>1, <2>3, <2>4, CreatedFacts DEF Unfinished
  <2>6. Uncounted' = Uncounted
    BY <2>1, <2>3, <2>4 DEF Uncounted, InScheduler
  <2>7. Cardinality(Unfinished') = Cardinality(Unfinished) + 1
    BY <2>5, Finite, FS_AddElement
  <2> QED
    BY <2>1, <2>6, <2>7, Finite DEF ActiveExact
<1>2. CASE ScheduleEnd
  <2>1. numActive' = 0 /\ Created' = {}
    BY <1>2 DEF ScheduleEnd, Created
  <2>2. Unfinished' = {} /\ Uncounted' = {}
    BY <2>1 DEF Unfinished, Uncounted
  <2> QED
    BY <2>1, <2>2, FS_EmptySet DEF ActiveExact
<1>3. CASE MarkDone
  <2>1. /\ status' = [status EXCEPT ![current] = "done"]
        /\ pc = "run" /\ pc' = "marked"
        /\ UNCHANGED <<current, numCreated, numActive, resume>>
    BY <1>3 DEF MarkDone
  <2>2. current \in Created /\ current \in Ids /\ status[current] = "running"
    BY <2>1, ThreadFacts DEF CurrentInv, OnThread, Place, InScheduler
  <2>3. status'[current] = "done" /\ \A i \in Created : i # current => status'[i] = status[i]
    BY <2>1, <2>2, CreatedFacts DEF TypeOK
  <2>4. Unfinished' = Unfinished \ {current} /\ current \in Unfinished
    BY <2>1, <2>2, <2>3 DEF Unfinished, Created
  <2>5. Uncounted' = Uncounted \cup {current} /\ current \notin Uncounted
    BY <2>1, <2>2, <2>3 DEF Uncounted, Created, InScheduler
  <2>6. Cardinality(Unfinished') = Cardinality(Unfinished) - 1
    BY <2>4, Finite, FS_RemoveElement
  <2>7. Cardinality(Uncounted') = Cardinality(Uncounted) + 1
    BY <2>5, Finite, FS_AddElement
  <2> QED
    BY <2>1, <2>6, <2>7, Finite DEF ActiveExact
<1>4. CASE CountDone
  <2>1. /\ numActive' = numActive - 1 /\ pc = "marked" /\ pc' = "counted"
        /\ UNCHANGED <<current, numCreated, status, resume>>
    BY <1>4 DEF CountDone, ActiveWithout
  <2>2. current \in Created /\ status[current] = "done" /\ resume[current] = "run"
    BY <2>1 DEF CurrentInv, OnThread, Place, InScheduler
  <2>3. Unfinished' = Unfinished
    BY <2>1 DEF Unfinished, Created
  <2>4. Uncounted' = Uncounted \ {current} /\ current \in Uncounted
    BY <2>1, <2>2 DEF Uncounted, Created, InScheduler
  <2>5. Cardinality(Uncounted') = Cardinality(Uncounted) - 1
    BY <2>4, Finite, FS_RemoveElement
  <2> QED
    BY <2>1, <2>3, <2>5, Finite DEF ActiveExact
<1>5. CASE SameCount
  BY <1>5 DEF SameCount, ActiveExact
<1> QED
  BY <1>1, <1>2, <1>3, <1>4, <1>5, SameCountStep

-----------------------------------------------------------------------------
(* The tickets                                                             *)

LEMMA TicketStep == IInv /\ [Next]_vars => TicketInv'
<1> SUFFICES ASSUME IInv, [Next]_vars PROVE TicketInv'
  OBVIOUS
<1> USE DEF IInv, counts, table
<1>1. CASE CreateThread
  <2>1. PICK tickets \in Tickets :
          /\ minTicket' = [minTicket EXCEPT ![numCreated] = totalTickets]
          /\ maxTicket' = [maxTicket EXCEPT ![numCreated] = totalTickets + tickets]
          /\ totalTickets' = totalTickets + tickets
    BY <1>1 DEF CreateThread, MaxTicket, TotalWith
  <2>2. tickets \in Nat /\ totalTickets \in Nat
    BY TicketsAssumption DEF TypeOK
  <2>3. Created' = Created \cup {numCreated}
    BY <1>1, CreateFacts
  <2>4. numCreated \in Ids
    BY <1>1, CreateFacts
  <2>5. \A i \in Created : /\ minTicket'[i] = minTicket[i] /\ minTicket[i] \in Nat
                           /\ maxTicket'[i] = maxTicket[i] /\ maxTicket[i] \in Nat
    BY <2>1, <2>4, CreatedFacts DEF TypeOK
  <2>6. minTicket'[numCreated] = totalTickets /\ maxTicket'[numCreated] = totalTickets + tickets
    BY <2>1, <2>4 DEF TypeOK
  <2>7. \A i \in Created' : minTicket'[i] <= maxTicket'[i] /\ maxTicket'[i] <= totalTickets'
    BY <2>1, <2>2, <2>3, <2>5, <2>6 DEF TicketInv
  <2>8. ASSUME NEW ticket \in 0 .. totalTickets' - 1
        PROVE  \E i \in Created' :
                 Owns(i, ticket)' /\ \A j \in Created' : Owns(j, ticket)' => j = i
    <3>. ticket \in Nat
      BY <2>1, <2>2
    <3>1. CASE ticket < totalTickets
      <4>1. PICK i \in Created : Owns(i, ticket) /\ \A j \in Created : Owns(j, ticket) => j = i
        BY <2>2, <3>1 DEF TicketInv, OneOwner
      <4>2. \A j \in Created : Owns(j, ticket)' <=> Owns(j, ticket)
        BY <2>5 DEF Owns
      <4>3. \A j \in Created' : j = numCreated => ~Owns(j, ticket)'
        BY <2>2, <2>6, <3>1 DEF Owns
      <4> QED
        BY <2>3, <4>1, <4>2, <4>3 DEF Owns
    <3>2. CASE ticket >= totalTickets
      <4>1. minTicket'[numCreated] <= ticket /\ ticket < maxTicket'[numCreated]
        BY <2>1, <2>2, <2>6, <3>2
      <4>2. \A j \in Created : ~(ticket < maxTicket'[j])
        BY <2>2, <2>5, <3>2 DEF TicketInv
      <4> QED
        BY <2>3, <4>1, <4>2 DEF Owns
    <3> QED
      BY <2>2, <2>1, <3>1, <3>2
  <2> QED
    BY <2>7, <2>8 DEF TicketInv, OneOwner
<1>2. CASE ScheduleEnd
  <2>1. Created' = {} /\ totalTickets' = 0
    BY <1>2 DEF ScheduleEnd, Created
  <2>2. 0 .. totalTickets' - 1 = {}
    BY <2>1
  <2> QED
    BY <2>1, <2>2 DEF TicketInv, OneOwner
<1>3. CASE UNCHANGED <<numCreated, totalTickets, minTicket, maxTicket>>
  BY <1>3 DEF TicketInv, OneOwner, Owns, Created
<1>4. \/ CreateThread \/ ScheduleEnd
      \/ UNCHANGED <<numCreated, totalTickets, minTicket, maxTicket>>
  BY DEF Next, Program, Window, Scheduler, Signal, Thread, OnStart, OnStop, EventsDone,
         StartScheduler, ScheduleSuspend, ScheduleNext, GetNextThread, Jump, Tick,
         TickWhileBlocked, TimerIsr, Yield, MarkDone, CountDone, CallSchedule, vars
<1> QED
  BY <1>1, <1>2, <1>3, <1>4

-----------------------------------------------------------------------------
(* The inductive invariant holds                                           *)

LEMMA InitIInv == Init => IInv
<1> SUFFICES ASSUME Init PROVE IInv
  OBVIOUS
<1>1. numCreated = 0 /\ totalTickets = 0 /\ numActive = 0 /\ Created = {}
  BY DEF Init, Created
<1>2. TypeOK
  <2>1. NumberTypes
    BY MaxThreadsAssumption, BoundsAssumption DEF Init, NumberTypes
  <2>2. FlagTypes
    BY DEF Init, FlagTypes
  <2>3. PlaceTypes /\ FrameTypes
    BY EmptySeq DEF Init, PlaceTypes, FrameTypes, MainPcs
  <2>4. TableTypes
    BY BoundsAssumption DEF Init, TableTypes, ThreadPcs
  <2> QED
    BY <2>1, <2>2, <2>3, <2>4
       DEF NumberTypes, FlagTypes, PlaceTypes, FrameTypes, TableTypes, TypeOK
<1>3. ControlInv /\ SignalInv
  BY DEF Init, ControlInv, SignalInv, InRun, InScheduler, ThreadPcs, SchedulerPcs
<1>4. CurrentInv /\ SavedInv
  BY <1>1 DEF Init, CurrentInv, SavedInv, OnThread, Place, InScheduler, ThreadPcs
<1>5. ActiveExact
  <2>1. Unfinished = {} /\ Uncounted = {}
    BY <1>1 DEF Unfinished, Uncounted
  <2> QED
    BY <1>1, <2>1, FS_EmptySet DEF ActiveExact
<1>6. TicketInv
  <2>1. 0 .. totalTickets - 1 = {}
    BY <1>1
  <2> QED
    BY <1>1, <2>1 DEF TicketInv, OneOwner
<1> QED
  BY <1>2, <1>3, <1>4, <1>5, <1>6 DEF IInv

LEMMA TypeStep == IInv /\ [Next]_vars => TypeOK'
BY NumberTypesStep, FlagTypesStep, PlaceTypesStep, FrameTypesStep, TableTypesStep
   DEF NumberTypes, FlagTypes, PlaceTypes, FrameTypes, TableTypes, TypeOK

LEMMA StepIInv == IInv /\ [Next]_vars => IInv'
BY TypeStep, ControlStep, SignalStep, CurrentStep, SavedStep, ActiveStep, TicketStep DEF
   IInv

LEMMA IInvHolds == Spec => []IInv
BY InitIInv, StepIInv, PTL DEF Spec

-----------------------------------------------------------------------------
(* What follows                                                            *)

(* The variables of scheduler.c keep their ranges: numCreated never passes *)
(* the end of all_threads, and num_active_threads never gets below zero,   *)
(* where start_scheduler's test (scheduler.c:152) would hide it.           *)
THEOREM TypesKept == Spec => []TypeOK
BY IInvHolds, PTL DEF IInv

(* No signal ends the process: the handler that start_scheduler installs   *)
(* outlives the timer and every signal that waits to be delivered.         *)
THEOREM HandlerOutlivesTimer == Spec => []NeverKilled
<1>1. IInv => NeverKilled
  BY DEF IInv, TypeOK, SignalInv, NeverKilled
<1> QED
  BY <1>1, IInvHolds, PTL

(* schedule saves a thread's own place and nothing else (scheduler.c:119), *)
(* as long as no quantum ends between start_timer and siglongjmp; the      *)
(* place before that jump is the only other one it could ever save.        *)
THEOREM PlacesAreOwn == ASSUME ~TickBeforeJump PROVE Spec => []SavedByOwner
<1>1. IInv => SavedByOwner
  BY DEF IInv, SavedInv, SavedByOwner, ThreadPcs
<1> QED
  BY <1>1, IInvHolds, PTL

(* Only the chosen thread is marked as running, and only while its own     *)
(* stack is in use or schedule was called from it.                         *)
THEOREM OneThreadRuns == Spec => []OneRuns
<1>1. IInv => OneRuns
  BY DEF IInv, CurrentInv, OneRuns, OnThread, Place, InScheduler, ThreadPcs
<1> QED
  BY <1>1, IInvHolds, PTL

(* num_active_threads is the number of threads that are not done, plus     *)
(* those caught between the two assignments of finish_thread.              *)
THEOREM ActiveCounted == Spec => []ActiveExact
BY IInvHolds, PTL DEF IInv

(* Every ticket below total_tickets has one owner: the ranges that         *)
(* create_thread hands out meet without gap or overlap.                    *)
THEOREM TicketsOwned == Spec => []OneOwner
BY IInvHolds, PTL DEF IInv, TicketInv

(* The draw of get_next_thread can find a thread, unless only threads      *)
(* without tickets are left or one was interrupted on its way out.         *)
THEOREM SomeTicketWins == Spec => []DrawFinds
<1>1. ASSUME IInv, pc = "draw", Lost = {}, Ticketless = {}
      PROVE  \E ticket \in 0 .. totalTickets - 1 : \E i \in Unfinished : Owns(i, ticket)
  <2>1. Uncounted = {}
    BY <1>1 DEF Uncounted, Lost, InScheduler
  <2>2. Unfinished # {}
    BY <1>1, <2>1, FS_EmptySet DEF IInv, ControlInv, ActiveExact
  <2>3. PICK i \in Unfinished : minTicket[i] # maxTicket[i]
    BY <1>1, <2>2 DEF Ticketless
  <2>4. i \in Created /\ i \in Ids
    BY <1>1, CreatedFacts DEF Unfinished, IInv
  <2>5. /\ minTicket[i] \in Nat /\ maxTicket[i] \in Nat /\ totalTickets \in Nat
        /\ minTicket[i] <= maxTicket[i] /\ maxTicket[i] <= totalTickets
    BY <1>1, <2>4 DEF IInv, TypeOK, TicketInv
  <2>6. minTicket[i] \in 0 .. totalTickets - 1 /\ Owns(i, minTicket[i])
    BY <2>3, <2>5 DEF Owns
  <2> QED
    BY <2>6
<1>2. IInv => DrawFinds
  BY <1>1 DEF DrawFinds
<1> QED
  BY <1>2, IInvHolds, PTL
=============================================================================
