------------------------- MODULE SharedBuffer_proofs -------------------------
(***************************************************************************)
(* Proofs about SharedBuffer, for any finite sets of producers and         *)
(* consumers, any buffer size and any bound on the writes.                 *)
(***************************************************************************)
EXTENDS SharedBuffer, FiniteSetTheorems, TLAPS

IInv == TypeOK /\ CountersExact

USE ProcessAssumption, SizeAssumption, MaxWritesAssumption

(* Alive(kind) changes by one process at a time.                           *)
LEMMA AliveFinite ==
  ASSUME NEW kind, IsFiniteSet(kind)
  PROVE  IsFiniteSet(Alive(kind)) /\ Cardinality(Alive(kind)) \in Nat
<1>1. Alive(kind) \subseteq kind
  BY DEF Alive
<1> QED
  BY <1>1, FS_Subset, FS_CardinalityType

LEMMA StepTypeOK == IInv /\ [Next]_vars => TypeOK'
<1> SUFFICES ASSUME IInv, [Next]_vars PROVE TypeOK'
  OBVIOUS
<1> USE DEF IInv, TypeOK, Clients, Writers, Processes, At, Goto, EnterPcs, PutPcs, GetPcs,
            AccessPcs, LeavePcs, FinalPcs, ProducerPcs, ConsumerPcs, FinalizerPcs,
            counters, bufferVars, bufferSems, zeroSems, localVars, finalVars
<1>1. ASSUME NEW p \in Clients, Connect(p) PROVE TypeOK'
  BY <1>1 DEF Connect
<1>2. ASSUME NEW p \in Clients, Register(p) PROVE TypeOK'
  BY <1>2 DEF Register
<1>3. ASSUME NEW p \in Writers, WaitFree(p) PROVE TypeOK'
  <2>1. writes' \in [Producers -> 0 .. MaxWrites]
    <3>1. CASE p \in Producers /\ ~isHalted
      <4>1. writes[p] + 1 \in 0 .. MaxWrites
        BY <1>3, <3>1 DEF WaitFree
      <4> QED
        BY <1>3, <3>1, <4>1 DEF WaitFree
    <3>2. CASE ~(p \in Producers /\ ~isHalted)
      BY <1>3, <3>2 DEF WaitFree
    <3> QED
      BY <3>1, <3>2
  <2> QED
    BY <1>3, <2>1 DEF WaitFree
<1>4. ASSUME NEW p \in Writers, TestHalted(p) PROVE TypeOK'
  BY <1>4 DEF TestHalted
<1>5. ASSUME NEW p \in Writers, TestFull(p) PROVE TypeOK'
  BY <1>5 DEF TestFull
<1>6. ASSUME NEW p \in Writers, StoreSlot(p) PROVE TypeOK'
  BY <1>6 DEF StoreSlot, Ops
<1>7. ASSUME NEW p \in Writers, PostUsed(p) PROVE TypeOK'
  BY <1>7 DEF PostUsed
<1>8. ASSUME NEW p \in Producers, TestLoop(p) PROVE TypeOK'
  BY <1>8 DEF TestLoop
<1>9. ASSUME NEW p \in Consumers, WaitUsed(p) PROVE TypeOK'
  BY <1>9 DEF WaitUsed
<1>10. ASSUME NEW p \in Consumers, WaitMutex(p) PROVE TypeOK'
  BY <1>10 DEF WaitMutex
<1>11. ASSUME NEW p \in Consumers, TestEmpty(p) PROVE TypeOK'
  BY <1>11 DEF TestEmpty
<1>12. ASSUME NEW p \in Consumers, LoadSlot(p) PROVE TypeOK'
  BY <1>12 DEF LoadSlot
<1>13. ASSUME NEW p \in Consumers, PostFree(p) PROVE TypeOK'
  BY <1>13 DEF PostFree
<1>14. ASSUME NEW p \in Consumers, TestMsg(p) PROVE TypeOK'
  BY <1>14 DEF TestMsg
<1>15. ASSUME NEW p \in Processes, LoadIndex(p) PROVE TypeOK'
  BY <1>15 DEF LoadIndex, Indices
<1>16. ASSUME NEW p \in Processes, StoreIndex(p) PROVE TypeOK'
  BY <1>16 DEF StoreIndex, Indices
<1>17. ASSUME NEW p \in Processes, LoadCount(p) PROVE TypeOK'
  BY <1>17 DEF LoadCount
<1>18. ASSUME NEW p \in Processes, StoreCount(p) PROVE TypeOK'
  BY <1>18 DEF StoreCount
<1>19. ASSUME NEW p \in Processes, Deliver(p) PROVE TypeOK'
  BY <1>19 DEF Deliver
<1>20. ASSUME NEW p \in Processes, SendInVain(p) PROVE TypeOK'
  BY <1>20 DEF SendInVain
<1>21. ASSUME NEW p \in Clients, Unregister(p) PROVE TypeOK'
  <2>1. CASE p \in Producers
    <3>1. nProd > 0
      BY <1>21, <2>1, AliveFinite, FS_EmptySet DEF Unregister, CountersExact, Alive
    <3> QED
      BY <1>21, <2>1, <3>1 DEF Unregister
  <2>2. CASE p \in Consumers
    <3>1. nCons > 0
      BY <1>21, <2>2, AliveFinite, FS_EmptySet DEF Unregister, CountersExact, Alive
    <3> QED
      BY <1>21, <2>2, <3>1 DEF Unregister
  <2> QED
    BY <2>1, <2>2
<1>22. ASSUME NEW p \in Clients, LeaveHalted(p) PROVE TypeOK'
  BY <1>22 DEF LeaveHalted
<1>23. ASSUME NEW p \in Clients, LeaveCounter(p) PROVE TypeOK'
  BY <1>23 DEF LeaveCounter
<1>24. ASSUME NEW p \in Clients, LeavePost(p) PROVE TypeOK'
  BY <1>24 DEF LeavePost
<1>25. CASE RaiseHalt
  BY <1>25 DEF RaiseHalt
<1>26. CASE ReadProducers
  BY <1>26 DEF ReadProducers
<1>27. CASE PostFrees
  BY <1>27 DEF PostFrees
<1>28. CASE WaitProducers
  BY <1>28 DEF WaitProducers
<1>29. CASE ReadConsumers
  BY <1>29 DEF ReadConsumers
<1>30. CASE WaitConsumers
  BY <1>30 DEF WaitConsumers
<1>31. CASE DeliverLast
  BY <1>31 DEF DeliverLast
<1>32. CASE AckLast
  BY <1>32 DEF AckLast
<1>33. CASE UNCHANGED vars
  BY <1>33 DEF vars
<1> QED
  BY <1>1, <1>2, <1>3, <1>4, <1>5, <1>6, <1>7, <1>8, <1>9, <1>10, <1>11,
     <1>12, <1>13, <1>14, <1>15, <1>16, <1>17, <1>18, <1>19, <1>20, <1>21,
     <1>22, <1>23, <1>24, <1>25, <1>26, <1>27, <1>28, <1>29, <1>30, <1>31,
     <1>32, <1>33
     DEF Next, Producer, Consumer, Finalize, Write, Read, Access, Leave

(* An action other than register and unregister leaves the counters and    *)
(* the sets they count as they are.                                        *)
CountersSame == UNCHANGED <<nProd, nCons, Alive(Producers), Alive(Consumers)>>

LEMMA CountersFrame == CountersExact /\ CountersSame => CountersExact'
BY DEF CountersExact, CountersSame

(* register_process and unregister_process change one counter and its set  *)
(* together.                                                               *)
LEMMA RegisterCounts ==
  ASSUME IInv, NEW p \in Clients, Register(p)
  PROVE  CountersExact'
<1> USE DEF IInv, TypeOK, Clients, Processes, At, Goto, EnterPcs, LeavePcs, CountersExact
<1>1. CASE p \in Producers
  <2>1. /\ nProd' = nProd + 1 /\ nCons' = nCons
        /\ pc[p] = "register" /\ pc' = [pc EXCEPT ![p] = "wait_free"]
    BY <1>1 DEF Register
  <2>2. Alive(Producers)' = Alive(Producers) \cup {p} /\ p \notin Alive(Producers)
    BY <1>1, <2>1 DEF Alive
  <2>3. Alive(Consumers)' = Alive(Consumers)
    BY <1>1, <2>1 DEF Alive
  <2> QED
    BY <2>1, <2>2, <2>3, AliveFinite, FS_AddElement
<1>2. CASE p \in Consumers
  <2>1. /\ nCons' = nCons + 1 /\ nProd' = nProd
        /\ pc[p] = "register" /\ pc' = [pc EXCEPT ![p] = "wait_used"]
    BY <1>2 DEF Register
  <2>2. Alive(Consumers)' = Alive(Consumers) \cup {p} /\ p \notin Alive(Consumers)
    BY <1>2, <2>1 DEF Alive
  <2>3. Alive(Producers)' = Alive(Producers)
    BY <1>2, <2>1 DEF Alive
  <2> QED
    BY <2>1, <2>2, <2>3, AliveFinite, FS_AddElement
<1> QED
  BY <1>1, <1>2

LEMMA UnregisterCounts ==
  ASSUME IInv, NEW p \in Clients, Unregister(p)
  PROVE  CountersExact'
<1> USE DEF IInv, TypeOK, Clients, Processes, At, Goto, EnterPcs, LeavePcs, CountersExact
<1>1. CASE p \in Producers
  <2>1. /\ nProd' = nProd - 1 /\ nCons' = nCons
        /\ pc[p] = "unregister" /\ pc' = [pc EXCEPT ![p] = "leave_halted"]
    BY <1>1 DEF Unregister
  <2>2. Alive(Producers)' = Alive(Producers) \ {p} /\ p \in Alive(Producers)
    BY <1>1, <2>1 DEF Alive
  <2>3. Alive(Consumers)' = Alive(Consumers)
    BY <1>1, <2>1 DEF Alive
  <2>4. Cardinality(Alive(Producers) \ {p}) = Cardinality(Alive(Producers)) - 1
    BY <2>2, AliveFinite, FS_RemoveElement
  <2> QED
    BY <2>1, <2>2, <2>3, <2>4
<1>2. CASE p \in Consumers
  <2>1. /\ nCons' = nCons - 1 /\ nProd' = nProd
        /\ pc[p] = "unregister" /\ pc' = [pc EXCEPT ![p] = "leave_halted"]
    BY <1>2 DEF Unregister
  <2>2. Alive(Consumers)' = Alive(Consumers) \ {p} /\ p \in Alive(Consumers)
    BY <1>2, <2>1 DEF Alive
  <2>3. Alive(Producers)' = Alive(Producers)
    BY <1>2, <2>1 DEF Alive
  <2>4. Cardinality(Alive(Consumers) \ {p}) = Cardinality(Alive(Consumers)) - 1
    BY <2>2, AliveFinite, FS_RemoveElement
  <2> QED
    BY <2>1, <2>2, <2>3, <2>4
<1> QED
  BY <1>1, <1>2

LEMMA StepCountersExact == IInv /\ [Next]_vars => CountersExact'
<1> SUFFICES ASSUME IInv, [Next]_vars PROVE CountersExact'
  OBVIOUS
<1> USE DEF IInv, TypeOK, Clients, Writers, Processes, At, Goto, EnterPcs, LeavePcs,
            counters, localVars, finalVars
<1>1. ASSUME NEW p \in Clients, Connect(p) PROVE CountersExact'
  <2>1. CountersSame
    BY <1>1 DEF Connect, CountersSame, Alive
  <2> QED
    BY <2>1, CountersFrame
<1>2. ASSUME NEW p \in Clients, Register(p) PROVE CountersExact'
  BY <1>2, RegisterCounts
<1>3. ASSUME NEW p \in Writers, WaitFree(p) PROVE CountersExact'
  <2>1. CountersSame
    BY <1>3 DEF WaitFree, CountersSame, Alive
  <2> QED
    BY <2>1, CountersFrame
<1>4. ASSUME NEW p \in Writers, TestHalted(p) PROVE CountersExact'
  <2>1. CountersSame
    BY <1>4 DEF TestHalted, CountersSame, Alive
  <2> QED
    BY <2>1, CountersFrame
<1>5. ASSUME NEW p \in Writers, TestFull(p) PROVE CountersExact'
  <2>1. CountersSame
    BY <1>5 DEF TestFull, CountersSame, Alive
  <2> QED
    BY <2>1, CountersFrame
<1>6. ASSUME NEW p \in Writers, StoreSlot(p) PROVE CountersExact'
  <2>1. CountersSame
    BY <1>6 DEF StoreSlot, CountersSame, Alive
  <2> QED
    BY <2>1, CountersFrame
<1>7. ASSUME NEW p \in Writers, PostUsed(p) PROVE CountersExact'
  <2>1. CountersSame
    BY <1>7 DEF PostUsed, CountersSame, Alive
  <2> QED
    BY <2>1, CountersFrame
<1>8. ASSUME NEW p \in Producers, TestLoop(p) PROVE CountersExact'
  <2>1. CountersSame
    BY <1>8 DEF TestLoop, CountersSame, Alive
  <2> QED
    BY <2>1, CountersFrame
<1>9. ASSUME NEW p \in Consumers, WaitUsed(p) PROVE CountersExact'
  <2>1. CountersSame
    BY <1>9 DEF WaitUsed, CountersSame, Alive
  <2> QED
    BY <2>1, CountersFrame
<1>10. ASSUME NEW p \in Consumers, WaitMutex(p) PROVE CountersExact'
  <2>1. CountersSame
    BY <1>10 DEF WaitMutex, CountersSame, Alive
  <2> QED
    BY <2>1, CountersFrame
<1>11. ASSUME NEW p \in Consumers, TestEmpty(p) PROVE CountersExact'
  <2>1. CountersSame
    BY <1>11 DEF TestEmpty, CountersSame, Alive
  <2> QED
    BY <2>1, CountersFrame
<1>12. ASSUME NEW p \in Consumers, LoadSlot(p) PROVE CountersExact'
  <2>1. CountersSame
    BY <1>12 DEF LoadSlot, CountersSame, Alive
  <2> QED
    BY <2>1, CountersFrame
<1>13. ASSUME NEW p \in Consumers, PostFree(p) PROVE CountersExact'
  <2>1. CountersSame
    BY <1>13 DEF PostFree, CountersSame, Alive
  <2> QED
    BY <2>1, CountersFrame
<1>14. ASSUME NEW p \in Consumers, TestMsg(p) PROVE CountersExact'
  <2>1. CountersSame
    BY <1>14 DEF TestMsg, CountersSame, Alive
  <2> QED
    BY <2>1, CountersFrame
<1>15. ASSUME NEW p \in Processes, LoadIndex(p) PROVE CountersExact'
  <2>1. CountersSame
    BY <1>15 DEF LoadIndex, CountersSame, Alive
  <2> QED
    BY <2>1, CountersFrame
<1>16. ASSUME NEW p \in Processes, StoreIndex(p) PROVE CountersExact'
  <2>1. CountersSame
    BY <1>16 DEF StoreIndex, CountersSame, Alive
  <2> QED
    BY <2>1, CountersFrame
<1>17. ASSUME NEW p \in Processes, LoadCount(p) PROVE CountersExact'
  <2>1. CountersSame
    BY <1>17 DEF LoadCount, CountersSame, Alive
  <2> QED
    BY <2>1, CountersFrame
<1>18. ASSUME NEW p \in Processes, StoreCount(p) PROVE CountersExact'
  <2>1. CountersSame
    BY <1>18 DEF StoreCount, CountersSame, Alive
  <2> QED
    BY <2>1, CountersFrame
<1>19. ASSUME NEW p \in Processes, Deliver(p) PROVE CountersExact'
  <2>1. CountersSame
    BY <1>19 DEF Deliver, CountersSame, Alive
  <2> QED
    BY <2>1, CountersFrame
<1>20. ASSUME NEW p \in Processes, SendInVain(p) PROVE CountersExact'
  <2>1. CountersSame
    BY <1>20 DEF SendInVain, CountersSame, Alive
  <2> QED
    BY <2>1, CountersFrame
<1>21. ASSUME NEW p \in Clients, Unregister(p) PROVE CountersExact'
  BY <1>21, UnregisterCounts
<1>22. ASSUME NEW p \in Clients, LeaveHalted(p) PROVE CountersExact'
  <2>1. CountersSame
    BY <1>22 DEF LeaveHalted, CountersSame, Alive
  <2> QED
    BY <2>1, CountersFrame
<1>23. ASSUME NEW p \in Clients, LeaveCounter(p) PROVE CountersExact'
  <2>1. CountersSame
    BY <1>23 DEF LeaveCounter, CountersSame, Alive
  <2> QED
    BY <2>1, CountersFrame
<1>24. ASSUME NEW p \in Clients, LeavePost(p) PROVE CountersExact'
  <2>1. CountersSame
    BY <1>24 DEF LeavePost, CountersSame, Alive
  <2> QED
    BY <2>1, CountersFrame
<1>25. CASE RaiseHalt
  <2>1. CountersSame
    BY <1>25 DEF RaiseHalt, CountersSame, Alive
  <2> QED
    BY <2>1, CountersFrame
<1>26. CASE ReadProducers
  <2>1. CountersSame
    BY <1>26 DEF ReadProducers, CountersSame, Alive
  <2> QED
    BY <2>1, CountersFrame
<1>27. CASE PostFrees
  <2>1. CountersSame
    BY <1>27 DEF PostFrees, CountersSame, Alive
  <2> QED
    BY <2>1, CountersFrame
<1>28. CASE WaitProducers
  <2>1. CountersSame
    BY <1>28 DEF WaitProducers, CountersSame, Alive
  <2> QED
    BY <2>1, CountersFrame
<1>29. CASE ReadConsumers
  <2>1. CountersSame
    BY <1>29 DEF ReadConsumers, CountersSame, Alive
  <2> QED
    BY <2>1, CountersFrame
<1>30. CASE WaitConsumers
  <2>1. CountersSame
    BY <1>30 DEF WaitConsumers, CountersSame, Alive
  <2> QED
    BY <2>1, CountersFrame
<1>31. CASE DeliverLast
  <2>1. CountersSame
    BY <1>31 DEF DeliverLast, CountersSame, Alive
  <2> QED
    BY <2>1, CountersFrame
<1>32. CASE AckLast
  <2>1. CountersSame
    BY <1>32 DEF AckLast, CountersSame, Alive
  <2> QED
    BY <2>1, CountersFrame
<1>33. CASE UNCHANGED vars
  BY <1>33 DEF vars, CountersExact, Alive
<1> QED
  BY <1>1, <1>2, <1>3, <1>4, <1>5, <1>6, <1>7, <1>8, <1>9, <1>10, <1>11,
     <1>12, <1>13, <1>14, <1>15, <1>16, <1>17, <1>18, <1>19, <1>20, <1>21,
     <1>22, <1>23, <1>24, <1>25, <1>26, <1>27, <1>28, <1>29, <1>30, <1>31,
     <1>32, <1>33
     DEF Next, Producer, Consumer, Finalize, Write, Read, Access, Leave

LEMMA InitIInv == Init => IInv
<1> SUFFICES ASSUME Init PROVE IInv
  OBVIOUS
<1>1. TypeOK
  <2>1. /\ slots \in [Indices -> Ops] /\ reg \in [Processes -> Int]
        /\ msg \in [Consumers -> Ops] /\ writes \in [Producers -> 0 .. MaxWrites]
    BY DEF Init, Ops
  <2>2. 0 \in Indices /\ Size \in Nat
    BY DEF Indices
  <2>3. /\ pc \in [Processes -> ProducerPcs \cup ConsumerPcs \cup FinalizerPcs]
        /\ \A p \in Clients : pc[p] = "connect"
        /\ pc[Finalizer] = "raise_halt"
    BY DEF Init, Clients, Processes, ProducerPcs, FinalizerPcs, EnterPcs, FinalPcs
  <2>4. /\ \A p \in Producers : pc[p] \in ProducerPcs
        /\ \A c \in Consumers : pc[c] \in ConsumerPcs
        /\ pc[Finalizer] \in FinalizerPcs
    BY <2>3 DEF Clients, ProducerPcs, ConsumerPcs, FinalizerPcs, EnterPcs, FinalPcs
  <2>5. \A p \in Processes : pc[p] # "store_index"
    BY <2>3 DEF Processes, Clients
  <2>6. pc \in [Processes -> ProducerPcs \cup ConsumerPcs \cup FinalizerPcs]
    BY <2>3
  <2>7. isHalted \in BOOLEAN
    BY DEF Init
  <2>8. nProd = 0 /\ nCons = 0 /\ head = 0 /\ tail = 0 /\ count = 0
    BY DEF Init
  <2>9. /\ cbufferMut = 1 /\ buffUsed = 0 /\ buffFree = Size /\ creator = "running"
         /\ zeroProducers = 0 /\ zeroConsumers = 0
         /\ prodCtr = 0 /\ consCtr = 0 /\ halts = 0
    BY DEF Init
  <2>10. /\ isHalted \in BOOLEAN /\ nProd \in Nat /\ nCons \in Nat
        /\ head \in Indices /\ tail \in Indices /\ count \in Int
        /\ cbufferMut \in Nat /\ buffUsed \in Nat /\ buffFree \in Nat
        /\ zeroProducers \in Nat /\ zeroConsumers \in Nat
        /\ creator \in {"running", "exited", "deaf"}
        /\ prodCtr \in Nat /\ consCtr \in Nat /\ halts \in Nat
    BY <2>2, <2>7, <2>8, <2>9
  <2> QED
    BY <2>1, <2>4, <2>5, <2>6, <2>10 DEF TypeOK
<1>2. Alive(Producers) = {} /\ Alive(Consumers) = {}
  BY DEF Init, Alive, Clients, Processes, EnterPcs
<1> QED
  BY <1>1, <1>2, FS_EmptySet DEF Init, IInv, CountersExact

(* TypeOK and CountersExact together are inductive.                        *)
THEOREM InductiveInvariant == Spec => []IInv
<1>1. IInv /\ [Next]_vars => IInv'
  BY StepTypeOK, StepCountersExact DEF IInv
<1> QED
  BY InitIInv, <1>1, PTL DEF Spec

(* Type correctness: the indices of the buffer stay inside it although no  *)
(* lock is held over their updates (cbuffer.c:58, 73), and no semaphore or *)
(* counter goes below zero.                                                *)
THEOREM TypeCorrect == Spec => []TypeOK
BY InductiveInvariant, PTL DEF IInv

(* n_prod and n_cons of shared_v are exact (sync.c:294-300).               *)
THEOREM CountersAreExact == Spec => []CountersExact
BY InductiveInvariant, PTL DEF IInv

-----------------------------------------------------------------------------
(* No lost wakeup.                                                         *)

\* Where finalize is tells whether the halt is raised, and consCtr is set when
\* it has read the counter of consumers.
FinalizeInv ==
  /\ isHalted <=> pc[Finalizer] # "raise_halt"
  /\ pc[Finalizer] \in BeforeConsumers \cup {"read_consumers"} => consCtr = 0
  /\ pc[Finalizer] \in {"post_frees", "wait_producers"} => prodCtr > 0
  /\ pc[Finalizer] \in {"raise_halt", "read_producers"} => prodCtr = 0

WakeInv == FinalizeInv /\ NoLostWakeup

\* A process whose wait could be pending: it is alive or may still post.
LEMMA AliveWhenCounted ==
  ASSUME IInv
  PROVE  /\ nProd # 0 => Alive(Producers) # {}
         /\ nCons # 0 => Alive(Consumers) # {}
BY FS_EmptySet DEF IInv, CountersExact

LEMMA StepFinalizeInv == IInv /\ WakeInv /\ [Next]_vars => FinalizeInv'
<1> SUFFICES ASSUME IInv, WakeInv, [Next]_vars PROVE FinalizeInv'
  OBVIOUS
<1> USE DEF IInv, TypeOK, Clients, Writers, Processes, At, Goto, BeforeConsumers,
            counters, zeroSems, localVars, finalVars,
            WakeInv, FinalizeInv
<1>1. ASSUME NEW p \in Clients, Connect(p) PROVE FinalizeInv'
  BY <1>1 DEF Connect
<1>2. ASSUME NEW p \in Clients, Register(p) PROVE FinalizeInv'
  BY <1>2 DEF Register
<1>3. ASSUME NEW p \in Writers, WaitFree(p) PROVE FinalizeInv'
  BY <1>3 DEF WaitFree
<1>4. ASSUME NEW p \in Writers, TestHalted(p) PROVE FinalizeInv'
  BY <1>4 DEF TestHalted
<1>5. ASSUME NEW p \in Writers, TestFull(p) PROVE FinalizeInv'
  BY <1>5 DEF TestFull
<1>6. ASSUME NEW p \in Writers, StoreSlot(p) PROVE FinalizeInv'
  BY <1>6 DEF StoreSlot
<1>7. ASSUME NEW p \in Writers, PostUsed(p) PROVE FinalizeInv'
  BY <1>7 DEF PostUsed
<1>8. ASSUME NEW p \in Producers, TestLoop(p) PROVE FinalizeInv'
  BY <1>8 DEF TestLoop
<1>9. ASSUME NEW p \in Consumers, WaitUsed(p) PROVE FinalizeInv'
  BY <1>9 DEF WaitUsed
<1>10. ASSUME NEW p \in Consumers, WaitMutex(p) PROVE FinalizeInv'
  BY <1>10 DEF WaitMutex
<1>11. ASSUME NEW p \in Consumers, TestEmpty(p) PROVE FinalizeInv'
  BY <1>11 DEF TestEmpty
<1>12. ASSUME NEW p \in Consumers, LoadSlot(p) PROVE FinalizeInv'
  BY <1>12 DEF LoadSlot
<1>13. ASSUME NEW p \in Consumers, PostFree(p) PROVE FinalizeInv'
  BY <1>13 DEF PostFree
<1>14. ASSUME NEW p \in Consumers, TestMsg(p) PROVE FinalizeInv'
  BY <1>14 DEF TestMsg
<1>15. ASSUME NEW p \in Processes, LoadIndex(p) PROVE FinalizeInv'
  BY <1>15 DEF LoadIndex
<1>16. ASSUME NEW p \in Processes, StoreIndex(p) PROVE FinalizeInv'
  BY <1>16 DEF StoreIndex
<1>17. ASSUME NEW p \in Processes, LoadCount(p) PROVE FinalizeInv'
  BY <1>17 DEF LoadCount
<1>18. ASSUME NEW p \in Processes, StoreCount(p) PROVE FinalizeInv'
  BY <1>18 DEF StoreCount
<1>19. ASSUME NEW p \in Processes, Deliver(p) PROVE FinalizeInv'
  BY <1>19 DEF Deliver
<1>20. ASSUME NEW p \in Processes, SendInVain(p) PROVE FinalizeInv'
  BY <1>20 DEF SendInVain
<1>21. ASSUME NEW p \in Clients, Unregister(p) PROVE FinalizeInv'
  BY <1>21 DEF Unregister
<1>22. ASSUME NEW p \in Clients, LeaveHalted(p) PROVE FinalizeInv'
  BY <1>22 DEF LeaveHalted
<1>23. ASSUME NEW p \in Clients, LeaveCounter(p) PROVE FinalizeInv'
  BY <1>23 DEF LeaveCounter
<1>24. ASSUME NEW p \in Clients, LeavePost(p) PROVE FinalizeInv'
  BY <1>24 DEF LeavePost
<1>25. CASE RaiseHalt
  BY <1>25 DEF RaiseHalt
<1>26. CASE ReadProducers
  BY <1>26 DEF ReadProducers
<1>27. CASE PostFrees
  BY <1>27 DEF PostFrees
<1>28. CASE WaitProducers
  BY <1>28 DEF WaitProducers
<1>29. CASE ReadConsumers
  BY <1>29 DEF ReadConsumers
<1>30. CASE WaitConsumers
  BY <1>30 DEF WaitConsumers
<1>31. CASE DeliverLast
  BY <1>31 DEF DeliverLast
<1>32. CASE AckLast
  BY <1>32 DEF AckLast
<1>33. CASE UNCHANGED vars
  BY <1>33 DEF vars
<1> QED
  BY <1>1, <1>2, <1>3, <1>4, <1>5, <1>6, <1>7, <1>8, <1>9, <1>10, <1>11,
     <1>12, <1>13, <1>14, <1>15, <1>16, <1>17, <1>18, <1>19, <1>20, <1>21,
     <1>22, <1>23, <1>24, <1>25, <1>26, <1>27, <1>28, <1>29, <1>30, <1>31,
     <1>32, <1>33
     DEF Next, Producer, Consumer, Finalize, Write, Read, Access, Leave

LEMMA StepNoLostWakeup == IInv /\ WakeInv /\ [Next]_vars => NoLostWakeup'
<1> SUFFICES ASSUME IInv, WakeInv, [Next]_vars PROVE NoLostWakeup'
  OBVIOUS
<1> USE DEF IInv, TypeOK, Clients, Writers, Processes, At, Goto, BeforeConsumers,
            counters, zeroSems, localVars, finalVars,
            WakeInv, FinalizeInv
<1>1. ASSUME NEW p \in Clients, Connect(p) PROVE NoLostWakeup'
  BY <1>1 DEF Connect, NoLostWakeup, Alive, MayPost, EnterPcs, LeavePcs
<1>2. ASSUME NEW p \in Clients, Register(p) PROVE NoLostWakeup'
  BY <1>2 DEF Register, NoLostWakeup, Alive, MayPost, EnterPcs, LeavePcs
<1>3. ASSUME NEW p \in Writers, WaitFree(p) PROVE NoLostWakeup'
  BY <1>3 DEF WaitFree, NoLostWakeup, Alive, MayPost, EnterPcs, LeavePcs
<1>4. ASSUME NEW p \in Writers, TestHalted(p) PROVE NoLostWakeup'
  BY <1>4 DEF TestHalted, NoLostWakeup, Alive, MayPost, EnterPcs, LeavePcs
<1>5. ASSUME NEW p \in Writers, TestFull(p) PROVE NoLostWakeup'
  BY <1>5 DEF TestFull, NoLostWakeup, Alive, MayPost, EnterPcs, LeavePcs
<1>6. ASSUME NEW p \in Writers, StoreSlot(p) PROVE NoLostWakeup'
  BY <1>6 DEF StoreSlot, NoLostWakeup, Alive, MayPost, EnterPcs, LeavePcs
<1>7. ASSUME NEW p \in Writers, PostUsed(p) PROVE NoLostWakeup'
  BY <1>7 DEF PostUsed, NoLostWakeup, Alive, MayPost, EnterPcs, LeavePcs
<1>8. ASSUME NEW p \in Producers, TestLoop(p) PROVE NoLostWakeup'
  BY <1>8 DEF TestLoop, NoLostWakeup, Alive, MayPost, EnterPcs, LeavePcs
<1>9. ASSUME NEW p \in Consumers, WaitUsed(p) PROVE NoLostWakeup'
  BY <1>9 DEF WaitUsed, NoLostWakeup, Alive, MayPost, EnterPcs, LeavePcs
<1>10. ASSUME NEW p \in Consumers, WaitMutex(p) PROVE NoLostWakeup'
  BY <1>10 DEF WaitMutex, NoLostWakeup, Alive, MayPost, EnterPcs, LeavePcs
<1>11. ASSUME NEW p \in Consumers, TestEmpty(p) PROVE NoLostWakeup'
  BY <1>11 DEF TestEmpty, NoLostWakeup, Alive, MayPost, EnterPcs, LeavePcs
<1>12. ASSUME NEW p \in Consumers, LoadSlot(p) PROVE NoLostWakeup'
  BY <1>12 DEF LoadSlot, NoLostWakeup, Alive, MayPost, EnterPcs, LeavePcs
<1>13. ASSUME NEW p \in Consumers, PostFree(p) PROVE NoLostWakeup'
  BY <1>13 DEF PostFree, NoLostWakeup, Alive, MayPost, EnterPcs, LeavePcs
<1>14. ASSUME NEW p \in Consumers, TestMsg(p) PROVE NoLostWakeup'
  BY <1>14 DEF TestMsg, NoLostWakeup, Alive, MayPost, EnterPcs, LeavePcs
<1>15. ASSUME NEW p \in Processes, LoadIndex(p) PROVE NoLostWakeup'
  BY <1>15 DEF LoadIndex, NoLostWakeup, Alive, MayPost, EnterPcs, LeavePcs
<1>16. ASSUME NEW p \in Processes, StoreIndex(p) PROVE NoLostWakeup'
  BY <1>16 DEF StoreIndex, NoLostWakeup, Alive, MayPost, EnterPcs, LeavePcs
<1>17. ASSUME NEW p \in Processes, LoadCount(p) PROVE NoLostWakeup'
  BY <1>17 DEF LoadCount, NoLostWakeup, Alive, MayPost, EnterPcs, LeavePcs
<1>18. ASSUME NEW p \in Processes, StoreCount(p) PROVE NoLostWakeup'
  BY <1>18 DEF StoreCount, NoLostWakeup, Alive, MayPost, EnterPcs, LeavePcs
<1>19. ASSUME NEW p \in Processes, Deliver(p) PROVE NoLostWakeup'
  BY <1>19 DEF Deliver, NoLostWakeup, Alive, MayPost, EnterPcs, LeavePcs
<1>20. ASSUME NEW p \in Processes, SendInVain(p) PROVE NoLostWakeup'
  BY <1>20 DEF SendInVain, NoLostWakeup, Alive, MayPost, EnterPcs, LeavePcs
<1>21. ASSUME NEW p \in Clients, Unregister(p) PROVE NoLostWakeup'
  BY <1>21 DEF Unregister, NoLostWakeup, Alive, MayPost, EnterPcs, LeavePcs
<1>22. ASSUME NEW p \in Clients, LeaveHalted(p) PROVE NoLostWakeup'
  BY <1>22 DEF LeaveHalted, NoLostWakeup, Alive, MayPost, EnterPcs, LeavePcs
<1>23. ASSUME NEW p \in Clients, LeaveCounter(p) PROVE NoLostWakeup'
  BY <1>23, AliveWhenCounted DEF LeaveCounter, NoLostWakeup, Alive, MayPost, EnterPcs, LeavePcs
<1>24. ASSUME NEW p \in Clients, LeavePost(p) PROVE NoLostWakeup'
  BY <1>24 DEF LeavePost, NoLostWakeup, Alive, MayPost, EnterPcs, LeavePcs
<1>25. CASE RaiseHalt
  BY <1>25 DEF RaiseHalt, NoLostWakeup, Alive, MayPost, EnterPcs, LeavePcs
<1>26. CASE ReadProducers
  BY <1>26, AliveWhenCounted DEF ReadProducers, NoLostWakeup, Alive, MayPost, EnterPcs, LeavePcs
<1>27. CASE PostFrees
  BY <1>27 DEF PostFrees, NoLostWakeup, Alive, MayPost, EnterPcs, LeavePcs
<1>28. CASE WaitProducers
  BY <1>28 DEF WaitProducers, NoLostWakeup, Alive, MayPost, EnterPcs, LeavePcs
<1>29. CASE ReadConsumers
  BY <1>29, AliveWhenCounted DEF ReadConsumers, NoLostWakeup, Alive, MayPost, EnterPcs, LeavePcs
<1>30. CASE WaitConsumers
  BY <1>30 DEF WaitConsumers, NoLostWakeup, Alive, MayPost, EnterPcs, LeavePcs
<1>31. CASE DeliverLast
  BY <1>31 DEF DeliverLast, NoLostWakeup, Alive, MayPost, EnterPcs, LeavePcs
<1>32. CASE AckLast
  BY <1>32 DEF AckLast, NoLostWakeup, Alive, MayPost, EnterPcs, LeavePcs
<1>33. CASE UNCHANGED vars
  BY <1>33 DEF vars, NoLostWakeup, Alive, MayPost
<1> QED
  BY <1>1, <1>2, <1>3, <1>4, <1>5, <1>6, <1>7, <1>8, <1>9, <1>10, <1>11,
     <1>12, <1>13, <1>14, <1>15, <1>16, <1>17, <1>18, <1>19, <1>20, <1>21,
     <1>22, <1>23, <1>24, <1>25, <1>26, <1>27, <1>28, <1>29, <1>30, <1>31,
     <1>32, <1>33
     DEF Next, Producer, Consumer, Finalize, Write, Read, Access, Leave

LEMMA InitWakeInv == Init => WakeInv
BY DEF Init, WakeInv, FinalizeInv, NoLostWakeup, BeforeConsumers, Processes

THEOREM WakeInvariant == Spec => []WakeInv
<1>1. IInv /\ WakeInv /\ [Next]_vars => WakeInv'
  BY StepFinalizeInv, StepNoLostWakeup DEF WakeInv
<1> QED
  BY InitWakeInv, <1>1, InductiveInvariant, PTL DEF Spec

(* disconnect_shr_mem decrements, then tests is_halted, then reads the     *)
(* counter; finalize raises the halt, then reads the counter.  Whatever    *)
(* the interleaving, finalize waits only for a post that is made or owed.  *)
THEOREM NoWakeupIsLost == Spec => []NoLostWakeup
BY WakeInvariant, PTL DEF WakeInv

-----------------------------------------------------------------------------
(* The units of the two buffer semaphores are conserved.                   *)

LEMMA InUseFinite ==
  IsFiniteSet(InUse) /\ Cardinality(InUse) \in Nat
<1>1. IsFiniteSet(Processes)
  BY FS_AddElement, FS_Union DEF Processes, Clients
<1>2. InUse \subseteq Processes
  BY DEF InUse
<1> QED
  BY <1>1, <1>2, FS_Subset, FS_CardinalityType

LEMMA LeavingFinite ==
  IsFiniteSet(Leaving) /\ Cardinality(Leaving) \in Nat
<1>1. Leaving \subseteq Producers
  BY DEF Leaving
<1> QED
  BY <1>1, FS_Subset, FS_CardinalityType

\* A process that is leaving goes on leaving.
LEMMA LeavingGrows ==
  ASSUME IInv, [Next]_vars
  PROVE  Cardinality(Leaving') \in Nat /\ Cardinality(Leaving) <= Cardinality(Leaving')
<1>1. Leaving \subseteq Leaving'
  <2> USE DEF IInv, TypeOK, Clients, Writers, Processes, At, Goto, Leaving, LeavePcs
  <2>1. ASSUME NEW p \in Clients, Connect(p) PROVE Leaving \subseteq Leaving'
    BY <2>1 DEF Connect
  <2>2. ASSUME NEW p \in Clients, Register(p) PROVE Leaving \subseteq Leaving'
    BY <2>2 DEF Register
  <2>3. ASSUME NEW p \in Writers, WaitFree(p) PROVE Leaving \subseteq Leaving'
    BY <2>3 DEF WaitFree
  <2>4. ASSUME NEW p \in Writers, TestHalted(p) PROVE Leaving \subseteq Leaving'
    BY <2>4 DEF TestHalted
  <2>5. ASSUME NEW p \in Writers, TestFull(p) PROVE Leaving \subseteq Leaving'
    BY <2>5 DEF TestFull
  <2>6. ASSUME NEW p \in Writers, StoreSlot(p) PROVE Leaving \subseteq Leaving'
    BY <2>6 DEF StoreSlot
  <2>7. ASSUME NEW p \in Writers, PostUsed(p) PROVE Leaving \subseteq Leaving'
    BY <2>7 DEF PostUsed
  <2>8. ASSUME NEW p \in Producers, TestLoop(p) PROVE Leaving \subseteq Leaving'
    BY <2>8 DEF TestLoop
  <2>9. ASSUME NEW p \in Consumers, WaitUsed(p) PROVE Leaving \subseteq Leaving'
    BY <2>9 DEF WaitUsed
  <2>10. ASSUME NEW p \in Consumers, WaitMutex(p) PROVE Leaving \subseteq Leaving'
    BY <2>10 DEF WaitMutex
  <2>11. ASSUME NEW p \in Consumers, TestEmpty(p) PROVE Leaving \subseteq Leaving'
    BY <2>11 DEF TestEmpty
  <2>12. ASSUME NEW p \in Consumers, LoadSlot(p) PROVE Leaving \subseteq Leaving'
    BY <2>12 DEF LoadSlot
  <2>13. ASSUME NEW p \in Consumers, PostFree(p) PROVE Leaving \subseteq Leaving'
    BY <2>13 DEF PostFree
  <2>14. ASSUME NEW p \in Consumers, TestMsg(p) PROVE Leaving \subseteq Leaving'
    BY <2>14 DEF TestMsg
  <2>15. ASSUME NEW p \in Processes, LoadIndex(p) PROVE Leaving \subseteq Leaving'
    BY <2>15 DEF LoadIndex
  <2>16. ASSUME NEW p \in Processes, StoreIndex(p) PROVE Leaving \subseteq Leaving'
    BY <2>16 DEF StoreIndex
  <2>17. ASSUME NEW p \in Processes, LoadCount(p) PROVE Leaving \subseteq Leaving'
    BY <2>17 DEF LoadCount
  <2>18. ASSUME NEW p \in Processes, StoreCount(p) PROVE Leaving \subseteq Leaving'
    BY <2>18 DEF StoreCount
  <2>19. ASSUME NEW p \in Processes, Deliver(p) PROVE Leaving \subseteq Leaving'
    BY <2>19 DEF Deliver
  <2>20. ASSUME NEW p \in Processes, SendInVain(p) PROVE Leaving \subseteq Leaving'
    BY <2>20 DEF SendInVain
  <2>21. ASSUME NEW p \in Clients, Unregister(p) PROVE Leaving \subseteq Leaving'
    BY <2>21 DEF Unregister
  <2>22. ASSUME NEW p \in Clients, LeaveHalted(p) PROVE Leaving \subseteq Leaving'
    BY <2>22 DEF LeaveHalted
  <2>23. ASSUME NEW p \in Clients, LeaveCounter(p) PROVE Leaving \subseteq Leaving'
    BY <2>23 DEF LeaveCounter
  <2>24. ASSUME NEW p \in Clients, LeavePost(p) PROVE Leaving \subseteq Leaving'
    BY <2>24 DEF LeavePost
  <2>25. CASE RaiseHalt
    BY <2>25 DEF RaiseHalt
  <2>26. CASE ReadProducers
    BY <2>26 DEF ReadProducers
  <2>27. CASE PostFrees
    BY <2>27 DEF PostFrees
  <2>28. CASE WaitProducers
    BY <2>28 DEF WaitProducers
  <2>29. CASE ReadConsumers
    BY <2>29 DEF ReadConsumers
  <2>30. CASE WaitConsumers
    BY <2>30 DEF WaitConsumers
  <2>31. CASE DeliverLast
    BY <2>31 DEF DeliverLast
  <2>32. CASE AckLast
    BY <2>32 DEF AckLast
  <2>33. CASE UNCHANGED vars
    BY <2>33 DEF vars
  <2> QED
    BY <2>1, <2>2, <2>3, <2>4, <2>5, <2>6, <2>7, <2>8, <2>9, <2>10, <2>11,
       <2>12, <2>13, <2>14, <2>15, <2>16, <2>17, <2>18, <2>19, <2>20, <2>21,
       <2>22, <2>23, <2>24, <2>25, <2>26, <2>27, <2>28, <2>29, <2>30, <2>31,
       <2>32, <2>33
       DEF Next, Producer, Consumer, Finalize, Write, Read, Access, Leave
<1>2. Leaving' \subseteq Producers
  BY DEF Leaving
<1>3. IsFiniteSet(Leaving')
  BY <1>2, FS_Subset
<1> QED
  BY <1>1, <1>3, LeavingFinite, FS_Subset, FS_CardinalityType

UnitTypes ==
  /\ buffFree \in Nat /\ buffUsed \in Nat /\ Extra \in Nat
  /\ Cardinality(InUse) \in Nat /\ Cardinality(Leaving) \in Nat

LEMMA UnitsAreNumbers == ASSUME IInv, [Next]_vars PROVE UnitTypes /\ UnitTypes'
<1>1. IInv => UnitTypes
  BY InUseFinite, LeavingFinite DEF IInv, TypeOK, UnitTypes, Extra
<1>2. TypeOK'
  BY StepTypeOK
<1>3. Cardinality(InUse') \in Nat
  <2>1. IsFiniteSet(Processes)
    BY FS_AddElement, FS_Union DEF Processes, Clients
  <2>2. InUse' \subseteq Processes
    BY DEF InUse
  <2> QED
    BY <2>1, <2>2, FS_Subset, FS_CardinalityType
<1> QED
  BY <1>1, <1>2, <1>3, LeavingGrows DEF TypeOK, UnitTypes, Extra

\* What UnitsConserved needs of a step that drops no unit.
LEMMA UnitsKept ==
  ASSUME IInv, [Next]_vars, UnitsConserved,
         Units' = Units, Extra' = Extra, isHalted => isHalted'
  PROVE  UnitsConserved'
<1>1. UnitTypes /\ UnitTypes'
  BY UnitsAreNumbers
<1>2. Cardinality(Leaving) <= Cardinality(Leaving')
  BY LeavingGrows
<1>3. ~isHalted' => Units' = Size
  BY Zenon DEF UnitsConserved
<1>4. Units <= Size + Extra /\ Size + Extra <= Units + Cardinality(Leaving)
  BY DEF UnitsConserved
<1>5. Units \in Int /\ Size \in Int
  BY <1>1, SizeAssumption DEF Units, UnitTypes
<1>6. Size + Extra' <= Units' + Cardinality(Leaving')
  BY <1>1, <1>2, <1>4, <1>5 DEF UnitTypes
<1> QED
  BY <1>3, <1>4, <1>6 DEF UnitsConserved

\* A unit may move between the semaphores and the processes that hold one.
LEMMA UnitMoves ==
  ASSUME UnitTypes, UnitTypes', NEW d \in Int,
         Cardinality(InUse') = Cardinality(InUse) + d,
         \/ buffFree' = buffFree - d /\ buffUsed' = buffUsed
         \/ buffFree' = buffFree /\ buffUsed' = buffUsed - d
  PROVE  Units' = Units
BY DEF Units, UnitTypes

(* A step that moves no unit.                                              *)
UnitsSame == UNCHANGED <<buffFree, buffUsed, InUse, Extra>> /\ (isHalted => isHalted')

LEMMA UnitsFrame ==
  ASSUME IInv, [Next]_vars, UnitsConserved, UnitsSame
  PROVE  UnitsConserved'
<1>1. UnitTypes /\ UnitTypes'
  BY UnitsAreNumbers
<1>2. Cardinality(InUse') = Cardinality(InUse) + 0
  BY <1>1 DEF UnitsSame, UnitTypes
<1>3. buffFree' = buffFree - 0 /\ buffUsed' = buffUsed
  BY <1>1 DEF UnitsSame, UnitTypes
<1>4. Units' = Units
  BY <1>1, <1>2, <1>3, UnitMoves
<1> QED
  BY <1>4, UnitsKept DEF UnitsSame

\* A process takes a unit, or passes its unit on.
LEMMA TakeUnit ==
  ASSUME IInv, [Next]_vars, UnitsConserved,
         NEW p \in Processes, p \notin InUse, InUse' = InUse \cup {p},
         \/ buffFree' = buffFree - 1 /\ buffUsed' = buffUsed
         \/ buffFree' = buffFree /\ buffUsed' = buffUsed - 1,
         UNCHANGED <<isHalted, Extra>>
  PROVE  UnitsConserved'
<1>1. Cardinality(InUse') = Cardinality(InUse) + 1
  BY InUseFinite, FS_AddElement
<1>2. Units' = Units
  BY <1>1, UnitsAreNumbers, UnitMoves
<1> QED
  BY <1>2, UnitsKept

LEMMA PassUnit ==
  ASSUME IInv, [Next]_vars, UnitsConserved,
         NEW p \in Processes, p \in InUse, InUse' = InUse \ {p},
         \/ buffFree' = buffFree + 1 /\ buffUsed' = buffUsed
         \/ buffFree' = buffFree /\ buffUsed' = buffUsed + 1,
         UNCHANGED <<isHalted, Extra>>
  PROVE  UnitsConserved'
<1>1. Cardinality(InUse') = Cardinality(InUse) + (-1)
  BY InUseFinite, FS_RemoveElement
<1>2. UnitTypes /\ UnitTypes'
  BY UnitsAreNumbers
<1>3. \/ buffFree' = buffFree - (-1) /\ buffUsed' = buffUsed
      \/ buffFree' = buffFree /\ buffUsed' = buffUsed - (-1)
  BY <1>2 DEF UnitTypes
<1>4. Units' = Units
  BY <1>1, <1>2, <1>3, UnitMoves
<1> QED
  BY <1>4, UnitsKept

\* A halted producer drops its unit: sync.c:489-491.
LEMMA DropUnit ==
  ASSUME IInv, UnitsConserved, NEW p \in Producers, TestHalted(p), isHalted
  PROVE  UnitsConserved'
<1> USE DEF IInv, TypeOK, At, Goto, Clients, Processes, bufferVars, bufferSems, finalVars
<1>1. /\ pc[p] = "test_halted" /\ pc' = [pc EXCEPT ![p] = "test_loop"]
      /\ UNCHANGED <<isHalted, buffFree, buffUsed, prodCtr>>
  BY DEF TestHalted
<1>2. InUse' = InUse \ {p} /\ p \in InUse
  BY <1>1 DEF InUse, PutPcs, GetPcs, AccessPcs
<1>3. Leaving' = Leaving \cup {p} /\ p \notin Leaving
  BY <1>1 DEF Leaving, LeavePcs
<1>4. UNCHANGED Extra
  BY <1>1 DEF Extra
<1>5. Cardinality(InUse') = Cardinality(InUse) - 1
  BY <1>2, InUseFinite, FS_RemoveElement
<1>6. Cardinality(Leaving') = Cardinality(Leaving) + 1
  BY <1>3, LeavingFinite, FS_AddElement
<1> QED
  BY <1>1, <1>4, <1>5, <1>6, LeavingFinite, InUseFinite DEF UnitsConserved, Units, Extra

LEMMA StepUnits == IInv /\ WakeInv /\ UnitsConserved /\ [Next]_vars => UnitsConserved'
<1> SUFFICES ASSUME IInv, WakeInv, UnitsConserved, [Next]_vars PROVE UnitsConserved'
  OBVIOUS
<1> USE DEF IInv, TypeOK, WakeInv, FinalizeInv, Clients, Writers, Processes, At, Goto,
            bufferSems, finalVars, localVars
<1>1. ASSUME NEW p \in Clients, Connect(p) PROVE UnitsConserved'
  <2>1. UnitsSame
    BY <1>1 DEF Connect, UnitsSame, InUse, Extra, PutPcs, GetPcs, AccessPcs, FinalPcs
  <2> QED
    BY <2>1, UnitsFrame
<1>2. ASSUME NEW p \in Clients, Register(p) PROVE UnitsConserved'
  <2>1. UnitsSame
    BY <1>2 DEF Register, UnitsSame, InUse, Extra, PutPcs, GetPcs, AccessPcs, FinalPcs
  <2> QED
    BY <2>1, UnitsFrame
<1>3. ASSUME NEW p \in Writers, WaitFree(p) PROVE UnitsConserved'
  <2>1. p \in Processes
    OBVIOUS
  <2>2. /\ p \notin InUse /\ InUse' = InUse \cup {p}
        /\ buffFree' = buffFree - 1 /\ buffUsed' = buffUsed
    BY <1>3 DEF WaitFree, InUse, PutPcs, GetPcs, AccessPcs, FinalPcs
  <2>3. UNCHANGED <<isHalted, Extra>>
    BY <1>3 DEF WaitFree, Extra, counters, bufferVars, zeroSems
  <2> QED
    BY <1>3, <2>1, <2>2, <2>3, TakeUnit
<1>4. ASSUME NEW p \in Writers, TestHalted(p) PROVE UnitsConserved'
  <2>1. CASE p \in Producers /\ isHalted
    BY <1>4, <2>1, DropUnit
  <2>2. CASE ~(p \in Producers /\ isHalted)
    <3>1. UnitsSame
      BY <1>4, <2>2 DEF TestHalted, UnitsSame, InUse, Extra, PutPcs, GetPcs, AccessPcs
    <3> QED
      BY <3>1, UnitsFrame
  <2> QED
    BY <2>1, <2>2
<1>5. ASSUME NEW p \in Writers, TestFull(p) PROVE UnitsConserved'
  <2>1. UnitsSame
    BY <1>5 DEF TestFull, UnitsSame, InUse, Extra, PutPcs, GetPcs, AccessPcs, FinalPcs
  <2> QED
    BY <2>1, UnitsFrame
<1>6. ASSUME NEW p \in Writers, StoreSlot(p) PROVE UnitsConserved'
  <2>1. UnitsSame
    BY <1>6 DEF StoreSlot, UnitsSame, InUse, Extra, PutPcs, GetPcs, AccessPcs, FinalPcs
  <2> QED
    BY <2>1, UnitsFrame
<1>7. ASSUME NEW p \in Writers, PostUsed(p) PROVE UnitsConserved'
  <2>1. p \in Processes
    OBVIOUS
  <2>2. /\ p \in InUse /\ InUse' = InUse \ {p}
        /\ buffFree' = buffFree /\ buffUsed' = buffUsed + 1
    BY <1>7 DEF PostUsed, InUse, PutPcs, GetPcs, AccessPcs, FinalPcs
  <2>3. UNCHANGED <<isHalted, Extra>>
    BY <1>7 DEF PostUsed, Extra, counters, bufferVars, zeroSems
  <2> QED
    BY <1>7, <2>1, <2>2, <2>3, PassUnit
<1>8. ASSUME NEW p \in Producers, TestLoop(p) PROVE UnitsConserved'
  <2>1. UnitsSame
    BY <1>8 DEF TestLoop, UnitsSame, InUse, Extra, PutPcs, GetPcs, AccessPcs, FinalPcs
  <2> QED
    BY <2>1, UnitsFrame
<1>9. ASSUME NEW p \in Consumers, WaitUsed(p) PROVE UnitsConserved'
  <2>1. p \in Processes
    OBVIOUS
  <2>2. /\ p \notin InUse /\ InUse' = InUse \cup {p}
        /\ buffFree' = buffFree /\ buffUsed' = buffUsed - 1
    BY <1>9 DEF WaitUsed, InUse, PutPcs, GetPcs, AccessPcs, FinalPcs
  <2>3. UNCHANGED <<isHalted, Extra>>
    BY <1>9 DEF WaitUsed, Extra, counters, bufferVars, zeroSems
  <2> QED
    BY <1>9, <2>1, <2>2, <2>3, TakeUnit
<1>10. ASSUME NEW p \in Consumers, WaitMutex(p) PROVE UnitsConserved'
  <2>1. UnitsSame
    BY <1>10 DEF WaitMutex, UnitsSame, InUse, Extra, PutPcs, GetPcs, AccessPcs, FinalPcs
  <2> QED
    BY <2>1, UnitsFrame
<1>11. ASSUME NEW p \in Consumers, TestEmpty(p) PROVE UnitsConserved'
  <2>1. UnitsSame
    BY <1>11 DEF TestEmpty, UnitsSame, InUse, Extra, PutPcs, GetPcs, AccessPcs, FinalPcs
  <2> QED
    BY <2>1, UnitsFrame
<1>12. ASSUME NEW p \in Consumers, LoadSlot(p) PROVE UnitsConserved'
  <2>1. UnitsSame
    BY <1>12 DEF LoadSlot, UnitsSame, InUse, Extra, PutPcs, GetPcs, AccessPcs, FinalPcs
  <2> QED
    BY <2>1, UnitsFrame
<1>13. ASSUME NEW p \in Consumers, PostFree(p) PROVE UnitsConserved'
  <2>1. p \in Processes
    OBVIOUS
  <2>2. /\ p \in InUse /\ InUse' = InUse \ {p}
        /\ buffFree' = buffFree + 1 /\ buffUsed' = buffUsed
    BY <1>13 DEF PostFree, InUse, PutPcs, GetPcs, AccessPcs, FinalPcs
  <2>3. UNCHANGED <<isHalted, Extra>>
    BY <1>13 DEF PostFree, Extra, counters, bufferVars, zeroSems
  <2> QED
    BY <1>13, <2>1, <2>2, <2>3, PassUnit
<1>14. ASSUME NEW p \in Consumers, TestMsg(p) PROVE UnitsConserved'
  <2>1. UnitsSame
    BY <1>14 DEF TestMsg, UnitsSame, InUse, Extra, PutPcs, GetPcs, AccessPcs, FinalPcs
  <2> QED
    BY <2>1, UnitsFrame
<1>15. ASSUME NEW p \in Processes, LoadIndex(p) PROVE UnitsConserved'
  <2>1. UnitsSame
    BY <1>15 DEF LoadIndex, UnitsSame, InUse, Extra, PutPcs, GetPcs, AccessPcs, FinalPcs
  <2> QED
    BY <2>1, UnitsFrame
<1>16. ASSUME NEW p \in Processes, StoreIndex(p) PROVE UnitsConserved'
  <2>1. UnitsSame
    BY <1>16 DEF StoreIndex, UnitsSame, InUse, Extra, PutPcs, GetPcs, AccessPcs, FinalPcs
  <2> QED
    BY <2>1, UnitsFrame
<1>17. ASSUME NEW p \in Processes, LoadCount(p) PROVE UnitsConserved'
  <2>1. UnitsSame
    BY <1>17 DEF LoadCount, UnitsSame, InUse, Extra, PutPcs, GetPcs, AccessPcs, FinalPcs
  <2> QED
    BY <2>1, UnitsFrame
<1>18. ASSUME NEW p \in Processes, StoreCount(p) PROVE UnitsConserved'
  <2>1. UnitsSame
    BY <1>18 DEF StoreCount, UnitsSame, InUse, Extra, PutPcs, GetPcs, AccessPcs, FinalPcs
  <2> QED
    BY <2>1, UnitsFrame
<1>19. ASSUME NEW p \in Processes, Deliver(p) PROVE UnitsConserved'
  <2>1. UnitsSame
    BY <1>19 DEF Deliver, UnitsSame, InUse, Extra, PutPcs, GetPcs, AccessPcs, FinalPcs
  <2> QED
    BY <2>1, UnitsFrame
<1>20. ASSUME NEW p \in Processes, SendInVain(p) PROVE UnitsConserved'
  <2>1. UnitsSame
    BY <1>20 DEF SendInVain, UnitsSame, InUse, Extra, PutPcs, GetPcs, AccessPcs, FinalPcs
  <2> QED
    BY <2>1, UnitsFrame
<1>21. ASSUME NEW p \in Clients, Unregister(p) PROVE UnitsConserved'
  <2>1. UnitsSame
    BY <1>21 DEF Unregister, UnitsSame, InUse, Extra, PutPcs, GetPcs, AccessPcs, FinalPcs
  <2> QED
    BY <2>1, UnitsFrame
<1>22. ASSUME NEW p \in Clients, LeaveHalted(p) PROVE UnitsConserved'
  <2>1. UnitsSame
    BY <1>22 DEF LeaveHalted, UnitsSame, InUse, Extra, PutPcs, GetPcs, AccessPcs, FinalPcs
  <2> QED
    BY <2>1, UnitsFrame
<1>23. ASSUME NEW p \in Clients, LeaveCounter(p) PROVE UnitsConserved'
  <2>1. UnitsSame
    BY <1>23 DEF LeaveCounter, UnitsSame, InUse, Extra, PutPcs, GetPcs, AccessPcs, FinalPcs
  <2> QED
    BY <2>1, UnitsFrame
<1>24. ASSUME NEW p \in Clients, LeavePost(p) PROVE UnitsConserved'
  <2>1. UnitsSame
    BY <1>24 DEF LeavePost, UnitsSame, InUse, Extra, PutPcs, GetPcs, AccessPcs, FinalPcs
  <2> QED
    BY <2>1, UnitsFrame
<1>25. CASE RaiseHalt
  <2>1. UnitsSame
    BY <1>25 DEF RaiseHalt, UnitsSame, InUse, Extra, PutPcs, GetPcs, AccessPcs, FinalPcs
  <2> QED
    BY <2>1, UnitsFrame
<1>26. CASE ReadProducers
  <2>1. UnitsSame
    BY <1>26 DEF ReadProducers, UnitsSame, InUse, Extra, PutPcs, GetPcs, AccessPcs, FinalPcs
  <2> QED
    BY <2>1, UnitsFrame
<1>27. CASE PostFrees
  <2>1. /\ pc[Finalizer] = "post_frees" /\ pc' = [pc EXCEPT ![Finalizer] = "wait_producers"]
        /\ buffFree' = buffFree + prodCtr /\ UNCHANGED <<buffUsed, isHalted, prodCtr>>
    BY <1>27 DEF PostFrees
  <2>2. InUse' = InUse
    BY <2>1 DEF InUse, PutPcs, GetPcs, AccessPcs
  <2>3. Extra = 0 /\ Extra' = prodCtr
    BY <2>1 DEF Extra
  <2> QED
    BY <2>1, <2>2, <2>3, LeavingGrows, LeavingFinite, InUseFinite
       DEF UnitsConserved, Units
<1>28. CASE WaitProducers
  <2>1. UnitsSame
    BY <1>28 DEF WaitProducers, UnitsSame, InUse, Extra, PutPcs, GetPcs, AccessPcs, FinalPcs
  <2> QED
    BY <2>1, UnitsFrame
<1>29. CASE ReadConsumers
  <2>1. UnitsSame
    BY <1>29 DEF ReadConsumers, UnitsSame, InUse, Extra, PutPcs, GetPcs, AccessPcs, FinalPcs
  <2> QED
    BY <2>1, UnitsFrame
<1>30. CASE WaitConsumers
  <2>1. UnitsSame
    BY <1>30 DEF WaitConsumers, UnitsSame, InUse, Extra, PutPcs, GetPcs, AccessPcs, FinalPcs
  <2> QED
    BY <2>1, UnitsFrame
<1>31. CASE DeliverLast
  <2>1. UnitsSame
    BY <1>31 DEF DeliverLast, UnitsSame, InUse, Extra, PutPcs, GetPcs, AccessPcs, FinalPcs
  <2> QED
    BY <2>1, UnitsFrame
<1>32. CASE AckLast
  <2>1. UnitsSame
    BY <1>32 DEF AckLast, UnitsSame, InUse, Extra, PutPcs, GetPcs, AccessPcs, FinalPcs
  <2> QED
    BY <2>1, UnitsFrame
<1>33. CASE UNCHANGED vars
  <2>1. UnitsSame
    BY <1>33 DEF vars, UnitsSame, InUse, Extra, PutPcs, GetPcs, AccessPcs, FinalPcs
  <2> QED
    BY <2>1, UnitsFrame
<1> QED
  BY <1>1, <1>2, <1>3, <1>4, <1>5, <1>6, <1>7, <1>8, <1>9, <1>10, <1>11,
     <1>12, <1>13, <1>14, <1>15, <1>16, <1>17, <1>18, <1>19, <1>20, <1>21,
     <1>22, <1>23, <1>24, <1>25, <1>26, <1>27, <1>28, <1>29, <1>30, <1>31,
     <1>32, <1>33
     DEF Next, Producer, Consumer, Finalize, Write, Read, Access, Leave

LEMMA InitUnits == Init => UnitsConserved
<1> SUFFICES ASSUME Init PROVE UnitsConserved
  OBVIOUS
<1>1. InUse = {}
  BY DEF Init, InUse, Processes, Clients, PutPcs, GetPcs, AccessPcs
<1>2. Cardinality(InUse) = 0
  BY <1>1, FS_EmptySet
<1>3. buffFree = Size /\ buffUsed = 0 /\ Extra = 0
  BY DEF Init, Extra
<1> QED
  BY <1>2, <1>3, LeavingFinite DEF UnitsConserved, Units

(* Every unit of buff_free and buff_used is accounted for in any           *)
(* interleaving, although the buffer itself is not protected.              *)
THEOREM UnitsAreConserved == Spec => []UnitsConserved
<1>1. IInv /\ WakeInv /\ UnitsConserved /\ [Next]_vars => UnitsConserved'
  BY StepUnits
<1> QED
  BY InitUnits, <1>1, InductiveInvariant, WakeInvariant, PTL DEF Spec

-----------------------------------------------------------------------------
(* The shutdown, when no process is starting while the halt is raised.     *)

Waiting == {p \in Producers : pc[p] = "wait_free"}

\* Nobody registers any more.  Who posts, or has posted, has seen the counter
\* at zero, where it stays.
LeaveInv ==
  /\ isHalted => \A p \in Clients : pc[p] # "register"
  /\ \A p \in Clients : pc[p] \in {"leave_counter", "leave_post"} => isHalted
  /\ \A p \in Producers : pc[p] = "leave_post" => nProd = 0
  /\ \A p \in Consumers : pc[p] = "leave_post" => nCons = 0
  /\ zeroProducers > 0 => isHalted /\ nProd = 0
  /\ zeroConsumers > 0 => isHalted /\ nCons = 0

\* The producers that wait are among those that finalize counted, and posts for.
WaitingInv ==
  /\ pc[Finalizer] = "post_frees" => Cardinality(Waiting) <= prodCtr
  /\ EveryProducerCanWake

CreatorInv == creator # "running" => pc[Finalizer] \in {"wait_ack", "done"}

StopInv == LeaveInv /\ WaitingInv /\ CreatorInv /\ StopsInOrder

\* Once the last event is on its way nobody is left to send another.
LEMMA QuietFacts ==
  ASSUME IInv, CreatorInv, StopsInOrder
  PROVE  QuietAfterLast
<1> SUFFICES ASSUME creator # "running" PROVE InUse = {}
  BY DEF QuietAfterLast
<1>1. pc[Finalizer] \in {"wait_ack", "done"}
  BY DEF CreatorInv
<1>2. nProd = 0 /\ nCons = 0
  BY <1>1 DEF StopsInOrder, BeforeConsumers
<1>3. Alive(Producers) = {} /\ Alive(Consumers) = {}
  BY <1>2, AliveFinite, FS_EmptySet DEF IInv, CountersExact
<1>4. \A p \in Clients : pc[p] \notin PutPcs \cup GetPcs \cup AccessPcs
  BY <1>3 DEF Alive, Clients, PutPcs, GetPcs, AccessPcs, EnterPcs, LeavePcs
<1> QED
  BY <1>1, <1>4 DEF InUse, Processes, PutPcs, GetPcs, AccessPcs

\* After the halt the counters only go down.
LEMMA HaltedStep ==
  ASSUME IInv, LeaveInv, FinalizeInv, isHalted, [Next]_vars
  PROVE  /\ isHalted' /\ nProd' <= nProd /\ nCons' <= nCons
         /\ nProd' \in Nat /\ nCons' \in Nat
<1>0. /\ nProd \in Nat /\ nCons \in Nat /\ nProd' \in Nat /\ nCons' \in Nat
      /\ pc[Finalizer] # "raise_halt"
  BY StepTypeOK DEF IInv, TypeOK, FinalizeInv
<1> DEFINE Goal == isHalted' /\ nProd' <= nProd /\ nCons' <= nCons
<1> USE DEF At, counters, Clients, Writers, Processes
<1>1. ASSUME NEW p \in Clients, Connect(p) PROVE Goal
  BY <1>0, <1>1 DEF Connect
<1>2. ASSUME NEW p \in Clients, Register(p) PROVE Goal
  BY <1>0, <1>2 DEF Register, LeaveInv
<1>3. ASSUME NEW p \in Writers, WaitFree(p) PROVE Goal
  BY <1>0, <1>3 DEF WaitFree
<1>4. ASSUME NEW p \in Writers, TestHalted(p) PROVE Goal
  BY <1>0, <1>4 DEF TestHalted
<1>5. ASSUME NEW p \in Writers, TestFull(p) PROVE Goal
  BY <1>0, <1>5 DEF TestFull
<1>6. ASSUME NEW p \in Writers, StoreSlot(p) PROVE Goal
  BY <1>0, <1>6 DEF StoreSlot
<1>7. ASSUME NEW p \in Writers, PostUsed(p) PROVE Goal
  BY <1>0, <1>7 DEF PostUsed
<1>8. ASSUME NEW p \in Producers, TestLoop(p) PROVE Goal
  BY <1>0, <1>8 DEF TestLoop
<1>9. ASSUME NEW p \in Consumers, WaitUsed(p) PROVE Goal
  BY <1>0, <1>9 DEF WaitUsed
<1>10. ASSUME NEW p \in Consumers, WaitMutex(p) PROVE Goal
  BY <1>0, <1>10 DEF WaitMutex
<1>11. ASSUME NEW p \in Consumers, TestEmpty(p) PROVE Goal
  BY <1>0, <1>11 DEF TestEmpty
<1>12. ASSUME NEW p \in Consumers, LoadSlot(p) PROVE Goal
  BY <1>0, <1>12 DEF LoadSlot
<1>13. ASSUME NEW p \in Consumers, PostFree(p) PROVE Goal
  BY <1>0, <1>13 DEF PostFree
<1>14. ASSUME NEW p \in Consumers, TestMsg(p) PROVE Goal
  BY <1>0, <1>14 DEF TestMsg
<1>15. ASSUME NEW p \in Processes, LoadIndex(p) PROVE Goal
  BY <1>0, <1>15 DEF LoadIndex
<1>16. ASSUME NEW p \in Processes, StoreIndex(p) PROVE Goal
  BY <1>0, <1>16 DEF StoreIndex
<1>17. ASSUME NEW p \in Processes, LoadCount(p) PROVE Goal
  BY <1>0, <1>17 DEF LoadCount
<1>18. ASSUME NEW p \in Processes, StoreCount(p) PROVE Goal
  BY <1>0, <1>18 DEF StoreCount
<1>19. ASSUME NEW p \in Processes, Deliver(p) PROVE Goal
  BY <1>0, <1>19 DEF Deliver
<1>20. ASSUME NEW p \in Processes, SendInVain(p) PROVE Goal
  BY <1>0, <1>20 DEF SendInVain
<1>21. ASSUME NEW p \in Clients, Unregister(p) PROVE Goal
  BY <1>0, <1>21 DEF Unregister
<1>22. ASSUME NEW p \in Clients, LeaveHalted(p) PROVE Goal
  BY <1>0, <1>22 DEF LeaveHalted
<1>23. ASSUME NEW p \in Clients, LeaveCounter(p) PROVE Goal
  BY <1>0, <1>23 DEF LeaveCounter
<1>24. ASSUME NEW p \in Clients, LeavePost(p) PROVE Goal
  BY <1>0, <1>24 DEF LeavePost
<1>25. CASE RaiseHalt
  BY <1>25, <1>0 DEF RaiseHalt
<1>26. CASE ReadProducers
  BY <1>0, <1>26 DEF ReadProducers
<1>27. CASE PostFrees
  BY <1>0, <1>27 DEF PostFrees
<1>28. CASE WaitProducers
  BY <1>0, <1>28 DEF WaitProducers
<1>29. CASE ReadConsumers
  BY <1>0, <1>29 DEF ReadConsumers
<1>30. CASE WaitConsumers
  BY <1>0, <1>30 DEF WaitConsumers
<1>31. CASE DeliverLast
  BY <1>0, <1>31 DEF DeliverLast
<1>32. CASE AckLast
  BY <1>0, <1>32 DEF AckLast
<1>33. CASE UNCHANGED vars
  BY <1>0, <1>33 DEF vars
<1> QED
  BY <1>0, <1>1, <1>2, <1>3, <1>4, <1>5, <1>6, <1>7, <1>8, <1>9, <1>10, <1>11,
     <1>12, <1>13, <1>14, <1>15, <1>16, <1>17, <1>18, <1>19, <1>20, <1>21,
     <1>22, <1>23, <1>24, <1>25, <1>26, <1>27, <1>28, <1>29, <1>30, <1>31,
     <1>32, <1>33
     DEF Next, Producer, Consumer, Finalize, Write, Read, Access, Leave

LEMMA StepLeaveInv ==
  ASSUME ~StartsOverlapHalt, IInv, LeaveInv, FinalizeInv, [Next]_vars
  PROVE  LeaveInv'
<1>0. /\ nProd \in Nat /\ nCons \in Nat /\ nProd' \in Nat /\ nCons' \in Nat
      /\ zeroProducers \in Nat /\ zeroConsumers \in Nat
      /\ isHalted => isHalted' /\ nProd' <= nProd /\ nCons' <= nCons
      /\ pc \in [Processes -> ProducerPcs \cup ConsumerPcs \cup FinalizerPcs]
  BY HaltedStep, StepTypeOK DEF IInv, TypeOK
<1> USE <1>0 DEF LeaveInv, Clients, Writers, Processes, At, Goto, zeroSems, counters
<1>1. ASSUME NEW p \in Clients, Connect(p) PROVE LeaveInv'
  BY <1>1 DEF Connect
<1>2. ASSUME NEW p \in Clients, Register(p) PROVE LeaveInv'
  BY <1>2 DEF Register
<1>3. ASSUME NEW p \in Writers, WaitFree(p) PROVE LeaveInv'
  BY <1>3 DEF WaitFree
<1>4. ASSUME NEW p \in Writers, TestHalted(p) PROVE LeaveInv'
  BY <1>4 DEF TestHalted
<1>5. ASSUME NEW p \in Writers, TestFull(p) PROVE LeaveInv'
  BY <1>5 DEF TestFull
<1>6. ASSUME NEW p \in Writers, StoreSlot(p) PROVE LeaveInv'
  BY <1>6 DEF StoreSlot
<1>7. ASSUME NEW p \in Writers, PostUsed(p) PROVE LeaveInv'
  BY <1>7 DEF PostUsed
<1>8. ASSUME NEW p \in Producers, TestLoop(p) PROVE LeaveInv'
  BY <1>8 DEF TestLoop
<1>9. ASSUME NEW p \in Consumers, WaitUsed(p) PROVE LeaveInv'
  BY <1>9 DEF WaitUsed
<1>10. ASSUME NEW p \in Consumers, WaitMutex(p) PROVE LeaveInv'
  BY <1>10 DEF WaitMutex
<1>11. ASSUME NEW p \in Consumers, TestEmpty(p) PROVE LeaveInv'
  BY <1>11 DEF TestEmpty
<1>12. ASSUME NEW p \in Consumers, LoadSlot(p) PROVE LeaveInv'
  BY <1>12 DEF LoadSlot
<1>13. ASSUME NEW p \in Consumers, PostFree(p) PROVE LeaveInv'
  BY <1>13 DEF PostFree
<1>14. ASSUME NEW p \in Consumers, TestMsg(p) PROVE LeaveInv'
  BY <1>14 DEF TestMsg
<1>15. ASSUME NEW p \in Processes, LoadIndex(p) PROVE LeaveInv'
  BY <1>15 DEF LoadIndex
<1>16. ASSUME NEW p \in Processes, StoreIndex(p) PROVE LeaveInv'
  BY <1>16 DEF StoreIndex
<1>17. ASSUME NEW p \in Processes, LoadCount(p) PROVE LeaveInv'
  BY <1>17 DEF LoadCount
<1>18. ASSUME NEW p \in Processes, StoreCount(p) PROVE LeaveInv'
  BY <1>18 DEF StoreCount
<1>19. ASSUME NEW p \in Processes, Deliver(p) PROVE LeaveInv'
  BY <1>19 DEF Deliver
<1>20. ASSUME NEW p \in Processes, SendInVain(p) PROVE LeaveInv'
  BY <1>20 DEF SendInVain
<1>21. ASSUME NEW p \in Clients, Unregister(p) PROVE LeaveInv'
  BY <1>21 DEF Unregister
<1>22. ASSUME NEW p \in Clients, LeaveHalted(p) PROVE LeaveInv'
  BY <1>22 DEF LeaveHalted
<1>23. ASSUME NEW p \in Clients, LeaveCounter(p) PROVE LeaveInv'
  BY <1>23 DEF LeaveCounter
<1>24. ASSUME NEW p \in Clients, LeavePost(p) PROVE LeaveInv'
  BY <1>24 DEF LeavePost
<1>25. CASE RaiseHalt
  BY <1>25 DEF RaiseHalt
<1>26. CASE ReadProducers
  BY <1>26 DEF ReadProducers
<1>27. CASE PostFrees
  BY <1>27 DEF PostFrees
<1>28. CASE WaitProducers
  BY <1>28 DEF WaitProducers
<1>29. CASE ReadConsumers
  BY <1>29 DEF ReadConsumers
<1>30. CASE WaitConsumers
  BY <1>30 DEF WaitConsumers
<1>31. CASE DeliverLast
  BY <1>31 DEF DeliverLast
<1>32. CASE AckLast
  BY <1>32 DEF AckLast
<1>33. CASE UNCHANGED vars
  BY <1>33 DEF vars
<1> QED
  BY <1>1, <1>2, <1>3, <1>4, <1>5, <1>6, <1>7, <1>8, <1>9, <1>10, <1>11,
     <1>12, <1>13, <1>14, <1>15, <1>16, <1>17, <1>18, <1>19, <1>20, <1>21,
     <1>22, <1>23, <1>24, <1>25, <1>26, <1>27, <1>28, <1>29, <1>30, <1>31,
     <1>32, <1>33
     DEF Next, Producer, Consumer, Finalize, Write, Read, Access, Leave

LEMMA StepCreatorInv ==
  ASSUME IInv, CreatorInv, StopsInOrder, [Next]_vars
  PROVE  CreatorInv'
<1>0. pc \in [Processes -> ProducerPcs \cup ConsumerPcs \cup FinalizerPcs]
  BY DEF IInv, TypeOK
<1> USE <1>0, QuietFacts
    DEF CreatorInv, QuietAfterLast, Clients, Writers, Processes, At, Goto
<1>1. ASSUME NEW p \in Clients, Connect(p) PROVE CreatorInv'
  BY <1>1 DEF Connect
<1>2. ASSUME NEW p \in Clients, Register(p) PROVE CreatorInv'
  BY <1>2 DEF Register
<1>3. ASSUME NEW p \in Writers, WaitFree(p) PROVE CreatorInv'
  BY <1>3 DEF WaitFree
<1>4. ASSUME NEW p \in Writers, TestHalted(p) PROVE CreatorInv'
  BY <1>4 DEF TestHalted
<1>5. ASSUME NEW p \in Writers, TestFull(p) PROVE CreatorInv'
  BY <1>5 DEF TestFull
<1>6. ASSUME NEW p \in Writers, StoreSlot(p) PROVE CreatorInv'
  BY <1>6 DEF StoreSlot
<1>7. ASSUME NEW p \in Writers, PostUsed(p) PROVE CreatorInv'
  BY <1>7 DEF PostUsed
<1>8. ASSUME NEW p \in Producers, TestLoop(p) PROVE CreatorInv'
  BY <1>8 DEF TestLoop
<1>9. ASSUME NEW p \in Consumers, WaitUsed(p) PROVE CreatorInv'
  BY <1>9 DEF WaitUsed
<1>10. ASSUME NEW p \in Consumers, WaitMutex(p) PROVE CreatorInv'
  BY <1>10 DEF WaitMutex
<1>11. ASSUME NEW p \in Consumers, TestEmpty(p) PROVE CreatorInv'
  BY <1>11 DEF TestEmpty
<1>12. ASSUME NEW p \in Consumers, LoadSlot(p) PROVE CreatorInv'
  BY <1>12 DEF LoadSlot
<1>13. ASSUME NEW p \in Consumers, PostFree(p) PROVE CreatorInv'
  BY <1>13 DEF PostFree
<1>14. ASSUME NEW p \in Consumers, TestMsg(p) PROVE CreatorInv'
  BY <1>14 DEF TestMsg
<1>15. ASSUME NEW p \in Processes, LoadIndex(p) PROVE CreatorInv'
  BY <1>15 DEF LoadIndex
<1>16. ASSUME NEW p \in Processes, StoreIndex(p) PROVE CreatorInv'
  BY <1>16 DEF StoreIndex
<1>17. ASSUME NEW p \in Processes, LoadCount(p) PROVE CreatorInv'
  BY <1>17 DEF LoadCount
<1>18. ASSUME NEW p \in Processes, StoreCount(p) PROVE CreatorInv'
  BY <1>18 DEF StoreCount
<1>19. ASSUME NEW p \in Processes, Deliver(p) PROVE CreatorInv'
  BY <1>19 DEF Deliver
<1>20. ASSUME NEW p \in Processes, SendInVain(p) PROVE CreatorInv'
  BY <1>20 DEF SendInVain, InUse, AccessPcs
<1>21. ASSUME NEW p \in Clients, Unregister(p) PROVE CreatorInv'
  BY <1>21 DEF Unregister
<1>22. ASSUME NEW p \in Clients, LeaveHalted(p) PROVE CreatorInv'
  BY <1>22 DEF LeaveHalted
<1>23. ASSUME NEW p \in Clients, LeaveCounter(p) PROVE CreatorInv'
  BY <1>23 DEF LeaveCounter
<1>24. ASSUME NEW p \in Clients, LeavePost(p) PROVE CreatorInv'
  BY <1>24 DEF LeavePost
<1>25. CASE RaiseHalt
  BY <1>25 DEF RaiseHalt
<1>26. CASE ReadProducers
  BY <1>26 DEF ReadProducers
<1>27. CASE PostFrees
  BY <1>27 DEF PostFrees
<1>28. CASE WaitProducers
  BY <1>28 DEF WaitProducers
<1>29. CASE ReadConsumers
  BY <1>29 DEF ReadConsumers
<1>30. CASE WaitConsumers
  BY <1>30 DEF WaitConsumers
<1>31. CASE DeliverLast
  BY <1>31 DEF DeliverLast
<1>32. CASE AckLast
  BY <1>32 DEF AckLast
<1>33. CASE UNCHANGED vars
  BY <1>33 DEF vars
<1> QED
  BY <1>1, <1>2, <1>3, <1>4, <1>5, <1>6, <1>7, <1>8, <1>9, <1>10, <1>11,
     <1>12, <1>13, <1>14, <1>15, <1>16, <1>17, <1>18, <1>19, <1>20, <1>21,
     <1>22, <1>23, <1>24, <1>25, <1>26, <1>27, <1>28, <1>29, <1>30, <1>31,
     <1>32, <1>33
     DEF Next, Producer, Consumer, Finalize, Write, Read, Access, Leave

LEMMA StepStopsInOrder ==
  ASSUME IInv, LeaveInv, StopsInOrder, FinalizeInv, [Next]_vars
  PROVE  StopsInOrder'
<1>0. /\ nProd \in Nat /\ nCons \in Nat /\ nProd' \in Nat /\ nCons' \in Nat
      /\ isHalted => nProd' <= nProd /\ nCons' <= nCons
      /\ pc \in [Processes -> ProducerPcs \cup ConsumerPcs \cup FinalizerPcs]
      /\ pc[Finalizer] # "raise_halt" => isHalted
  BY HaltedStep, StepTypeOK DEF IInv, TypeOK, FinalizeInv
<1> USE <1>0
    DEF StopsInOrder, BeforeConsumers, Clients, Writers, Processes, At, Goto
<1>1. ASSUME NEW p \in Clients, Connect(p) PROVE StopsInOrder'
  BY <1>1 DEF Connect
<1>2. ASSUME NEW p \in Clients, Register(p) PROVE StopsInOrder'
  BY <1>2 DEF Register
<1>3. ASSUME NEW p \in Writers, WaitFree(p) PROVE StopsInOrder'
  BY <1>3 DEF WaitFree
<1>4. ASSUME NEW p \in Writers, TestHalted(p) PROVE StopsInOrder'
  BY <1>4 DEF TestHalted
<1>5. ASSUME NEW p \in Writers, TestFull(p) PROVE StopsInOrder'
  BY <1>5 DEF TestFull
<1>6. ASSUME NEW p \in Writers, StoreSlot(p) PROVE StopsInOrder'
  BY <1>6 DEF StoreSlot
<1>7. ASSUME NEW p \in Writers, PostUsed(p) PROVE StopsInOrder'
  BY <1>7 DEF PostUsed
<1>8. ASSUME NEW p \in Producers, TestLoop(p) PROVE StopsInOrder'
  BY <1>8 DEF TestLoop
<1>9. ASSUME NEW p \in Consumers, WaitUsed(p) PROVE StopsInOrder'
  BY <1>9 DEF WaitUsed
<1>10. ASSUME NEW p \in Consumers, WaitMutex(p) PROVE StopsInOrder'
  BY <1>10 DEF WaitMutex
<1>11. ASSUME NEW p \in Consumers, TestEmpty(p) PROVE StopsInOrder'
  BY <1>11 DEF TestEmpty
<1>12. ASSUME NEW p \in Consumers, LoadSlot(p) PROVE StopsInOrder'
  BY <1>12 DEF LoadSlot
<1>13. ASSUME NEW p \in Consumers, PostFree(p) PROVE StopsInOrder'
  BY <1>13 DEF PostFree
<1>14. ASSUME NEW p \in Consumers, TestMsg(p) PROVE StopsInOrder'
  BY <1>14 DEF TestMsg
<1>15. ASSUME NEW p \in Processes, LoadIndex(p) PROVE StopsInOrder'
  BY <1>15 DEF LoadIndex
<1>16. ASSUME NEW p \in Processes, StoreIndex(p) PROVE StopsInOrder'
  BY <1>16 DEF StoreIndex
<1>17. ASSUME NEW p \in Processes, LoadCount(p) PROVE StopsInOrder'
  BY <1>17 DEF LoadCount
<1>18. ASSUME NEW p \in Processes, StoreCount(p) PROVE StopsInOrder'
  BY <1>18 DEF StoreCount
<1>19. ASSUME NEW p \in Processes, Deliver(p) PROVE StopsInOrder'
  BY <1>19 DEF Deliver
<1>20. ASSUME NEW p \in Processes, SendInVain(p) PROVE StopsInOrder'
  BY <1>20 DEF SendInVain
<1>21. ASSUME NEW p \in Clients, Unregister(p) PROVE StopsInOrder'
  BY <1>21 DEF Unregister
<1>22. ASSUME NEW p \in Clients, LeaveHalted(p) PROVE StopsInOrder'
  BY <1>22 DEF LeaveHalted
<1>23. ASSUME NEW p \in Clients, LeaveCounter(p) PROVE StopsInOrder'
  BY <1>23 DEF LeaveCounter
<1>24. ASSUME NEW p \in Clients, LeavePost(p) PROVE StopsInOrder'
  BY <1>24 DEF LeavePost
<1>25. CASE RaiseHalt
  BY <1>25 DEF RaiseHalt
<1>26. CASE ReadProducers
  BY <1>26 DEF ReadProducers
<1>27. CASE PostFrees
  BY <1>27 DEF PostFrees
<1>28. CASE WaitProducers
  BY <1>28 DEF WaitProducers, LeaveInv
<1>29. CASE ReadConsumers
  BY <1>29 DEF ReadConsumers
<1>30. CASE WaitConsumers
  BY <1>30 DEF WaitConsumers, LeaveInv
<1>31. CASE DeliverLast
  BY <1>31 DEF DeliverLast
<1>32. CASE AckLast
  BY <1>32 DEF AckLast
<1>33. CASE UNCHANGED vars
  BY <1>33 DEF vars
<1> QED
  BY <1>1, <1>2, <1>3, <1>4, <1>5, <1>6, <1>7, <1>8, <1>9, <1>10, <1>11,
     <1>12, <1>13, <1>14, <1>15, <1>16, <1>17, <1>18, <1>19, <1>20, <1>21,
     <1>22, <1>23, <1>24, <1>25, <1>26, <1>27, <1>28, <1>29, <1>30, <1>31,
     <1>32, <1>33
     DEF Next, Producer, Consumer, Finalize, Write, Read, Access, Leave

LEMMA WaitingFacts ==
  ASSUME IInv
  PROVE  /\ IsFiniteSet(Waiting) /\ Cardinality(Waiting) \in Nat
         /\ Cardinality(Waiting) <= nProd
<1>1. Waiting \subseteq Alive(Producers)
  BY DEF Waiting, Alive, EnterPcs, LeavePcs
<1>2. IsFiniteSet(Alive(Producers)) /\ nProd = Cardinality(Alive(Producers))
  BY AliveFinite DEF IInv, CountersExact
<1> QED
  BY <1>1, <1>2, FS_Subset, FS_CardinalityType

\* As long as nobody waits that did not, the invariant can only be lost by who
\* takes units, or by finalize.
LEMMA WaitingFrame ==
  ASSUME IInv, IInv', WaitingInv, Waiting' \subseteq Waiting,
         buffFree' >= buffFree, prodCtr' = prodCtr,
         pc'[Finalizer] \in {"post_frees", "wait_producers"} => pc'[Finalizer] = pc[Finalizer]
  PROVE  WaitingInv'
<1>1. /\ Cardinality(Waiting') \in Nat /\ Cardinality(Waiting) \in Nat
      /\ Cardinality(Waiting') <= Cardinality(Waiting)
  BY WaitingFacts, FS_Subset, FS_CardinalityType
<1>2. buffFree \in Nat /\ buffFree' \in Nat /\ prodCtr \in Nat
  BY DEF IInv, TypeOK
<1> QED
  BY <1>1, <1>2 DEF WaitingInv, EveryProducerCanWake, Waiting

LEMMA StepWaitingInv ==
  ASSUME IInv, LeaveInv, WaitingInv, FinalizeInv, [Next]_vars
  PROVE  WaitingInv'
<1>0. /\ IInv' /\ buffFree \in Nat /\ prodCtr \in Nat
      /\ pc \in [Processes -> ProducerPcs \cup ConsumerPcs \cup FinalizerPcs]
      /\ isHalted \in BOOLEAN
      /\ pc[Finalizer] # "raise_halt" => isHalted
  BY StepTypeOK, StepCountersExact DEF IInv, TypeOK, FinalizeInv
<1> DEFINE Goal == WaitingInv'
<1> USE <1>0 DEF Clients, Writers, Processes, At, Goto, zeroSems, bufferSems, finalVars
<1>1. ASSUME NEW p \in Clients, Connect(p) PROVE Goal
  <2>1. /\ Waiting' \subseteq Waiting /\ buffFree' >= buffFree /\ prodCtr' = prodCtr
        /\ pc'[Finalizer] \in {"post_frees", "wait_producers"} =>
             pc'[Finalizer] = pc[Finalizer]
    BY <1>1 DEF Connect, Waiting
  <2> QED
    BY <2>1, WaitingFrame
<1>2. ASSUME NEW p \in Clients, Register(p) PROVE Goal
  <2>1. CASE isHalted
    <3>1. /\ Waiting' \subseteq Waiting /\ buffFree' >= buffFree /\ prodCtr' = prodCtr
          /\ pc'[Finalizer] = pc[Finalizer]
      BY <1>2, <2>1 DEF Register, Waiting, LeaveInv
    <3> QED
      BY <3>1, WaitingFrame
  <2>2. CASE ~isHalted
    BY <1>2, <2>2 DEF Register, WaitingInv, EveryProducerCanWake
  <2> QED
    BY <2>1, <2>2
<1>3. ASSUME NEW p \in Writers, WaitFree(p) PROVE Goal
  <2>1. CASE p \in Producers
    <3>1. /\ Waiting' = Waiting \ {p} /\ p \in Waiting /\ buffFree' = buffFree - 1
          /\ prodCtr' = prodCtr /\ pc'[Finalizer] = pc[Finalizer]
      BY <1>3, <2>1 DEF WaitFree, Waiting
    <3>2. /\ Cardinality(Waiting') = Cardinality(Waiting) - 1
          /\ Cardinality(Waiting) \in Nat
      BY <3>1, WaitingFacts, FS_RemoveElement
    <3> QED
      BY <3>1, <3>2 DEF WaitingInv, EveryProducerCanWake, Waiting
  <2>2. CASE p = Finalizer
    BY <1>3, <2>2 DEF WaitFree, WaitingInv, EveryProducerCanWake
  <2> QED
    BY <2>1, <2>2
<1>4. ASSUME NEW p \in Writers, TestHalted(p) PROVE Goal
  <2>1. /\ Waiting' \subseteq Waiting /\ buffFree' >= buffFree /\ prodCtr' = prodCtr
        /\ pc'[Finalizer] \in {"post_frees", "wait_producers"} =>
             pc'[Finalizer] = pc[Finalizer]
    BY <1>4 DEF TestHalted, Waiting
  <2> QED
    BY <2>1, WaitingFrame
<1>5. ASSUME NEW p \in Writers, TestFull(p) PROVE Goal
  <2>1. /\ Waiting' \subseteq Waiting /\ buffFree' >= buffFree /\ prodCtr' = prodCtr
        /\ pc'[Finalizer] \in {"post_frees", "wait_producers"} =>
             pc'[Finalizer] = pc[Finalizer]
    BY <1>5 DEF TestFull, Waiting
  <2> QED
    BY <2>1, WaitingFrame
<1>6. ASSUME NEW p \in Writers, StoreSlot(p) PROVE Goal
  <2>1. /\ Waiting' \subseteq Waiting /\ buffFree' >= buffFree /\ prodCtr' = prodCtr
        /\ pc'[Finalizer] \in {"post_frees", "wait_producers"} =>
             pc'[Finalizer] = pc[Finalizer]
    BY <1>6 DEF StoreSlot, Waiting
  <2> QED
    BY <2>1, WaitingFrame
<1>7. ASSUME NEW p \in Writers, PostUsed(p) PROVE Goal
  <2>1. /\ Waiting' \subseteq Waiting /\ buffFree' >= buffFree /\ prodCtr' = prodCtr
        /\ pc'[Finalizer] \in {"post_frees", "wait_producers"} =>
             pc'[Finalizer] = pc[Finalizer]
    BY <1>7 DEF PostUsed, Waiting
  <2> QED
    BY <2>1, WaitingFrame
<1>8. ASSUME NEW p \in Producers, TestLoop(p) PROVE Goal
  <2>1. CASE isHalted
    <3>1. /\ Waiting' \subseteq Waiting /\ buffFree' >= buffFree /\ prodCtr' = prodCtr
          /\ pc'[Finalizer] = pc[Finalizer]
      BY <1>8, <2>1 DEF TestLoop, Waiting, LeaveInv
    <3> QED
      BY <3>1, WaitingFrame
  <2>2. CASE ~isHalted
    BY <1>8, <2>2 DEF TestLoop, WaitingInv, EveryProducerCanWake
  <2> QED
    BY <2>1, <2>2
<1>9. ASSUME NEW p \in Consumers, WaitUsed(p) PROVE Goal
  <2>1. /\ Waiting' \subseteq Waiting /\ buffFree' >= buffFree /\ prodCtr' = prodCtr
        /\ pc'[Finalizer] \in {"post_frees", "wait_producers"} =>
             pc'[Finalizer] = pc[Finalizer]
    BY <1>9 DEF WaitUsed, Waiting
  <2> QED
    BY <2>1, WaitingFrame
<1>10. ASSUME NEW p \in Consumers, WaitMutex(p) PROVE Goal
  <2>1. /\ Waiting' \subseteq Waiting /\ buffFree' >= buffFree /\ prodCtr' = prodCtr
        /\ pc'[Finalizer] \in {"post_frees", "wait_producers"} =>
             pc'[Finalizer] = pc[Finalizer]
    BY <1>10 DEF WaitMutex, Waiting
  <2> QED
    BY <2>1, WaitingFrame
<1>11. ASSUME NEW p \in Consumers, TestEmpty(p) PROVE Goal
  <2>1. /\ Waiting' \subseteq Waiting /\ buffFree' >= buffFree /\ prodCtr' = prodCtr
        /\ pc'[Finalizer] \in {"post_frees", "wait_producers"} =>
             pc'[Finalizer] = pc[Finalizer]
    BY <1>11 DEF TestEmpty, Waiting
  <2> QED
    BY <2>1, WaitingFrame
<1>12. ASSUME NEW p \in Consumers, LoadSlot(p) PROVE Goal
  <2>1. /\ Waiting' \subseteq Waiting /\ buffFree' >= buffFree /\ prodCtr' = prodCtr
        /\ pc'[Finalizer] \in {"post_frees", "wait_producers"} =>
             pc'[Finalizer] = pc[Finalizer]
    BY <1>12 DEF LoadSlot, Waiting
  <2> QED
    BY <2>1, WaitingFrame
<1>13. ASSUME NEW p \in Consumers, PostFree(p) PROVE Goal
  <2>1. /\ Waiting' \subseteq Waiting /\ buffFree' >= buffFree /\ prodCtr' = prodCtr
        /\ pc'[Finalizer] \in {"post_frees", "wait_producers"} =>
             pc'[Finalizer] = pc[Finalizer]
    BY <1>13 DEF PostFree, Waiting
  <2> QED
    BY <2>1, WaitingFrame
<1>14. ASSUME NEW p \in Consumers, TestMsg(p) PROVE Goal
  <2>1. /\ Waiting' \subseteq Waiting /\ buffFree' >= buffFree /\ prodCtr' = prodCtr
        /\ pc'[Finalizer] \in {"post_frees", "wait_producers"} =>
             pc'[Finalizer] = pc[Finalizer]
    BY <1>14 DEF TestMsg, Waiting
  <2> QED
    BY <2>1, WaitingFrame
<1>15. ASSUME NEW p \in Processes, LoadIndex(p) PROVE Goal
  <2>1. /\ Waiting' \subseteq Waiting /\ buffFree' >= buffFree /\ prodCtr' = prodCtr
        /\ pc'[Finalizer] \in {"post_frees", "wait_producers"} =>
             pc'[Finalizer] = pc[Finalizer]
    BY <1>15 DEF LoadIndex, Waiting
  <2> QED
    BY <2>1, WaitingFrame
<1>16. ASSUME NEW p \in Processes, StoreIndex(p) PROVE Goal
  <2>1. /\ Waiting' \subseteq Waiting /\ buffFree' >= buffFree /\ prodCtr' = prodCtr
        /\ pc'[Finalizer] \in {"post_frees", "wait_producers"} =>
             pc'[Finalizer] = pc[Finalizer]
    BY <1>16 DEF StoreIndex, Waiting
  <2> QED
    BY <2>1, WaitingFrame
<1>17. ASSUME NEW p \in Processes, LoadCount(p) PROVE Goal
  <2>1. /\ Waiting' \subseteq Waiting /\ buffFree' >= buffFree /\ prodCtr' = prodCtr
        /\ pc'[Finalizer] \in {"post_frees", "wait_producers"} =>
             pc'[Finalizer] = pc[Finalizer]
    BY <1>17 DEF LoadCount, Waiting
  <2> QED
    BY <2>1, WaitingFrame
<1>18. ASSUME NEW p \in Processes, StoreCount(p) PROVE Goal
  <2>1. /\ Waiting' \subseteq Waiting /\ buffFree' >= buffFree /\ prodCtr' = prodCtr
        /\ pc'[Finalizer] \in {"post_frees", "wait_producers"} =>
             pc'[Finalizer] = pc[Finalizer]
    BY <1>18 DEF StoreCount, Waiting
  <2> QED
    BY <2>1, WaitingFrame
<1>19. ASSUME NEW p \in Processes, Deliver(p) PROVE Goal
  <2>1. /\ Waiting' \subseteq Waiting /\ buffFree' >= buffFree /\ prodCtr' = prodCtr
        /\ pc'[Finalizer] \in {"post_frees", "wait_producers"} =>
             pc'[Finalizer] = pc[Finalizer]
    BY <1>19 DEF Deliver, Waiting
  <2> QED
    BY <2>1, WaitingFrame
<1>20. ASSUME NEW p \in Processes, SendInVain(p) PROVE Goal
  <2>1. /\ Waiting' \subseteq Waiting /\ buffFree' >= buffFree /\ prodCtr' = prodCtr
        /\ pc'[Finalizer] \in {"post_frees", "wait_producers"} =>
             pc'[Finalizer] = pc[Finalizer]
    BY <1>20 DEF SendInVain, Waiting
  <2> QED
    BY <2>1, WaitingFrame
<1>21. ASSUME NEW p \in Clients, Unregister(p) PROVE Goal
  <2>1. /\ Waiting' \subseteq Waiting /\ buffFree' >= buffFree /\ prodCtr' = prodCtr
        /\ pc'[Finalizer] \in {"post_frees", "wait_producers"} =>
             pc'[Finalizer] = pc[Finalizer]
    BY <1>21 DEF Unregister, Waiting
  <2> QED
    BY <2>1, WaitingFrame
<1>22. ASSUME NEW p \in Clients, LeaveHalted(p) PROVE Goal
  <2>1. /\ Waiting' \subseteq Waiting /\ buffFree' >= buffFree /\ prodCtr' = prodCtr
        /\ pc'[Finalizer] \in {"post_frees", "wait_producers"} =>
             pc'[Finalizer] = pc[Finalizer]
    BY <1>22 DEF LeaveHalted, Waiting
  <2> QED
    BY <2>1, WaitingFrame
<1>23. ASSUME NEW p \in Clients, LeaveCounter(p) PROVE Goal
  <2>1. /\ Waiting' \subseteq Waiting /\ buffFree' >= buffFree /\ prodCtr' = prodCtr
        /\ pc'[Finalizer] \in {"post_frees", "wait_producers"} =>
             pc'[Finalizer] = pc[Finalizer]
    BY <1>23 DEF LeaveCounter, Waiting
  <2> QED
    BY <2>1, WaitingFrame
<1>24. ASSUME NEW p \in Clients, LeavePost(p) PROVE Goal
  <2>1. /\ Waiting' \subseteq Waiting /\ buffFree' >= buffFree /\ prodCtr' = prodCtr
        /\ pc'[Finalizer] \in {"post_frees", "wait_producers"} =>
             pc'[Finalizer] = pc[Finalizer]
    BY <1>24 DEF LeavePost, Waiting
  <2> QED
    BY <2>1, WaitingFrame
<1>25. CASE RaiseHalt
  BY <1>25 DEF RaiseHalt, WaitingInv, EveryProducerCanWake
<1>26. CASE ReadProducers
  <2>1. /\ Waiting' = Waiting /\ prodCtr' = nProd
        /\ pc'[Finalizer] \in {"post_frees", "read_consumers"}
    BY <1>26 DEF ReadProducers, Waiting
  <2> QED
    BY <2>1, WaitingFacts DEF WaitingInv, EveryProducerCanWake
<1>27. CASE PostFrees
  <2>1. /\ Waiting' = Waiting /\ buffFree' = buffFree + prodCtr
        /\ pc[Finalizer] = "post_frees" /\ pc'[Finalizer] = "wait_producers"
    BY <1>27 DEF PostFrees, Waiting
  <2> QED
    BY <2>1, WaitingFacts DEF WaitingInv, EveryProducerCanWake, Waiting
<1>28. CASE WaitProducers
  <2>1. /\ Waiting' \subseteq Waiting /\ buffFree' >= buffFree /\ prodCtr' = prodCtr
        /\ pc'[Finalizer] \in {"post_frees", "wait_producers"} =>
             pc'[Finalizer] = pc[Finalizer]
    BY <1>28 DEF WaitProducers, Waiting
  <2> QED
    BY <2>1, WaitingFrame
<1>29. CASE ReadConsumers
  <2>1. /\ Waiting' \subseteq Waiting /\ buffFree' >= buffFree /\ prodCtr' = prodCtr
        /\ pc'[Finalizer] \in {"post_frees", "wait_producers"} =>
             pc'[Finalizer] = pc[Finalizer]
    BY <1>29 DEF ReadConsumers, Waiting
  <2> QED
    BY <2>1, WaitingFrame
<1>30. CASE WaitConsumers
  <2>1. /\ Waiting' \subseteq Waiting /\ buffFree' >= buffFree /\ prodCtr' = prodCtr
        /\ pc'[Finalizer] \in {"post_frees", "wait_producers"} =>
             pc'[Finalizer] = pc[Finalizer]
    BY <1>30 DEF WaitConsumers, Waiting
  <2> QED
    BY <2>1, WaitingFrame
<1>31. CASE DeliverLast
  <2>1. /\ Waiting' \subseteq Waiting /\ buffFree' >= buffFree /\ prodCtr' = prodCtr
        /\ pc'[Finalizer] \in {"post_frees", "wait_producers"} =>
             pc'[Finalizer] = pc[Finalizer]
    BY <1>31 DEF DeliverLast, Waiting
  <2> QED
    BY <2>1, WaitingFrame
<1>32. CASE AckLast
  <2>1. /\ Waiting' \subseteq Waiting /\ buffFree' >= buffFree /\ prodCtr' = prodCtr
        /\ pc'[Finalizer] \in {"post_frees", "wait_producers"} =>
             pc'[Finalizer] = pc[Finalizer]
    BY <1>32 DEF AckLast, Waiting
  <2> QED
    BY <2>1, WaitingFrame
<1>33. CASE UNCHANGED vars
  <2>1. /\ Waiting' \subseteq Waiting /\ buffFree' >= buffFree /\ prodCtr' = prodCtr
        /\ pc'[Finalizer] \in {"post_frees", "wait_producers"} =>
             pc'[Finalizer] = pc[Finalizer]
    BY <1>33 DEF vars, Waiting
  <2> QED
    BY <2>1, WaitingFrame
<1> QED
  BY <1>1, <1>2, <1>3, <1>4, <1>5, <1>6, <1>7, <1>8, <1>9, <1>10, <1>11,
     <1>12, <1>13, <1>14, <1>15, <1>16, <1>17, <1>18, <1>19, <1>20, <1>21,
     <1>22, <1>23, <1>24, <1>25, <1>26, <1>27, <1>28, <1>29, <1>30, <1>31,
     <1>32, <1>33
     DEF Next, Producer, Consumer, Finalize, Write, Read, Access, Leave

LEMMA InitStopInv == Init => StopInv
<1> SUFFICES ASSUME Init PROVE StopInv
  OBVIOUS
<1>1. pc[Finalizer] = "raise_halt" /\ \A p \in Clients : pc[p] = "connect"
  BY DEF Init, Processes, Clients
<1> QED
  BY <1>1 DEF Init, StopInv, LeaveInv, WaitingInv, CreatorInv, StopsInOrder,
              EveryProducerCanWake, BeforeConsumers, Clients

THEOREM StopInvariant == ASSUME ~StartsOverlapHalt PROVE Spec => []StopInv
<1>1. IInv /\ WakeInv /\ StopInv /\ [Next]_vars => StopInv'
  BY StepLeaveInv, StepWaitingInv, StepCreatorInv, StepStopsInOrder DEF StopInv, WakeInv
<1> QED
  BY InitStopInv, <1>1, InductiveInvariant, WakeInvariant, PTL DEF Spec

(* finalize stops the processes in the order its comment lists             *)
(* (sync.c:596-607), if none of them is about to register when it raises   *)
(* the halt: no producer is left when it writes the first HALT, and nobody *)
(* at all when it sends the last event.                                    *)
THEOREM StoppedInOrder == ASSUME ~StartsOverlapHalt PROVE Spec => []StopsInOrder
BY StopInvariant, PTL DEF StopInv

(* The posts of sync.c:631-633 are enough for every producer that waits    *)
(* for a free slot, also if the buffer is full: none is left behind.       *)
THEOREM ProducersCanWake ==
  ASSUME ~StartsOverlapHalt PROVE Spec => []EveryProducerCanWake
BY StopInvariant, PTL DEF StopInv, WaitingInv

(* Nobody is inside an access or a call of send_event once the creator has *)
(* left (creator/main.c), so nobody waits for its answer in vain.          *)
THEOREM QuietAfterTheLast ==
  ASSUME ~StartsOverlapHalt PROVE Spec => []QuietAfterLast
<1>1. IInv /\ StopInv => QuietAfterLast
  BY QuietFacts DEF StopInv
<1> QED
  BY <1>1, InductiveInvariant, StopInvariant, PTL
=============================================================================
