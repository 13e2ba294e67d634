------------------------- MODULE EventChannel_proofs -------------------------
(***************************************************************************)
(* Proofs about EventChannel, for any set of senders: the channel has one  *)
(* token, no event is overwritten before it is read, and the semaphore     *)
(* protocol implements the rendezvous of EventDelivery.                    *)
(***************************************************************************)
EXTENDS EventChannel, TLAPS

(* What the event in shared memory is while the token travels with it.     *)
EventInv ==
  /\ \A s \in Senders : event[s] # NoEvent => event[s].from = s
  /\ \A s \in Senders : pc[s] # "idle" => event[s] # NoEvent
  /\ \A s \in Senders : pc[s] = "post_recv" => sharedEvent = event[s]
  /\ Unread => \E s \in Senders : pc[s] = "wait_read" /\ sharedEvent = event[s]

(* The creator reads on only while it has not received the last event.     *)
LogInv ==
  /\ received \in Seq(Events)
  /\ creatorPc \in {"wait_recv", "copy"} => ~Delivery!Closed
  /\ creatorPc = "continue" => received # <<>>

IInv == TypeOK /\ OneToken /\ EventInv /\ LogInv

LEMMA InitIInv == Init => IInv
<1> SUFFICES ASSUME Init PROVE IInv
  OBVIOUS
<1> USE NoEventAssumption DEF Init
<1>1. TypeOK
  BY DEF TypeOK, SenderPcs, CreatorPcs
<1>2. OneToken
  BY DEF OneToken, Holders, CreatorHolds
<1>3. EventInv
  BY DEF EventInv, Unread
<1>4. LogInv
  BY DEF LogInv, Delivery!Closed
<1> QED
  BY <1>1, <1>2, <1>3, <1>4 DEF IInv

LEMMA StepTypeOK == IInv /\ [Next]_vars => TypeOK'
<1> SUFFICES ASSUME IInv, [Next]_vars PROVE TypeOK'
  OBVIOUS
<1> USE FinalizerAssumption
        DEF IInv, TypeOK, SenderPcs, CreatorPcs, senderVars, creatorVars, Goto
<1>1. ASSUME NEW s \in Senders, BuildEvent(s) PROVE TypeOK'
  <2>1. PICK last \in BOOLEAN :
           event' = [event EXCEPT ![s] = [from |-> s, seq |-> sent[s], last |-> last]]
    BY <1>1 DEF BuildEvent
  <2>2. [from |-> s, seq |-> sent[s], last |-> last] \in Events
    BY DEF Events
  <2> QED
    BY <1>1, <2>1, <2>2 DEF BuildEvent
<1>2. ASSUME NEW s \in Senders, WaitSend(s) PROVE TypeOK'
  BY <1>2 DEF WaitSend
<1>3. ASSUME NEW s \in Senders, WriteEvent(s) PROVE TypeOK'
  BY <1>3 DEF WriteEvent
<1>4. ASSUME NEW s \in Senders, PostRecv(s) PROVE TypeOK'
  BY <1>4 DEF PostRecv
<1>5. ASSUME NEW s \in Senders, WaitRead(s) PROVE TypeOK'
  BY <1>5 DEF WaitRead
<1>6. ASSUME NEW s \in Senders, PostSend(s) PROVE TypeOK'
  BY <1>6 DEF PostSend
<1>7. CASE WaitRecv
  BY <1>7 DEF WaitRecv, CreatorGoto
<1>8. CASE CopyEvent
  BY <1>8 DEF CopyEvent, CreatorGoto
<1>9. CASE EventContinue
  BY <1>9 DEF EventContinue, CreatorGoto
<1>10. CASE UNCHANGED vars
  BY <1>10 DEF vars
<1> QED
  BY <1>1, <1>2, <1>3, <1>4, <1>5, <1>6, <1>7, <1>8, <1>9, <1>10
     DEF Next, SenderNext, CreatorNext

LEMMA StepOneToken == IInv /\ [Next]_vars => OneToken'
<1> SUFFICES ASSUME IInv, [Next]_vars PROVE OneToken'
  OBVIOUS
<1> USE DEF IInv, TypeOK, OneToken, Holders, CreatorHolds, senderVars, creatorVars, Goto
<1>1. ASSUME NEW s \in Senders, BuildEvent(s) PROVE OneToken'
  BY <1>1 DEF BuildEvent
<1>2. ASSUME NEW s \in Senders, WaitSend(s) PROVE OneToken'
  BY <1>2 DEF WaitSend
<1>3. ASSUME NEW s \in Senders, WriteEvent(s) PROVE OneToken'
  BY <1>3 DEF WriteEvent
<1>4. ASSUME NEW s \in Senders, PostRecv(s) PROVE OneToken'
  BY <1>4 DEF PostRecv
<1>5. ASSUME NEW s \in Senders, WaitRead(s) PROVE OneToken'
  BY <1>5 DEF WaitRead
<1>6. ASSUME NEW s \in Senders, PostSend(s) PROVE OneToken'
  BY <1>6 DEF PostSend
<1>7. CASE WaitRecv
  BY <1>7 DEF WaitRecv, CreatorGoto
<1>8. CASE CopyEvent
  BY <1>8 DEF CopyEvent, CreatorGoto
<1>9. CASE EventContinue
  BY <1>9 DEF EventContinue, CreatorGoto
<1>10. CASE UNCHANGED vars
  BY <1>10 DEF vars
<1> QED
  BY <1>1, <1>2, <1>3, <1>4, <1>5, <1>6, <1>7, <1>8, <1>9, <1>10
     DEF Next, SenderNext, CreatorNext

LEMMA StepEventInv == IInv /\ [Next]_vars => EventInv'
<1> SUFFICES ASSUME IInv, [Next]_vars PROVE EventInv'
  OBVIOUS
<1> USE DEF IInv, TypeOK, OneToken, EventInv, Holders, CreatorHolds, Unread,
            senderVars, creatorVars, Goto
<1>1. ASSUME NEW s \in Senders, BuildEvent(s) PROVE EventInv'
  <2>1. PICK last \in BOOLEAN :
           event' = [event EXCEPT ![s] = [from |-> s, seq |-> sent[s], last |-> last]]
    BY <1>1 DEF BuildEvent
  <2>2. [from |-> s, seq |-> sent[s], last |-> last] # NoEvent
    BY NoEventAssumption DEF Events
  <2> QED
    BY <1>1, <2>1, <2>2 DEF BuildEvent
<1>2. ASSUME NEW s \in Senders, WaitSend(s) PROVE EventInv'
  BY <1>2 DEF WaitSend
<1>3. ASSUME NEW s \in Senders, WriteEvent(s) PROVE EventInv'
  BY <1>3 DEF WriteEvent
<1>4. ASSUME NEW s \in Senders, PostRecv(s) PROVE EventInv'
  BY <1>4 DEF PostRecv
<1>5. ASSUME NEW s \in Senders, WaitRead(s) PROVE EventInv'
  BY <1>5 DEF WaitRead
<1>6. ASSUME NEW s \in Senders, PostSend(s) PROVE EventInv'
  BY <1>6 DEF PostSend
<1>7. CASE WaitRecv
  BY <1>7 DEF WaitRecv, CreatorGoto
<1>8. CASE CopyEvent
  BY <1>8 DEF CopyEvent, CreatorGoto
<1>9. CASE EventContinue
  BY <1>9 DEF EventContinue, CreatorGoto
<1>10. CASE UNCHANGED vars
  BY <1>10 DEF vars
<1> QED
  BY <1>1, <1>2, <1>3, <1>4, <1>5, <1>6, <1>7, <1>8, <1>9, <1>10
     DEF Next, SenderNext, CreatorNext

LEMMA StepLogInv == IInv /\ [Next]_vars => LogInv'
<1> SUFFICES ASSUME IInv, [Next]_vars PROVE LogInv'
  OBVIOUS
<1> USE DEF IInv, LogInv, Delivery!Closed, senderVars, creatorVars
<1>1. ASSUME NEW s \in Senders, SenderNext(s) PROVE LogInv'
  BY <1>1 DEF SenderNext, BuildEvent, WaitSend, WriteEvent, PostRecv, WaitRead, PostSend
<1>2. CASE WaitRecv
  BY <1>2 DEF WaitRecv, CreatorGoto
<1>3. CASE CopyEvent
  <2>1. sharedEvent \in Events
    BY <1>3 DEF CopyEvent, CreatorGoto, EventInv, Unread, TypeOK
  <2>2. /\ received' = Append(received, sharedEvent)
        /\ creatorPc' = "continue"
    BY <1>3 DEF CopyEvent, CreatorGoto
  <2> QED
    BY <2>1, <2>2
<1>4. CASE EventContinue
  <2>1. received' = received /\ creatorPc = "continue"
    BY <1>4 DEF EventContinue, CreatorGoto
  <2>2. creatorPc' = IF received[Len(received)].last THEN "exited" ELSE "wait_recv"
    BY <1>4 DEF EventContinue, CreatorGoto
  <2> QED
    BY <2>1, <2>2
<1>5. CASE UNCHANGED vars
  BY <1>5 DEF vars
<1> QED
  BY <1>1, <1>2, <1>3, <1>4, <1>5 DEF Next, CreatorNext

(* IInv is inductive, so it holds in every reachable state.                *)
THEOREM InductiveInvariant == Spec => []IInv
<1>1. IInv /\ [Next]_vars => IInv'
  BY StepTypeOK, StepOneToken, StepEventInv, StepLogInv DEF IInv
<1> QED
  BY InitIInv, <1>1, PTL DEF Spec

(* Type correctness of the channel (events.c): its semaphores never go     *)
(* below zero and the shared event is always one that was written.         *)
THEOREM TypeCorrect == Spec => []TypeOK
BY InductiveInvariant, PTL DEF IInv

(* The semaphore that serves as sem_send and as sem_read (events.c:34-35)  *)
(* and sem_recv share one token among all the senders and the creator.     *)
THEOREM TokenIsUnique == Spec => []OneToken
BY InductiveInvariant, PTL DEF IInv

(* send_event never overwrites an event that the creator has not copied.   *)
THEOREM NothingOverwritten == Spec => NoEventOverwritten
<1>1. IInv /\ [Next]_vars => [sharedEvent' # sharedEvent => ~Unread]_vars
  <2> SUFFICES ASSUME IInv, Next, sharedEvent' # sharedEvent PROVE ~Unread
    BY DEF vars
  <2>1. PICK s \in Senders : WriteEvent(s)
    BY DEF Next, CreatorNext, SenderNext, WaitRecv, CopyEvent, EventContinue,
           BuildEvent, WaitSend, PostRecv, WaitRead, PostSend
  <2>2. s \in Holders
    BY <2>1 DEF WriteEvent, Goto, Holders
  <2> QED
    BY <2>2 DEF IInv, TypeOK, OneToken, Unread, CreatorHolds
<1> QED
  BY <1>1, InductiveInvariant, PTL DEF Spec, NoEventOverwritten

-----------------------------------------------------------------------------
(* Refinement: every step of the protocol is a step of the rendezvous or   *)
(* leaves the mapped state unchanged.                                      *)

Mapped == [s \in Senders |-> CallState(s)]

LEMMA InitRefines == Init => Delivery!Init
BY DEF Init, Delivery!Init, CallState

\* A step of a sender that changes neither its own mapped state nor another's.
LEMMA SenderStutters ==
  ASSUME IInv, NEW s \in Senders,
         WaitSend(s) \/ WriteEvent(s) \/ PostRecv(s) \/ WaitRead(s)
  PROVE  UNCHANGED <<Mapped, event, received>>
<1> USE DEF IInv, TypeOK, OneToken, EventInv, Holders, CreatorHolds, Unread,
            UnreadOf, senderVars, creatorVars, Goto
<1>1. UNCHANGED <<event, received>>
  BY DEF WaitSend, WriteEvent, PostRecv, WaitRead
<1>2. ASSUME NEW t \in Senders PROVE CallState(t)' = CallState(t)
  <2>1. CASE WaitSend(s)
    BY <1>1, <2>1 DEF WaitSend, CallState
  <2>2. CASE WriteEvent(s)
    BY <1>1, <2>2 DEF WriteEvent, CallState
  <2>3. CASE PostRecv(s)
    BY <1>1, <2>3 DEF PostRecv, CallState
  <2>4. CASE WaitRead(s)
    BY <1>1, <2>4 DEF WaitRead, CallState
  <2> QED
    BY <2>1, <2>2, <2>3, <2>4
<1> QED
  BY <1>1, <1>2 DEF Mapped

LEMMA BuildEventRefines ==
  ASSUME IInv, NEW s \in Senders, BuildEvent(s)
  PROVE  Delivery!Call(s)
<1> USE DEF IInv, TypeOK, EventInv, senderVars, creatorVars, Goto
<1>1. PICK last \in BOOLEAN :
         event' = [event EXCEPT ![s] = [from |-> s, seq |-> sent[s], last |-> last]]
  BY DEF BuildEvent
<1>2. event'[s] \in Events /\ event' = [event EXCEPT ![s] = event'[s]]
  BY <1>1 DEF Events
<1>3. pc[s] = "idle" /\ pc' = [pc EXCEPT ![s] = "wait_send"]
  BY DEF BuildEvent
<1>4. UNCHANGED <<semSend, semRecv, sharedEvent, creatorPc, received>>
  BY DEF BuildEvent
<1>5. CallState(s) = "idle" /\ CallState(s)' = "calling"
  BY <1>3 DEF CallState
<1>6. ASSUME NEW t \in Senders, t # s PROVE CallState(t)' = CallState(t)
  BY <1>1, <1>3, <1>4, <1>6 DEF CallState, UnreadOf, Unread
<1> QED
  BY <1>2, <1>4, <1>5, <1>6 DEF Delivery!Call

LEMMA CopyEventRefines ==
  ASSUME IInv, CopyEvent
  PROVE  \E s \in Senders : Delivery!Deliver(s)
<1> USE DEF IInv, TypeOK, OneToken, EventInv, Unread, UnreadOf, senderVars, CreatorGoto
<1>1. PICK s \in Senders : pc[s] = "wait_read" /\ sharedEvent = event[s]
  BY DEF CopyEvent
<1>2. ~Delivery!Closed
  BY DEF CopyEvent, LogInv
<1>3. /\ semRecv = 0
      /\ creatorPc = "copy" /\ creatorPc' = "continue"
      /\ UNCHANGED <<semRecv, sharedEvent, pc, event>>
  BY DEF CopyEvent, CreatorHolds
<1>4. received' = Append(received, event[s])
  BY <1>1 DEF CopyEvent
<1>5. CallState(s) = "calling" /\ CallState(s)' = "delivered"
  BY <1>1, <1>3 DEF CallState
<1>6. ASSUME NEW t \in Senders, t # s PROVE CallState(t)' = CallState(t)
  BY <1>1, <1>3, <1>6 DEF CallState, Holders, CreatorHolds
<1>7. Delivery!Deliver(s)
  BY <1>2, <1>3, <1>4, <1>5, <1>6 DEF Delivery!Deliver
<1> QED
  BY <1>7

LEMMA PostSendRefines ==
  ASSUME IInv, NEW s \in Senders, PostSend(s)
  PROVE  Delivery!Return(s)
<1> USE DEF IInv, TypeOK, OneToken, EventInv, Holders, CreatorHolds, Unread,
            UnreadOf, senderVars, creatorVars, Goto
<1>1. /\ pc[s] = "post_send" /\ pc' = [pc EXCEPT ![s] = "idle"]
      /\ UNCHANGED <<semRecv, sharedEvent, event, creatorPc, received>>
  BY DEF PostSend
<1>2. CallState(s) = "delivered" /\ CallState(s)' = "idle"
  BY <1>1 DEF CallState
<1>3. ASSUME NEW t \in Senders, t # s PROVE CallState(t)' = CallState(t)
  BY <1>1, <1>3 DEF CallState
<1> QED
  BY <1>1, <1>2, <1>3 DEF Delivery!Return

LEMMA CreatorStutters ==
  ASSUME IInv, WaitRecv \/ EventContinue
  PROVE  UNCHANGED <<Mapped, event, received>>
<1> USE DEF IInv, TypeOK, OneToken, CreatorHolds, Unread, UnreadOf, senderVars, CreatorGoto
<1>1. UNCHANGED <<pc, event, sharedEvent, received>>
  BY DEF WaitRecv, EventContinue
<1>2. Unread' = Unread
  BY DEF WaitRecv, EventContinue
<1>3. ASSUME NEW t \in Senders PROVE CallState(t)' = CallState(t)
  BY <1>1, <1>2 DEF CallState
<1> QED
  BY <1>1, <1>3 DEF Mapped

(* The semaphore protocol of events.c, alias included, implements the      *)
(* rendezvous: exactly-once delivery, return after delivery, nothing       *)
(* after the last event.                                                   *)
THEOREM RefinesDelivery == Spec => ImplementsDelivery
<1>1. IInv /\ [Next]_vars => [Delivery!Next]_(Delivery!vars)
  <2> SUFFICES ASSUME IInv, [Next]_vars PROVE [Delivery!Next]_(Delivery!vars)
    OBVIOUS
  <2>1. ASSUME NEW s \in Senders, SenderNext(s) PROVE [Delivery!Next]_(Delivery!vars)
    <3>1. CASE BuildEvent(s)
      BY <3>1, BuildEventRefines DEF Delivery!Next
    <3>2. CASE PostSend(s)
      BY <3>2, PostSendRefines DEF Delivery!Next
    <3>3. CASE WaitSend(s) \/ WriteEvent(s) \/ PostRecv(s) \/ WaitRead(s)
      BY <3>3, SenderStutters DEF Delivery!vars, Mapped
    <3> QED
      BY <2>1, <3>1, <3>2, <3>3 DEF SenderNext
  <2>2. CASE CopyEvent
    BY <2>2, CopyEventRefines DEF Delivery!Next
  <2>3. CASE WaitRecv \/ EventContinue
    BY <2>3, CreatorStutters DEF Delivery!vars, Mapped
  <2>4. CASE UNCHANGED vars
    BY <2>4 DEF vars, Delivery!vars, CallState, UnreadOf, Unread
  <2> QED
    BY <2>1, <2>2, <2>3, <2>4 DEF Next, CreatorNext
<1> QED
  BY InitRefines, <1>1, InductiveInvariant, PTL DEF Spec, ImplementsDelivery, Delivery!Spec
=============================================================================
