---------------------------- MODULE EventChannel ----------------------------
(***************************************************************************)
(* The event channel of project_2 (sync/events.c): one event_t in shared   *)
(* memory and the semaphores that hand it from any sender to the creator.  *)
(*                                                                         *)
(* init_events and attach_events open sem_read with the NAME of sem_send   *)
(* (events.c:35, 45), so both pointers denote one semaphore; O_CREAT finds *)
(* it existing and its initial value stays 1.  It is the variable semSend  *)
(* here, and the model shows that the channel works with this alias.       *)
(*                                                                         *)
(* A sender is a process that runs send_event, one shared access at a      *)
(* time; the creator runs the loop of creator/main.c, wait_event then      *)
(* event_continue, until it receives an event whose flag "last" is set.    *)
(* Only the finalizer sets that flag, in its final event.                  *)
(***************************************************************************)
EXTENDS Naturals, Sequences, FiniteSets

CONSTANTS Senders,      \* the producers, consumers and the finalizer
          Finalizer,    \* the sender that may send the last event
          MaxSends,     \* bound: how many events each sender sends
          NoEvent       \* the content of an event_t before its first write

Events == [from : Senders, seq : Nat, last : BOOLEAN]

ASSUME FinalizerAssumption == Finalizer \in Senders
ASSUME NoEventAssumption == NoEvent \notin Events
ASSUME MaxSendsAssumption == MaxSends \in Nat

VARIABLES semSend,      \* value of sem_send, which is also sem_read
          semRecv,      \* value of sem_recv
          sharedEvent,  \* *local_shared_event, in shared memory
          pc,           \* pc[s]: where sender s is in send_event
          event,        \* event[s]: the event sender s built
          sent,         \* sent[s]: how many events s has built
          creatorPc,    \* where the creator is in its loop
          received      \* the events the creator read, in order

vars == <<semSend, semRecv, sharedEvent, pc, event, sent, creatorPc, received>>
senderVars == <<pc, event, sent>>
creatorVars == <<creatorPc, received>>

SenderPcs == {"idle", "wait_send", "write", "post_recv", "wait_read", "post_send"}
CreatorPcs == {"wait_recv", "copy", "continue", "exited"}

\* Mutant: a channel created with two tokens.
InitTwoTokens ==
  /\ semSend = 2
  /\ semRecv = 0
  /\ sharedEvent = NoEvent
  /\ pc = [s \in Senders |-> "idle"]
  /\ event = [s \in Senders |-> NoEvent]
  /\ sent = [s \in Senders |-> 0]
  /\ creatorPc = "wait_recv"
  /\ received = <<>>

Init ==
  /\ semSend = 1
  /\ semRecv = 0
  /\ sharedEvent = NoEvent
  /\ pc = [s \in Senders |-> "idle"]
  /\ event = [s \in Senders |-> NoEvent]
  /\ sent = [s \in Senders |-> 0]
  /\ creatorPc = "wait_recv"
  /\ received = <<>>

Goto(s, from, to) == pc[s] = from /\ pc' = [pc EXCEPT ![s] = to]

HasSentLast(s) == event[s] # NoEvent /\ event[s].last

-----------------------------------------------------------------------------
(* The sender: send_event, after its caller built an event.                *)

BuildEvent(s) ==
  /\ Goto(s, "idle", "wait_send")
  /\ sent[s] < MaxSends
  /\ ~HasSentLast(s)
  /\ \E last \in BOOLEAN :
       /\ last => s = Finalizer
       /\ event' = [event EXCEPT ![s] = [from |-> s, seq |-> sent[s], last |-> last]]
  /\ sent' = [sent EXCEPT ![s] = @ + 1]
  /\ UNCHANGED <<semSend, semRecv, sharedEvent, creatorVars>>

\* Mutant: the sender looks at the semaphore and does not take it.
PeekSend(s) ==
  /\ Goto(s, "wait_send", "write")
  /\ semSend > 0
  /\ UNCHANGED <<semSend, semRecv, sharedEvent, event, sent, creatorVars>>

WaitSend(s) ==
  /\ Goto(s, "wait_send", "write")
  /\ semSend > 0
  /\ semSend' = semSend - 1
  /\ UNCHANGED <<semRecv, sharedEvent, event, sent, creatorVars>>

WriteEvent(s) ==
  /\ Goto(s, "write", "post_recv")
  /\ sharedEvent' = event[s]
  /\ UNCHANGED <<semSend, semRecv, event, sent, creatorVars>>

PostRecv(s) ==
  /\ Goto(s, "post_recv", "wait_read")
  /\ semRecv' = semRecv + 1
  /\ UNCHANGED <<semSend, sharedEvent, event, sent, creatorVars>>

\* Mutant: the sender decrements without waiting.
TakeReadUnguarded(s) ==
  /\ Goto(s, "wait_read", "post_send")
  /\ semSend' = semSend - 1
  /\ UNCHANGED <<semRecv, sharedEvent, event, sent, creatorVars>>

\* Mutant: the sender does not wait for the acknowledgement.
SkipRead(s) ==
  /\ Goto(s, "wait_read", "idle")
  /\ UNCHANGED <<semSend, semRecv, sharedEvent, event, sent, creatorVars>>

WaitRead(s) ==
  /\ Goto(s, "wait_read", "post_send")
  /\ semSend > 0
  /\ semSend' = semSend - 1
  /\ UNCHANGED <<semRecv, sharedEvent, event, sent, creatorVars>>

\* Mutant: the sender returns without releasing sem_send.
ForgetPostSend(s) ==
  /\ Goto(s, "post_send", "idle")
  /\ UNCHANGED <<semSend, semRecv, sharedEvent, event, sent, creatorVars>>

PostSend(s) ==
  /\ Goto(s, "post_send", "idle")
  /\ semSend' = semSend + 1
  /\ UNCHANGED <<semRecv, sharedEvent, event, sent, creatorVars>>

SenderNext(s) ==
  \/ BuildEvent(s) \/ WaitSend(s) \/ WriteEvent(s)
  \/ PostRecv(s) \/ WaitRead(s) \/ PostSend(s)

-----------------------------------------------------------------------------
(* The creator: wait_event, event_continue and the loop around them.       *)

CreatorGoto(from, to) == creatorPc = from /\ creatorPc' = to

WaitRecv ==
  /\ CreatorGoto("wait_recv", "copy")
  /\ semRecv > 0
  /\ semRecv' = semRecv - 1
  /\ UNCHANGED <<semSend, sharedEvent, senderVars, received>>

CopyEvent ==
  /\ CreatorGoto("copy", "continue")
  /\ received' = Append(received, sharedEvent)
  /\ UNCHANGED <<semSend, semRecv, sharedEvent, senderVars>>

\* Mutant: the creator goes on without acknowledging the event.
ContinueSilently ==
  /\ CreatorGoto("continue",
                 IF received[Len(received)].last THEN "exited" ELSE "wait_recv")
  /\ UNCHANGED <<semSend, semRecv, sharedEvent, senderVars, received>>

\* event_continue, then the test of the loop: while (!event.last).
EventContinue ==
  /\ CreatorGoto("continue",
                 IF received[Len(received)].last THEN "exited" ELSE "wait_recv")
  /\ semSend' = semSend + 1
  /\ UNCHANGED <<semRecv, sharedEvent, senderVars, received>>

CreatorNext == WaitRecv \/ CopyEvent \/ EventContinue

Next == CreatorNext \/ \E s \in Senders : SenderNext(s)

Spec == Init /\ [][Next]_vars

\* No process sleeps between two steps of send_event or of the creator's loop:
\* each one runs whenever it can.  Nothing is assumed about when the next event
\* is built, nor about which waiter a semaphore wakes.
FairSpec ==
  /\ Spec
  /\ WF_vars(CreatorNext)
  /\ \A s \in Senders : WF_vars(SenderNext(s) /\ ~BuildEvent(s))

-----------------------------------------------------------------------------
TypeOK ==
  /\ semSend \in Nat
  /\ semRecv \in Nat
  /\ sharedEvent \in Events \cup {NoEvent}
  /\ pc \in [Senders -> SenderPcs]
  /\ event \in [Senders -> Events \cup {NoEvent}]
  /\ sent \in [Senders -> Nat]
  /\ creatorPc \in CreatorPcs
  /\ received \in Seq(Events \cup {NoEvent})

\* The senders that took the token of sem_send and have not passed it on.
Holders == {s \in Senders : pc[s] \in {"write", "post_recv", "post_send"}}
CreatorHolds == creatorPc \in {"copy", "continue"}

(* The channel has one token: it is in sem_send (alias sem_read), or in    *)
(* sem_recv, or one sender or the creator holds it.  This is why a single  *)
(* semaphore can play both roles in events.c although an acknowledgement   *)
(* may wake a sender that was waiting to begin.                            *)
OneToken ==
  /\ semSend + semRecv <= 1
  /\ semSend + semRecv = 1 => Holders = {} /\ ~CreatorHolds
  /\ CreatorHolds => Holders = {}
  /\ \A s, t \in Holders : s = t

Unread == semRecv > 0 \/ creatorPc = "copy"

(* The event in shared memory is overwritten only after the creator has    *)
(* copied it (events.c:61 against events.c:99).                            *)
NoEventOverwritten == [][sharedEvent' # sharedEvent => ~Unread]_vars

(* Every call of send_event returns, unless the creator has received the   *)
(* last event and left: then nobody acknowledges any more.                 *)
CallReturns ==
  \A s \in Senders : pc[s] # "idle" ~> (pc[s] = "idle" \/ creatorPc = "exited")

(* The last event reaches the creator, which then leaves its loop.         *)
LastEventEndsCreator == HasSentLast(Finalizer) ~> creatorPc = "exited"

-----------------------------------------------------------------------------
(* The refinement mapping.  A call is delivered once the creator has       *)
(* copied its event; until then the event is either not yet announced or   *)
(* still unread in shared memory.                                          *)
UnreadOf(s) == Unread /\ sharedEvent = event[s]

CallState(s) ==
  IF pc[s] = "idle" THEN "idle"
  ELSE IF pc[s] \in {"wait_read", "post_send"} /\ ~UnreadOf(s) THEN "delivered"
  ELSE "calling"

Delivery == INSTANCE EventDelivery WITH
              state <- [s \in Senders |-> CallState(s)],
              arg <- event,
              log <- received

(* The semaphore protocol implements the rendezvous: each event is         *)
(* delivered once, in its own call, and never after the last one.          *)
ImplementsDelivery == Delivery!Spec
=============================================================================
