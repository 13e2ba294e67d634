--------------------------- MODULE CreatorWindow ---------------------------
(***************************************************************************)
(* project_2: what the creator shows of the buffer.  Clients access the    *)
(* buffer and then tell the creator with an event; the creator's thread    *)
(* copies the event and the slots (wait_event) and queues callbacks, and   *)
(* the main loop of GTK runs them in turn and draws.  So four moments are  *)
(* apart: the access, the one at which its event is built, the one at      *)
(* which the slots are copied, and the one at which they are drawn.        *)
(*                                                                         *)
(* Writers wait for no mutex (sync.c:493), so accesses overlap: get_msg    *)
(* and put_msg are not the steps of CBuffer here, but one load or store of *)
(* shared memory at a time, and so is the copy of the slots.  The buffer   *)
(* is that of CBuffer; its msg and status, which belong to one caller, are *)
(* not used.  send_event is the rendezvous of EventDelivery: a sender      *)
(* waits until the creator took its event and acknowledged it.             *)
(*                                                                         *)
(* Left out: the lines of the log; the way clients leave, which is that of *)
(* SharedBuffer and one step here.                                         *)
(***************************************************************************)
EXTENDS CBuffer, Integers

CONSTANTS Producers, Consumers,
          Finalizer,
          MaxAccesses   \* bound on the accesses of all processes together

ASSUME FinalizerAssumption ==
  /\ Producers \cap Consumers = {}
  /\ Finalizer \notin Producers \cup Consumers
  /\ MaxAccesses \in Nat
\* A message has the pid of its writer, which is all that is kept of it.
ASSUME WritersAssumption == Producers \cup {Finalizer} \subseteq Messages

Clients == Producers \cup Consumers
Senders == Clients \cup {Finalizer}
NoEvent == [entry |-> 0, exit |-> 0, last |-> FALSE]

VARIABLES
  isHalted,
  buffFree, buffUsed, cbufferMut,  \* the semaphores of the buffer
  accesses,    \* the number of accesses so far
  pc,          \* where each sender is
  reg,         \* the value a sender loaded and will store back changed
  event,       \* the event of a sender
  creator,     \* where its thread is
  received,    \* its copy of an event
  copy, copied,             \* its copy of the slots, those below copied done
  executing,
  callbacks,   \* what the main loop has to run
  posLabels,   \* the labels for entry and exit
  view,        \* the messages in the text view, with their indices
  executionLabel

own == <<msg, status>>
buffer == vars
semaphores == <<buffFree, buffUsed, cbufferMut>>
senders == <<isHalted, semaphores, accesses, pc, reg, event>>
thread == <<creator, received, copy, copied, executing>>
display == <<posLabels, view, executionLabel>>
windowVars == <<buffer, senders, thread, callbacks, display>>

\* From its first look at the buffer to the rendezvous of its event.
AccessPcs == {"test_full", "store_slot", "store_valid", "test_empty", "clear_valid",
              "load_index", "store_index", "load_count", "store_count",
              "load_entry", "load_exit", "sending"}
Pcs == {"idle", "wait_mutex", "answered", "post", "gone"} \cup AccessPcs

Drawn(contents) ==
  {<<i, contents[i].content>> : i \in {j \in Indices : contents[j].valid}}

\* windows_start_show up to its loop has queued two callbacks.
WindowInit ==
  /\ Init
  /\ isHalted = FALSE
  /\ buffFree = Size /\ buffUsed = 0 /\ cbufferMut = 1
  /\ accesses = 0
  /\ pc = [s \in Senders |-> "idle"]
  /\ reg = [s \in Senders |-> 0]
  /\ event = [s \in Senders |-> NoEvent]
  /\ creator = "wait_event" /\ received = NoEvent
  /\ copy = slots /\ copied = 0
  /\ executing = TRUE
  /\ callbacks = <<[call |-> "set_buffer_info"], [call |-> "set_executing"]>>
  /\ posLabels = <<>> /\ view = {} /\ executionLabel = ""

At(s, label) == pc[s] = label
Goto(s, label) == pc' = [pc EXCEPT ![s] = label]

-----------------------------------------------------------------------------
(* write_buff_msg and read_buff_msg                                        *)

Begin == accesses < MaxAccesses /\ accesses' = accesses + 1

\* A producer writes until the halt, and finalize when the producers are gone.
\* Taking a unit and looking at the halt are one step: for a producer that
\* takes one and finds that it must leave, see Leave.
WaitFree(s) ==
  /\ At(s, "idle") /\ Begin
  /\ IF s = Finalizer THEN isHalted /\ \A p \in Producers : At(p, "gone")
                      ELSE ~isHalted
  /\ buffFree > 0 /\ buffFree' = buffFree - 1
  /\ Goto(s, "test_full")
  /\ UNCHANGED <<buffer, isHalted, buffUsed, cbufferMut, reg, event, thread,
                 callbacks, display>>

TestFull(s) ==
  /\ At(s, "test_full")
  /\ Goto(s, IF is_buff_full THEN "load_entry" ELSE "store_slot")
  /\ UNCHANGED <<buffer, isHalted, semaphores, accesses, reg, event, thread,
                 callbacks, display>>

\* The flag of the caller's message was never set, and may be anything.
StoreSlot(s) ==
  /\ At(s, "store_slot")
  /\ \E flag \in BOOLEAN :
       slots' = [slots EXCEPT ![tail] = [valid |-> flag, content |-> s]]
  /\ Goto(s, "store_valid")
  /\ UNCHANGED <<head, tail, count, own, isHalted, semaphores, accesses, reg,
                 event, thread, callbacks, display>>

StoreValid(s) ==
  /\ At(s, "store_valid")
  /\ slots' = [slots EXCEPT ![tail].valid = TRUE]
  /\ Goto(s, "load_index")
  /\ UNCHANGED <<head, tail, count, own, isHalted, semaphores, accesses, reg,
                 event, thread, callbacks, display>>

WaitUsed(c) ==
  /\ At(c, "idle") /\ Begin
  /\ buffUsed > 0 /\ buffUsed' = buffUsed - 1
  /\ Goto(c, "wait_mutex")
  /\ UNCHANGED <<buffer, isHalted, buffFree, cbufferMut, reg, event, thread,
                 callbacks, display>>

WaitMutex(c) ==
  /\ At(c, "wait_mutex")
  /\ cbufferMut > 0 /\ cbufferMut' = cbufferMut - 1
  /\ Goto(c, "test_empty")
  /\ UNCHANGED <<buffer, isHalted, buffFree, buffUsed, accesses, reg, event,
                 thread, callbacks, display>>

TestEmpty(c) ==
  /\ At(c, "test_empty")
  /\ Goto(c, IF is_buff_empty THEN "load_entry" ELSE "clear_valid")
  /\ UNCHANGED <<buffer, isHalted, semaphores, accesses, reg, event, thread,
                 callbacks, display>>

ClearValid(c) ==
  /\ At(c, "clear_valid")
  /\ slots' = [slots EXCEPT ![head].valid = FALSE]
  /\ Goto(c, "load_index")
  /\ UNCHANGED <<head, tail, count, own, isHalted, semaphores, accesses, reg,
                 event, thread, callbacks, display>>

LoadIndex(s) ==
  /\ At(s, "load_index")
  /\ reg' = [reg EXCEPT ![s] = IF s \in Consumers THEN head ELSE tail]
  /\ Goto(s, "store_index")
  /\ UNCHANGED <<buffer, isHalted, semaphores, accesses, event, thread,
                 callbacks, display>>

StoreIndex(s) ==
  /\ At(s, "store_index")
  /\ IF s \in Consumers
       THEN head' = (reg[s] + 1) % Size /\ UNCHANGED tail
       ELSE tail' = (reg[s] + 1) % Size /\ UNCHANGED head
  /\ Goto(s, "load_count")
  /\ UNCHANGED <<slots, count, own, isHalted, semaphores, accesses, reg, event,
                 thread, callbacks, display>>

LoadCount(s) ==
  /\ At(s, "load_count")
  /\ reg' = [reg EXCEPT ![s] = count]
  /\ Goto(s, "store_count")
  /\ UNCHANGED <<buffer, isHalted, semaphores, accesses, event, thread,
                 callbacks, display>>

StoreCount(s) ==
  /\ At(s, "store_count")
  /\ count' = IF s \in Consumers THEN reg[s] - 1 ELSE reg[s] + 1
  /\ reg' = [reg EXCEPT ![s] = 0]
  /\ Goto(s, "load_entry")
  /\ UNCHANGED <<slots, head, tail, own, isHalted, semaphores, accesses, event,
                 thread, callbacks, display>>

\* build_rw_event
LoadEntry(s) ==
  /\ At(s, "load_entry")
  /\ event' = [event EXCEPT ![s] = [entry |-> tail, exit |-> 0, last |-> FALSE]]
  /\ Goto(s, "load_exit")
  /\ UNCHANGED <<buffer, isHalted, semaphores, accesses, reg, thread, callbacks,
                 display>>

LoadExit(s) ==
  /\ At(s, "load_exit")
  /\ event' = [event EXCEPT ![s].exit = head]
  /\ Goto(s, "sending")
  /\ UNCHANGED <<buffer, isHalted, semaphores, accesses, reg, thread, callbacks,
                 display>>

\* cbuffer_mut is posted by writers too, who did not wait for it.
Post(s) ==
  /\ At(s, "post")
  /\ cbufferMut' = cbufferMut + 1
  /\ IF s \in Consumers
       THEN buffFree' = buffFree + 1 /\ UNCHANGED buffUsed
       ELSE buffUsed' = buffUsed + 1 /\ UNCHANGED buffFree
  /\ Goto(s, "idle")
  /\ UNCHANGED <<buffer, isHalted, accesses, reg, event, thread, callbacks, display>>

-----------------------------------------------------------------------------
(* The end: finalize raises the halt and sends the last event when all the *)
(* clients are gone.                                                       *)

RaiseHalt ==
  /\ ~isHalted /\ isHalted' = TRUE
  /\ UNCHANGED <<buffer, semaphores, accesses, pc, reg, event, thread, callbacks,
                 display>>

\* A producer may take a unit and keep it when it finds that it must leave,
\* and finalize may have posted a unit for it.
Leave(c) ==
  /\ At(c, "idle")
  /\ IF c \in Consumers
       THEN UNCHANGED buffFree
       ELSE /\ isHalted
            /\ \E posted, taken \in {0, 1} :
                 /\ taken <= buffFree + posted
                 /\ buffFree' = buffFree + posted - taken
  /\ Goto(c, "gone")
  /\ UNCHANGED <<buffer, isHalted, buffUsed, cbufferMut, accesses, reg, event,
                 thread, callbacks, display>>

SendLast ==
  /\ isHalted /\ At(Finalizer, "idle") /\ \A c \in Clients : At(c, "gone")
  /\ event' = [event EXCEPT ![Finalizer] = [entry |-> tail, exit |-> head, last |-> TRUE]]
  /\ Goto(Finalizer, "sending")
  /\ UNCHANGED <<buffer, isHalted, semaphores, accesses, reg, thread, callbacks,
                 display>>

-----------------------------------------------------------------------------
(* The creator's thread                                                    *)

\* The event of a sender has come, and is copied.
Receive(s) ==
  /\ creator = "wait_event" /\ At(s, "sending")
  /\ received' = event[s]
  /\ Goto(s, "answered")
  /\ creator' = "copy" /\ copied' = 0
  /\ UNCHANGED <<buffer, isHalted, semaphores, accesses, reg, event, copy,
                 executing, callbacks, display>>

CopySlot ==
  /\ creator = "copy" /\ copied < Size
  /\ copy' = [copy EXCEPT ![copied] = slots[copied]]
  /\ copied' = copied + 1
  /\ UNCHANGED <<buffer, senders, creator, received, executing, callbacks, display>>

\* Mutant: what is newer is run first.
RunNewestFirst(calls) == callbacks' = calls \o callbacks
g_idle_add(calls) == callbacks' = callbacks \o calls

QueueCallbacks ==
  /\ creator = "copy" /\ copied = Size
  /\ IF received.last
       THEN UNCHANGED callbacks
       ELSE g_idle_add(<<[call |-> "update_ui_labels", event |-> received],
                         [call |-> "set_buffer_view", slots |-> copy]>>)
  /\ creator' = "event_continue"
  /\ UNCHANGED <<buffer, senders, received, copy, copied, executing, display>>

event_continue ==
  /\ creator = "event_continue"
  /\ pc' = [s \in Senders |-> IF pc[s] # "answered" THEN pc[s]
                              ELSE IF received.last THEN "gone" ELSE "post"]
  /\ creator' = IF received.last THEN "last" ELSE "wait_event"
  /\ UNCHANGED <<buffer, isHalted, semaphores, accesses, reg, event, received,
                 copy, copied, executing, callbacks, display>>

\* Mutant: the last event is not shown.
EndOnly ==
  /\ creator = "last"
  /\ executing' = FALSE /\ executionLabel' = "No"
  /\ creator' = "ended"
  /\ UNCHANGED <<buffer, senders, received, copy, copied, callbacks, posLabels, view>>
\* windows_start_show after its loop.
ShowLast ==
  /\ creator = "last"
  /\ executing' = FALSE /\ executionLabel' = "No"
  /\ g_idle_add(<<[call |-> "update_ui_labels", event |-> received]>>)
  /\ creator' = "ended"
  /\ UNCHANGED <<buffer, senders, received, copy, copied, posLabels, view>>

-----------------------------------------------------------------------------
(* The main loop: a callback returns and is removed.                       *)

RunCallback ==
  /\ callbacks # <<>>
  /\ callbacks' = Tail(callbacks)
  /\ LET c == Head(callbacks)
     IN  \/ /\ c.call = "set_buffer_info"
            /\ posLabels' = <<0, 0>> /\ UNCHANGED <<view, executionLabel>>
         \/ /\ c.call = "set_executing"
            /\ executionLabel' = IF executing THEN "Si" ELSE "No"
            /\ UNCHANGED <<posLabels, view>>
         \/ /\ c.call = "update_ui_labels"
            /\ posLabels' = <<c.event.entry, c.event.exit>>
            /\ UNCHANGED <<view, executionLabel>>
         \/ /\ c.call = "set_buffer_view"
            /\ view' = Drawn(c.slots) /\ UNCHANGED <<posLabels, executionLabel>>
  /\ UNCHANGED <<buffer, senders, thread>>

-----------------------------------------------------------------------------
Write(s) == WaitFree(s) \/ TestFull(s) \/ StoreSlot(s) \/ StoreValid(s)
Read(c) == WaitUsed(c) \/ WaitMutex(c) \/ TestEmpty(c) \/ ClearValid(c)
Access(s) ==
  \/ LoadIndex(s) \/ StoreIndex(s) \/ LoadCount(s) \/ StoreCount(s)
  \/ LoadEntry(s) \/ LoadExit(s) \/ Post(s)

Thread == \/ CopySlot \/ QueueCallbacks \/ event_continue \/ ShowLast
          \/ \E s \in Senders : Receive(s)

WindowNext ==
  \/ \E s \in Senders : Access(s)
  \/ \E s \in Senders \ Consumers : Write(s)
  \/ \E c \in Consumers : Read(c)
  \/ \E c \in Clients : Leave(c)
  \/ RaiseHalt \/ SendLast \/ Thread \/ RunCallback

\* The creator's thread and its main loop are scheduled; the clients and the
\* finalizer are free to do nothing more.
WindowSpec ==
  /\ WindowInit /\ [][WindowNext]_windowVars
  /\ WF_windowVars(Thread) /\ WF_windowVars(RunCallback)

-----------------------------------------------------------------------------
\* No process is between its first look at the buffer and the rendezvous of its
\* event, no event is being taken, and no callback is left.
AtRest ==
  /\ \A s \in Senders : pc[s] \notin AccessPcs
  /\ creator \in {"wait_event", "ended"}
  /\ callbacks = <<>>

(* At rest, the text view has the buffer as it is: the content of exactly  *)
(* the slots whose flag is set, at their indices.  It is so however the    *)
(* loads and stores of overlapping accesses interleave with each other,    *)
(* with the copying of the slots and with the order in which their events  *)
(* are built and received: every store is followed by an event of its      *)
(* process, for which the slots are copied again, and the copies are drawn *)
(* in their order.  Which flags are set is another matter: accesses that   *)
(* overlap may set one twice or lose an update of count, and ShownIsUnread *)
(* of CBuffer is about one caller at a time.                               *)
ShowsBufferAtRest == AtRest => view = Drawn(slots)

(* The labels, unlike the slots, are those of the time at which an event   *)
(* was built, and may stay behind; the last event puts them right, and     *)
(* with them the label that says the session is over.                      *)
LastEventShown ==
  event[Finalizer].last ~>
    [](callbacks = <<>> /\ posLabels = <<tail, head>> /\ executionLabel = "No")
=============================================================================
