---------------------------- MODULE SharedBuffer ----------------------------
(***************************************************************************)
(* project_2: producers and consumers share a circular buffer in mapped    *)
(* memory, a creator shows every access to it, and a finalizer stops them. *)
(* The processes are those of producer/, consumer/, finalizer/ and         *)
(* creator/main.c; the shared state and its operations are sync/sync.c and *)
(* sync/cbuffer.c.  Each process takes one access to shared memory or one  *)
(* semaphore operation at a time, with these exceptions:                   *)
(*                                                                         *)
(*  - a section of halt_mut or proc_counter_mut holds one access (or the   *)
(*    increment of one counter) and is one step: those two mutexes are     *)
(*    taken and released properly everywhere;                              *)
(*  - posts that follow each other are one step;                           *)
(*  - send_event is the rendezvous of EventDelivery, which EventChannel    *)
(*    implements: the call ends when the creator has the event.            *)
(*                                                                         *)
(* Left out: the payload of an event and the flag "valid" of a slot, which *)
(* only the display reads (see CBuffer); zero_messages, which is posted    *)
(* (sync.c:458, 557) and never waited for (the wait is commented out,      *)
(* sync.c:660-664); keys, so that a consumer may find a match at any       *)
(* message.                                                                *)
(***************************************************************************)
EXTENDS Integers, FiniteSets

CONSTANTS Producers, Consumers, \* the processes of the two kinds
          Finalizer,            \* the one process that runs finalize
          Size,                 \* the number of slots
          MaxWrites,            \* bound: writes of a producer before the halt
          StartsOverlapHalt     \* may a process be starting when halt is raised?

ASSUME SizeAssumption == Size \in Nat \ {0}
ASSUME MaxWritesAssumption == MaxWrites \in Nat
ASSUME OverlapAssumption == StartsOverlapHalt \in BOOLEAN
ASSUME ProcessAssumption ==
  /\ IsFiniteSet(Producers) /\ IsFiniteSet(Consumers)
  /\ Producers \cap Consumers = {}
  /\ Finalizer \notin Producers \cup Consumers

Clients == Producers \cup Consumers
Writers == Producers \cup {Finalizer}
Processes == Clients \cup {Finalizer}
Ops == {"normal", "halt"}
Indices == 0 .. Size - 1

VARIABLES
  isHalted, nProd, nCons,                   \* shared_v
  slots, head, tail, count,                 \* the buffer and cb_metadata
  cbufferMut, buffUsed, buffFree,           \* semaphores of the buffer
  zeroProducers, zeroConsumers,             \* semaphores finalize waits for
  creator,      \* "running"; "exited" after the last event; "deaf" once a
                \* client took the acknowledgement the creator left behind
  pc,           \* where each process is
  reg,          \* the value a process loaded and will store back changed
  msg,          \* the op_code in a consumer's own message
  writes,       \* how many writes a producer began before the halt
  prodCtr, consCtr, halts   \* finalize: prod_ctr, cons_ctr and HALTs written

bufferVars == <<slots, head, tail, count>>
bufferSems == <<cbufferMut, buffUsed, buffFree>>
zeroSems == <<zeroProducers, zeroConsumers>>
counters == <<nProd, nCons>>
finalVars == <<prodCtr, consCtr, halts>>
localVars == <<reg, msg, writes>>
vars == <<isHalted, counters, bufferVars, bufferSems, zeroSems, creator, pc,
          localVars, finalVars>>

EnterPcs == {"connect", "register"}
PutPcs == {"test_halted", "test_full", "store_slot", "post_used"}
GetPcs == {"wait_mutex", "test_empty", "load_slot", "post_free"}
AccessPcs == {"load_index", "store_index", "load_count", "store_count", "send", "unheard"}
LeavePcs == {"unregister", "leave_halted", "leave_counter", "leave_post", "done"}
FinalPcs == {"raise_halt", "read_producers", "post_frees", "wait_producers",
             "read_consumers", "wait_consumers", "send_last", "wait_ack", "done"}

ProducerPcs == EnterPcs \cup {"wait_free"} \cup PutPcs \cup AccessPcs
                 \cup {"test_loop"} \cup LeavePcs
ConsumerPcs == EnterPcs \cup {"wait_used"} \cup GetPcs \cup AccessPcs
                 \cup {"test_msg"} \cup LeavePcs
FinalizerPcs == FinalPcs \cup {"wait_free"} \cup PutPcs \cup AccessPcs

(* init_shr_mem has run, the other processes have not.  The file is new,   *)
(* so its slots are zero and op_code 0 is NORMAL.                          *)
Init ==
  /\ isHalted = FALSE /\ nProd = 0 /\ nCons = 0
  /\ slots = [i \in Indices |-> "normal"]
  /\ head = 0 /\ tail = 0 /\ count = 0
  /\ cbufferMut = 1 /\ buffUsed = 0 /\ buffFree = Size
  /\ zeroProducers = 0 /\ zeroConsumers = 0
  /\ creator = "running"
  /\ pc = [p \in Processes |-> IF p = Finalizer THEN "raise_halt" ELSE "connect"]
  /\ reg = [p \in Processes |-> 0]
  /\ msg = [c \in Consumers |-> "normal"]
  /\ writes = [p \in Producers |-> 0]
  /\ prodCtr = 0 /\ consCtr = 0 /\ halts = 0

At(p, label) == pc[p] = label
Goto(p, label) == pc' = [pc EXCEPT ![p] = label]

-----------------------------------------------------------------------------
(* connect_shr_mem                                                         *)

Connect(p) ==
  /\ At(p, "connect")
  /\ Goto(p, IF isHalted THEN "done" ELSE "register")
  /\ UNCHANGED <<isHalted, counters, bufferVars, bufferSems, zeroSems, creator,
                 localVars, finalVars>>

\* The consumer's own message is malloc'd and not initialized.
Register(p) ==
  /\ At(p, "register")
  /\ IF p \in Producers
       THEN /\ nProd' = nProd + 1
            /\ Goto(p, "wait_free")
            /\ UNCHANGED <<nCons, msg>>
       ELSE /\ nCons' = nCons + 1
            /\ Goto(p, "wait_used")
            /\ \E op \in Ops : msg' = [msg EXCEPT ![p] = op]
            /\ UNCHANGED nProd
  /\ UNCHANGED <<isHalted, bufferVars, bufferSems, zeroSems, creator, reg,
                 writes, finalVars>>

-----------------------------------------------------------------------------
(* write_buff_msg, called by a producer or by finalize                     *)

\* A producer sleeps any time before it writes; MaxWrites bounds how often it
\* comes back before the halt.
WaitFree(p) ==
  /\ At(p, "wait_free")
  /\ p \in Producers => isHalted \/ writes[p] < MaxWrites
  /\ buffFree > 0
  /\ buffFree' = buffFree - 1
  /\ IF p \in Producers /\ ~isHalted
       THEN writes' = [writes EXCEPT ![p] = @ + 1]
       ELSE UNCHANGED writes
  /\ Goto(p, "test_halted")
  /\ UNCHANGED <<isHalted, counters, bufferVars, cbufferMut, buffUsed, zeroSems,
                 creator, reg, msg, finalVars>>

\* A halted producer returns at once and keeps the unit of buff_free it took.
\* The result of put_msg is not looked at, and no process waits for cbuffer_mut.
TestHalted(p) ==
  /\ At(p, "test_halted")
  /\ Goto(p, IF isHalted /\ p \in Producers THEN "test_loop" ELSE "test_full")
  /\ UNCHANGED <<isHalted, counters, bufferVars, bufferSems, zeroSems, creator,
                 localVars, finalVars>>

TestFull(p) ==
  /\ At(p, "test_full")
  /\ Goto(p, IF count = Size THEN "send" ELSE "store_slot")
  /\ UNCHANGED <<isHalted, counters, bufferVars, bufferSems, zeroSems, creator,
                 localVars, finalVars>>

StoreSlot(p) ==
  /\ At(p, "store_slot")
  /\ slots' = [slots EXCEPT ![tail] = IF p = Finalizer THEN "halt" ELSE "normal"]
  /\ Goto(p, "load_index")
  /\ UNCHANGED <<isHalted, counters, head, tail, count, bufferSems, zeroSems,
                 creator, localVars, finalVars>>

PostUsed(p) ==
  /\ At(p, "post_used")
  /\ cbufferMut' = cbufferMut + 1
  /\ buffUsed' = buffUsed + 1
  /\ IF p = Finalizer
       THEN /\ halts' = halts + 1
            /\ Goto(p, IF halts + 1 < consCtr THEN "wait_free" ELSE "wait_consumers")
       ELSE Goto(p, "test_loop") /\ UNCHANGED halts
  /\ UNCHANGED <<isHalted, counters, bufferVars, buffFree, zeroSems, creator,
                 localVars, prodCtr, consCtr>>

\* The end of the producer's loop: while (!halted).
TestLoop(p) ==
  /\ At(p, "test_loop")
  /\ Goto(p, IF isHalted THEN "unregister" ELSE "wait_free")
  /\ UNCHANGED <<isHalted, counters, bufferVars, bufferSems, zeroSems, creator,
                 localVars, finalVars>>

-----------------------------------------------------------------------------
(* read_buff_msg, called by a consumer                                     *)

WaitUsed(p) ==
  /\ At(p, "wait_used")
  /\ buffUsed > 0
  /\ buffUsed' = buffUsed - 1
  /\ Goto(p, "wait_mutex")
  /\ UNCHANGED <<isHalted, counters, bufferVars, cbufferMut, buffFree, zeroSems,
                 creator, localVars, finalVars>>

WaitMutex(p) ==
  /\ At(p, "wait_mutex")
  /\ cbufferMut > 0
  /\ cbufferMut' = cbufferMut - 1
  /\ Goto(p, "test_empty")
  /\ UNCHANGED <<isHalted, counters, bufferVars, buffUsed, buffFree, zeroSems,
                 creator, localVars, finalVars>>

\* When the buffer is empty get_msg fails, and the caller's message keeps the
\* content it had.
TestEmpty(p) ==
  /\ At(p, "test_empty")
  /\ Goto(p, IF count = 0 THEN "send" ELSE "load_slot")
  /\ UNCHANGED <<isHalted, counters, bufferVars, bufferSems, zeroSems, creator,
                 localVars, finalVars>>

LoadSlot(p) ==
  /\ At(p, "load_slot")
  /\ msg' = [msg EXCEPT ![p] = slots[head]]
  /\ Goto(p, "load_index")
  /\ UNCHANGED <<isHalted, counters, bufferVars, bufferSems, zeroSems, creator,
                 reg, writes, finalVars>>

\* Mutant: a consumer that found no message gives no slot back.
KeepUnitWhenEmpty(p) ==
  /\ At(p, "post_free")
  /\ cbufferMut' = cbufferMut + 1
  /\ buffFree' = IF count = 0 THEN buffFree ELSE buffFree + 1
  /\ Goto(p, "test_msg")
  /\ UNCHANGED <<isHalted, counters, bufferVars, buffUsed, zeroSems, creator,
                 localVars, finalVars>>

PostFree(p) ==
  /\ At(p, "post_free")
  /\ cbufferMut' = cbufferMut + 1
  /\ buffFree' = buffFree + 1
  /\ Goto(p, "test_msg")
  /\ UNCHANGED <<isHalted, counters, bufferVars, buffUsed, zeroSems, creator,
                 localVars, finalVars>>

\* The end of the consumer's loop: it stops at a HALT or at a matching key.
TestMsg(p) ==
  /\ At(p, "test_msg")
  /\ \E matches \in BOOLEAN :
       Goto(p, IF matches \/ msg[p] = "halt" THEN "unregister" ELSE "wait_used")
  /\ UNCHANGED <<isHalted, counters, bufferVars, bufferSems, zeroSems, creator,
                 localVars, finalVars>>

-----------------------------------------------------------------------------
(* The updates of cb_metadata that end put_msg and get_msg.  No lock is    *)
(* held over them, and neither ++ nor -- is atomic: load, then store.      *)

LoadIndex(p) ==
  /\ At(p, "load_index")
  /\ reg' = [reg EXCEPT ![p] = IF p \in Consumers THEN head ELSE tail]
  /\ Goto(p, "store_index")
  /\ UNCHANGED <<isHalted, counters, bufferVars, bufferSems, zeroSems, creator,
                 msg, writes, finalVars>>

\* Mutant: the indices do not wrap around.
RunPastTheEnd(p) ==
  /\ At(p, "store_index")
  /\ IF p \in Consumers
       THEN head' = reg[p] + 1 /\ UNCHANGED tail
       ELSE tail' = reg[p] + 1 /\ UNCHANGED head
  /\ reg' = [reg EXCEPT ![p] = 0]
  /\ Goto(p, "load_count")
  /\ UNCHANGED <<isHalted, counters, slots, count, bufferSems, zeroSems, creator,
                 msg, writes, finalVars>>

StoreIndex(p) ==
  /\ At(p, "store_index")
  /\ IF p \in Consumers
       THEN head' = (reg[p] + 1) % Size /\ UNCHANGED tail
       ELSE tail' = (reg[p] + 1) % Size /\ UNCHANGED head
  /\ reg' = [reg EXCEPT ![p] = 0]
  /\ Goto(p, "load_count")
  /\ UNCHANGED <<isHalted, counters, slots, count, bufferSems, zeroSems, creator,
                 msg, writes, finalVars>>

LoadCount(p) ==
  /\ At(p, "load_count")
  /\ reg' = [reg EXCEPT ![p] = count]
  /\ Goto(p, "store_count")
  /\ UNCHANGED <<isHalted, counters, bufferVars, bufferSems, zeroSems, creator,
                 msg, writes, finalVars>>

StoreCount(p) ==
  /\ At(p, "store_count")
  /\ count' = IF p \in Consumers THEN reg[p] - 1 ELSE reg[p] + 1
  /\ reg' = [reg EXCEPT ![p] = 0]
  /\ Goto(p, "send")
  /\ UNCHANGED <<isHalted, counters, slots, head, tail, bufferSems, zeroSems,
                 creator, msg, writes, finalVars>>

-----------------------------------------------------------------------------
(* send_event and the creator                                              *)

Deliver(p) ==
  /\ At(p, "send")
  /\ creator = "running"
  /\ Goto(p, IF p \in Consumers THEN "post_free" ELSE "post_used")
  /\ UNCHANGED <<isHalted, counters, bufferVars, bufferSems, zeroSems, creator,
                 localVars, finalVars>>

\* The creator left one unit in the semaphore: a sender that comes after it
\* takes the unit and waits for an answer that never comes.
SendInVain(p) ==
  /\ At(p, "send")
  /\ creator = "exited"
  /\ creator' = "deaf"
  /\ Goto(p, "unheard")
  /\ UNCHANGED <<isHalted, counters, bufferVars, bufferSems, zeroSems, localVars,
                 finalVars>>

-----------------------------------------------------------------------------
(* disconnect_shr_mem                                                      *)

\* Mutant: a process that leaves once the halt is set is not counted out.
UnregisterUnlessHalted(p) ==
  /\ At(p, "unregister")
  /\ IF isHalted
       THEN UNCHANGED counters
       ELSE IF p \in Producers
              THEN nProd' = nProd - 1 /\ UNCHANGED nCons
              ELSE nCons' = nCons - 1 /\ UNCHANGED nProd
  /\ Goto(p, "leave_halted")
  /\ UNCHANGED <<isHalted, bufferVars, bufferSems, zeroSems, creator, localVars,
                 finalVars>>

Unregister(p) ==
  /\ At(p, "unregister")
  /\ IF p \in Producers
       THEN nProd' = nProd - 1 /\ UNCHANGED nCons
       ELSE nCons' = nCons - 1 /\ UNCHANGED nProd
  /\ Goto(p, "leave_halted")
  /\ UNCHANGED <<isHalted, bufferVars, bufferSems, zeroSems, creator, localVars,
                 finalVars>>

LeaveHalted(p) ==
  /\ At(p, "leave_halted")
  /\ Goto(p, IF isHalted THEN "leave_counter" ELSE "done")
  /\ UNCHANGED <<isHalted, counters, bufferVars, bufferSems, zeroSems, creator,
                 localVars, finalVars>>

\* Mutants: the test compares with one; or is not made at all.
PostBeforeLast(p) ==
  /\ At(p, "leave_counter")
  /\ Goto(p, IF (IF p \in Producers THEN nProd ELSE nCons) = 1
               THEN "leave_post" ELSE "done")
  /\ UNCHANGED <<isHalted, counters, bufferVars, bufferSems, zeroSems, creator,
                 localVars, finalVars>>

PostAlways(p) ==
  /\ At(p, "leave_counter")
  /\ Goto(p, "leave_post")
  /\ UNCHANGED <<isHalted, counters, bufferVars, bufferSems, zeroSems, creator,
                 localVars, finalVars>>

LeaveCounter(p) ==
  /\ At(p, "leave_counter")
  /\ Goto(p, IF (IF p \in Producers THEN nProd ELSE nCons) = 0
               THEN "leave_post" ELSE "done")
  /\ UNCHANGED <<isHalted, counters, bufferVars, bufferSems, zeroSems, creator,
                 localVars, finalVars>>

LeavePost(p) ==
  /\ At(p, "leave_post")
  /\ IF p \in Producers
       THEN zeroProducers' = zeroProducers + 1 /\ UNCHANGED zeroConsumers
       ELSE zeroConsumers' = zeroConsumers + 1 /\ UNCHANGED zeroProducers
  /\ Goto(p, "done")
  /\ UNCHANGED <<isHalted, counters, bufferVars, bufferSems, creator, localVars,
                 finalVars>>

-----------------------------------------------------------------------------
(* finalize                                                                *)

\* Unless StartsOverlapHalt, the finalizer is started while no other process
\* is between its test of is_halted and its registration.
RaiseHalt ==
  /\ At(Finalizer, "raise_halt")
  /\ StartsOverlapHalt \/ \A p \in Clients : ~At(p, "register")
  /\ isHalted' = TRUE
  /\ Goto(Finalizer, "read_producers")
  /\ UNCHANGED <<counters, bufferVars, bufferSems, zeroSems, creator, localVars,
                 finalVars>>

ReadProducers ==
  /\ At(Finalizer, "read_producers")
  /\ prodCtr' = nProd
  /\ Goto(Finalizer, IF nProd > 0 THEN "post_frees" ELSE "read_consumers")
  /\ UNCHANGED <<isHalted, counters, bufferVars, bufferSems, zeroSems, creator,
                 localVars, consCtr, halts>>

\* Mutant: finalize posts one unit, as if one producer waited.
PostOneFree ==
  /\ At(Finalizer, "post_frees")
  /\ buffFree' = buffFree + 1
  /\ Goto(Finalizer, "wait_producers")
  /\ UNCHANGED <<isHalted, counters, bufferVars, cbufferMut, buffUsed, zeroSems,
                 creator, localVars, finalVars>>

PostFrees ==
  /\ At(Finalizer, "post_frees")
  /\ buffFree' = buffFree + prodCtr
  /\ Goto(Finalizer, "wait_producers")
  /\ UNCHANGED <<isHalted, counters, bufferVars, cbufferMut, buffUsed, zeroSems,
                 creator, localVars, finalVars>>

WaitProducers ==
  /\ At(Finalizer, "wait_producers")
  /\ zeroProducers > 0
  /\ zeroProducers' = zeroProducers - 1
  /\ Goto(Finalizer, "read_consumers")
  /\ UNCHANGED <<isHalted, counters, bufferVars, bufferSems, zeroConsumers,
                 creator, localVars, finalVars>>

ReadConsumers ==
  /\ At(Finalizer, "read_consumers")
  /\ consCtr' = nCons
  /\ Goto(Finalizer, IF nCons > 0 THEN "wait_free" ELSE "send_last")
  /\ UNCHANGED <<isHalted, counters, bufferVars, bufferSems, zeroSems, creator,
                 localVars, prodCtr, halts>>

\* Mutant: finalize does not wait for the consumers.
DoNotWaitConsumers ==
  /\ At(Finalizer, "wait_consumers")
  /\ Goto(Finalizer, "send_last")
  /\ UNCHANGED <<isHalted, counters, bufferVars, bufferSems, zeroSems, creator,
                 localVars, finalVars>>

WaitConsumers ==
  /\ At(Finalizer, "wait_consumers")
  /\ zeroConsumers > 0
  /\ zeroConsumers' = zeroConsumers - 1
  /\ Goto(Finalizer, "send_last")
  /\ UNCHANGED <<isHalted, counters, bufferVars, bufferSems, zeroProducers,
                 creator, localVars, finalVars>>

DeliverLast ==
  /\ At(Finalizer, "send_last")
  /\ creator = "running"
  /\ creator' = "exited"
  /\ Goto(Finalizer, "wait_ack")
  /\ UNCHANGED <<isHalted, counters, bufferVars, bufferSems, zeroSems, localVars,
                 finalVars>>

\* The finalizer takes the creator's unit and puts it back.
AckLast ==
  /\ At(Finalizer, "wait_ack")
  /\ creator = "exited"
  /\ Goto(Finalizer, "done")
  /\ UNCHANGED <<isHalted, counters, bufferVars, bufferSems, zeroSems, creator,
                 localVars, finalVars>>

-----------------------------------------------------------------------------
Write(p) ==
  \/ WaitFree(p) \/ TestHalted(p) \/ TestFull(p) \/ StoreSlot(p) \/ PostUsed(p)
Read(p) ==
  \/ WaitUsed(p) \/ WaitMutex(p) \/ TestEmpty(p) \/ LoadSlot(p) \/ PostFree(p)
Access(p) ==
  \/ LoadIndex(p) \/ StoreIndex(p) \/ LoadCount(p) \/ StoreCount(p)
  \/ Deliver(p) \/ SendInVain(p)
Leave(p) ==
  \/ Unregister(p) \/ LeaveHalted(p) \/ LeaveCounter(p) \/ LeavePost(p)

Producer(p) == Register(p) \/ Write(p) \/ Access(p) \/ TestLoop(p) \/ Leave(p)
Consumer(p) == Register(p) \/ Read(p) \/ Access(p) \/ TestMsg(p) \/ Leave(p)
Finalize ==
  \/ ReadProducers \/ PostFrees \/ WaitProducers
  \/ ReadConsumers \/ Write(Finalizer) \/ Access(Finalizer) \/ WaitConsumers
  \/ DeliverLast \/ AckLast

Next ==
  \/ \E p \in Clients : Connect(p)
  \/ \E p \in Producers : Producer(p)
  \/ \E p \in Consumers : Consumer(p)
  \/ RaiseHalt
  \/ Finalize

Spec == Init /\ [][Next]_vars

\* Every process that has started goes on whenever it can, the creator answers
\* every event, and sleeps end.  Nobody is obliged to start: neither a client
\* nor the finalizer.
FairSpec ==
  /\ Spec
  /\ \A p \in Producers : WF_vars(Producer(p))
  /\ \A p \in Consumers : WF_vars(Consumer(p))
  /\ WF_vars(Finalize)

-----------------------------------------------------------------------------
TypeOK ==
  /\ isHalted \in BOOLEAN
  /\ nProd \in Nat /\ nCons \in Nat
  /\ slots \in [Indices -> Ops]
  /\ head \in Indices /\ tail \in Indices /\ count \in Int
  /\ cbufferMut \in Nat /\ buffUsed \in Nat /\ buffFree \in Nat
  /\ zeroProducers \in Nat /\ zeroConsumers \in Nat
  /\ creator \in {"running", "exited", "deaf"}
  /\ pc \in [Processes -> ProducerPcs \cup ConsumerPcs \cup FinalizerPcs]
  /\ \A p \in Producers : pc[p] \in ProducerPcs
  /\ \A c \in Consumers : pc[c] \in ConsumerPcs
  /\ pc[Finalizer] \in FinalizerPcs
  /\ reg \in [Processes -> Int]
  /\ \A p \in Processes : pc[p] = "store_index" => reg[p] \in Indices
  /\ msg \in [Consumers -> Ops]
  /\ writes \in [Producers -> 0 .. MaxWrites]
  /\ prodCtr \in Nat /\ consCtr \in Nat /\ halts \in Nat

\* The processes that have registered and not unregistered.
Alive(kind) ==
  {p \in kind : pc[p] \notin EnterPcs \cup (LeavePcs \ {"unregister"})}

\* The processes that have unregistered after the halt and may still post.
MayPost(kind) ==
  {p \in kind : pc[p] \in {"leave_counter", "leave_post"}
                  \/ (pc[p] = "leave_halted" /\ isHalted)}

\* The processes that took a unit of buff_free or buff_used and have not
\* passed it on.
InUse == {p \in Processes : pc[p] \in PutPcs \cup GetPcs \cup AccessPcs}

\* The producers that the halt makes leave, and those that have left.
Leaving ==
  {p \in Producers : pc[p] \in LeavePcs \/ (pc[p] = "test_loop" /\ isHalted)}

Units == buffFree + buffUsed + Cardinality(InUse)
Extra == IF pc[Finalizer] = "post_frees" THEN 0 ELSE prodCtr

(* A unit that leaves buff_free comes back through buff_used, however the  *)
(* accesses interleave: Size units before the halt.  After it, finalize    *)
(* adds one per producer it counted, and only producers that leave because *)
(* of the halt may drop one (sync.c:489-491).                              *)
UnitsConserved ==
  /\ ~isHalted => Units = Size
  /\ Units <= Size + Extra
  /\ Size + Extra <= Units + Cardinality(Leaving)

(* n_prod and n_cons are the processes between register and unregister.    *)
CountersExact ==
  /\ nProd = Cardinality(Alive(Producers))
  /\ nCons = Cardinality(Alive(Consumers))

(* finalize never waits for a post that nobody will make: while it waits,  *)
(* or is on its way to wait, there is a post already, or a process that is *)
(* still registered, or one that left after the halt and has yet to look   *)
(* at the counter.  So the test of is_halted in disconnect_shr_mem, after  *)
(* the counter is decremented, misses no finalizer (sync.c:432-453).       *)
NoLostWakeup ==
  /\ pc[Finalizer] \in {"post_frees", "wait_producers"} /\ zeroProducers = 0 =>
       Alive(Producers) \cup MayPost(Producers) # {}
  /\ consCtr > 0 /\ pc[Finalizer] \notin {"send_last", "wait_ack", "done"}
       /\ zeroConsumers = 0 =>
       Alive(Consumers) \cup MayPost(Consumers) # {}

(* While finalize waits for the producers, buff_free holds a unit for each *)
(* producer that has still to return from its wait: this is what the posts *)
(* of sync.c:631-633 are for, also when the buffer is full.                *)
EveryProducerCanWake ==
  pc[Finalizer] = "wait_producers" =>
    buffFree >= Cardinality({p \in Producers : pc[p] = "wait_free"})

BeforeConsumers == {"raise_halt", "read_producers", "post_frees", "wait_producers"}

(* finalize does what its comment lists (sync.c:596-607): no producer is   *)
(* registered when it turns to the consumers, and no process at all when   *)
(* it sends the last event.                                                *)
StopsInOrder ==
  /\ pc[Finalizer] \notin BeforeConsumers => nProd = 0
  /\ pc[Finalizer] \in {"send_last", "wait_ack", "done"} => nCons = 0

(* Nobody accesses the buffer or calls send_event once the creator is gone.*)
QuietAfterLast == creator # "running" => InUse = {}

(* From the comment at sync.c:411, "If halt is set, do not accept more     *)
(* processes of any type".                                                 *)
NoneAcceptedAfterHalt == [][isHalted => nProd' <= nProd /\ nCons' <= nCons]_vars

(* Once the finalizer has raised the halt, every producer leaves.          *)
ProducersStop == isHalted ~> nProd = 0

(* From steps 4 to 6 of the comment at sync.c:596-607: once it has begun,  *)
(* finalize comes to its end.                                              *)
FinalizeEnds == isHalted ~> pc[Finalizer] = "done"
=============================================================================
