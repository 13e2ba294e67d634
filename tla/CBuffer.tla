------------------------------ MODULE CBuffer ------------------------------
(***************************************************************************)
(* The circular buffer of project_2 (sync/cbuffer.c), called by one        *)
(* process at a time: cb_metadata and the slots of shared memory.          *)
(*                                                                         *)
(* put_msg and get_msg are whole here.  SharedBuffer has the same code     *)
(* one memory access at a time, for the processes that call it together.   *)
(***************************************************************************)
EXTENDS Naturals, Sequences

CONSTANTS Size,         \* cb_metadata.size, the creator's second argument
          Messages,     \* the contents of a buff_msg, its flag "valid" apart
          NoMessage     \* the content of a slot nobody wrote to

ASSUME SizeAssumption == Size \in Nat \ {0}
ASSUME NoMessageAssumption == NoMessage \notin Messages

Indices == 0 .. Size - 1
BuffMsg == [valid : BOOLEAN, content : Messages \cup {NoMessage}]

VARIABLES slots,        \* buffer[], in shared memory
          head, tail,   \* indices of the next read and of the next write
          count,        \* the number of stored messages
          msg,          \* the caller's own message, filled by get_msg
          status        \* what the last call returned

vars == <<slots, head, tail, count, msg, status>>

(* init_cbuffer over the zeroed file of init_mmap.                         *)
Init ==
  /\ slots = [i \in Indices |-> [valid |-> FALSE, content |-> NoMessage]]
  /\ head = 0
  /\ tail = 0
  /\ count = 0
  /\ msg = [valid |-> FALSE, content |-> NoMessage]
  /\ status = "ok"

is_buff_empty == count = 0

is_buff_full == count = Size

\* Mutant: get_msg leaves the flag of the slot set.
GetKeepsValid ==
  IF is_buff_empty
    THEN status' = "fail" /\ UNCHANGED <<slots, head, tail, count, msg>>
    ELSE /\ msg' = slots[head]
         /\ head' = (head + 1) % Size
         /\ count' = count - 1
         /\ status' = "ok"
         /\ UNCHANGED <<slots, tail>>

\* Mutant: get_msg reads from the tail.
GetNewest ==
  IF is_buff_empty
    THEN status' = "fail" /\ UNCHANGED <<slots, head, tail, count, msg>>
    ELSE /\ slots' = [slots EXCEPT ![tail].valid = FALSE]
         /\ msg' = slots'[tail]
         /\ head' = (head + 1) % Size
         /\ count' = count - 1
         /\ status' = "ok"
         /\ UNCHANGED tail

\* The flag is cleared before the copy, so the caller's message is not valid.
get_msg ==
  IF is_buff_empty
    THEN status' = "fail" /\ UNCHANGED <<slots, head, tail, count, msg>>
    ELSE /\ slots' = [slots EXCEPT ![head].valid = FALSE]
         /\ msg' = slots'[head]
         /\ head' = (head + 1) % Size
         /\ count' = count - 1
         /\ status' = "ok"
         /\ UNCHANGED tail

put_msg(m) ==
  IF is_buff_full
    THEN status' = "fail" /\ UNCHANGED <<slots, head, tail, count, msg>>
    ELSE /\ slots' = [slots EXCEPT ![tail] = [valid |-> TRUE, content |-> m]]
         /\ tail' = (tail + 1) % Size
         /\ count' = count + 1
         /\ status' = "ok"
         /\ UNCHANGED <<head, msg>>

Next == get_msg \/ \E m \in Messages : put_msg(m)

Spec == Init /\ [][Next]_vars

-----------------------------------------------------------------------------
TypeOK ==
  /\ slots \in [Indices -> BuffMsg]
  /\ head \in Indices
  /\ tail \in Indices
  /\ count \in 0 .. Size
  /\ msg \in BuffMsg
  /\ status \in {"ok", "fail"}

\* The slots between head and tail, those that hold unread messages.
Window == {(head + k) % Size : k \in 0 .. count - 1}

\* The slots that the creator's window shows as messages; the others are EMPTY.
Shown == {i \in Indices : slots[i].valid}

(* The creator draws the slots whose flag is set (creator/ui.c:185): they  *)
(* are exactly the unread ones, also when the window wraps around, when    *)
(* it covers every slot and head = tail, and when it is empty.             *)
ShownIsUnread == Shown = Window

-----------------------------------------------------------------------------
Queue == INSTANCE MessageQueue WITH
           queue <- [k \in 1 .. count |-> slots[(head + k - 1) % Size].content],
           taken <- msg.content

(* The circular buffer implements the queue: messages leave in the order   *)
(* they came, none is lost, duplicated or overwritten before it is read.   *)
ImplementsQueue == Queue!Spec
=============================================================================
