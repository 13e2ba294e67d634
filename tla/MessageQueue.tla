---------------------------- MODULE MessageQueue ----------------------------
(***************************************************************************)
(* What a buffer of project_2 promises to one caller at a time: a bounded  *)
(* first-in first-out queue of messages that refuses a message when it is  *)
(* full and refuses to give one when it is empty.                          *)
(***************************************************************************)
EXTENDS Naturals, Sequences

CONSTANTS Size,         \* the number of messages the queue holds
          Messages,     \* the messages
          NoMessage     \* what a caller holds before its first read

VARIABLES queue,        \* the stored messages, oldest first
          taken,        \* the message given out most recently
          status        \* "ok" or "fail", the outcome of the last call

vars == <<queue, taken, status>>

Init ==
  /\ queue = <<>>
  /\ taken = NoMessage
  /\ status = "ok"

Put(m) ==
  /\ UNCHANGED taken
  /\ IF Len(queue) < Size
       THEN queue' = Append(queue, m) /\ status' = "ok"
       ELSE UNCHANGED queue /\ status' = "fail"

Get ==
  IF queue # <<>>
    THEN taken' = Head(queue) /\ queue' = Tail(queue) /\ status' = "ok"
    ELSE UNCHANGED <<queue, taken>> /\ status' = "fail"

Next == Get \/ \E m \in Messages : Put(m)

Spec == Init /\ [][Next]_vars
=============================================================================
