--------------------------- MODULE EventDelivery ---------------------------
(***************************************************************************)
(* What the event channel of project_2 promises to its callers, without    *)
(* saying how: send_event is a rendezvous with the creator.                *)
(*                                                                         *)
(*  - a call delivers its own event to the creator, exactly once;          *)
(*  - the call returns only after that delivery;                           *)
(*  - nothing is delivered after an event whose flag "last" is set.        *)
(*                                                                         *)
(* EventChannel, the semaphore protocol of sync/events.c, implements it,   *)
(* and SharedBuffer uses it in place of the protocol.                      *)
(***************************************************************************)
EXTENDS Sequences

CONSTANTS Senders,      \* the processes that call send_event
          Events,       \* the values of event_t
          NoEvent       \* the value of an event nobody has built yet

VARIABLES state,        \* state[s]: how far the call of sender s has come
          arg,          \* arg[s]: the event that call was given
          log           \* the events the creator received, in order

vars == <<state, arg, log>>

Init ==
  /\ state = [s \in Senders |-> "idle"]
  /\ arg = [s \in Senders |-> NoEvent]
  /\ log = <<>>

Closed == log # <<>> /\ log[Len(log)].last

Call(s) ==
  /\ state[s] = "idle"
  /\ arg'[s] \in Events
  /\ arg' = [arg EXCEPT ![s] = arg'[s]]
  /\ state' = [state EXCEPT ![s] = "calling"]
  /\ UNCHANGED log

Deliver(s) ==
  /\ state[s] = "calling"
  /\ ~Closed
  /\ log' = Append(log, arg[s])
  /\ state' = [state EXCEPT ![s] = "delivered"]
  /\ UNCHANGED arg

Return(s) ==
  /\ state[s] = "delivered"
  /\ state' = [state EXCEPT ![s] = "idle"]
  /\ UNCHANGED <<arg, log>>

Next == \E s \in Senders : Call(s) \/ Deliver(s) \/ Return(s)

Spec == Init /\ [][Next]_vars
=============================================================================
