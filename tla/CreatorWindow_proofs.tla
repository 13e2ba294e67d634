------------------------ MODULE CreatorWindow_proofs ------------------------
(***************************************************************************)
(* Proofs about CBuffer and CreatorWindow, for every size and every set of *)
(* messages: called by one process at a time, the circular buffer is a     *)
(* queue and its valid slots are the unread messages.  For any number of   *)
(* processes whose accesses overlap, the creator's window shows the buffer *)
(* as it is when all is at rest.                                           *)
(***************************************************************************)
EXTENDS CreatorWindow, SequenceTheorems, TLAPS

-----------------------------------------------------------------------------
(* CBuffer: the slots between head and tail                                *)

\* The slot k places after h, without a division.
Place(h, k) == IF h + k < Size THEN h + k ELSE h + k - Size

LEMMA WrapAround ==
  ASSUME NEW h \in Indices, NEW k \in 0 .. Size
  PROVE  (h + k) % Size = Place(h, k) /\ Place(h, k) \in Indices
<1>1. ASSUME NEW x \in Nat, x < Size PROVE x % Size = x
  BY <1>1, SizeAssumption
<1>2. ASSUME NEW x \in Nat, x >= Size, x < 2 * Size PROVE x % Size = x - Size
  BY <1>2, SizeAssumption
<1>3. h + k \in Nat /\ h + k < 2 * Size
  BY SizeAssumption DEF Indices
<1> QED
  BY <1>1, <1>2, <1>3, SizeAssumption DEF Place, Indices

(* The distance from head to tail is count, and the valid slots are those  *)
(* in between.                                                             *)
WindowInv ==
  /\ tail = Place(head, count)
  /\ \A k \in 0 .. Size - 1 : slots[Place(head, k)].valid <=> k < count

IInv == TypeOK /\ WindowInv

\* Every slot is Place(h, k) for exactly one k.
LEMMA Unwrap ==
  ASSUME NEW h \in Indices, NEW i \in Indices
  PROVE  /\ \E k \in 0 .. Size - 1 : i = Place(h, k)
         /\ \A j, k \in 0 .. Size - 1 : Place(h, j) = Place(h, k) => j = k
<1>1. \E k \in 0 .. Size - 1 : i = Place(h, k)
  <2>1. CASE i >= h
    <3>1. i - h \in 0 .. Size - 1 /\ i = Place(h, i - h)
      BY <2>1, SizeAssumption DEF Indices, Place
    <3> QED
      BY <3>1
  <2>2. CASE i < h
    <3>1. i - h + Size \in 0 .. Size - 1 /\ i = Place(h, i - h + Size)
      BY <2>2, SizeAssumption DEF Indices, Place
    <3> QED
      BY <3>1
  <2> QED
    BY <2>1, <2>2, SizeAssumption DEF Indices
<1>2. \A j, k \in 0 .. Size - 1 : Place(h, j) = Place(h, k) => j = k
  BY SizeAssumption DEF Indices, Place
<1> QED
  BY <1>1, <1>2

\* Append and Tail, element by element.
LEMMA AppendElements ==
  ASSUME NEW S, NEW q \in Seq(S), NEW e \in S
  PROVE  Append(q, e) = [k \in 1 .. Len(q) + 1 |-> IF k = Len(q) + 1 THEN e ELSE q[k]]
<1> DEFINE r == [k \in 1 .. Len(q) + 1 |-> IF k = Len(q) + 1 THEN e ELSE q[k]]
<1>1. r \in Seq(S) /\ Len(r) = Len(q) + 1
  BY LenProperties, ElementOfSeq
<1>2. Append(q, e) \in Seq(S) /\ Len(Append(q, e)) = Len(q) + 1
  OBVIOUS
<1>3. \A k \in 1 .. Len(q) + 1 : Append(q, e)[k] = r[k]
  OBVIOUS
<1> HIDE DEF r
<1>4. Append(q, e) = r
  BY <1>1, <1>2, <1>3, SeqEqual
<1> QED
  BY <1>4 DEF r

LEMMA TailElements ==
  ASSUME NEW S, NEW q \in Seq(S), q # <<>>
  PROVE  Tail(q) = [k \in 1 .. Len(q) - 1 |-> q[k + 1]]
<1> DEFINE r == [k \in 1 .. Len(q) - 1 |-> q[k + 1]]
<1>1. Len(q) \in Nat /\ Len(q) > 0
  BY EmptySeq, LenProperties
<1>2. r \in Seq(S) /\ Len(r) = Len(q) - 1
  BY <1>1, ElementOfSeq
<1>3. Tail(q) \in Seq(S) /\ Len(Tail(q)) = Len(q) - 1
  BY HeadTailProperties
<1>4. \A k \in 1 .. Len(q) - 1 : Tail(q)[k] = r[k]
  BY <1>3, HeadTailProperties
<1> HIDE DEF r
<1>5. Tail(q) = r
  BY <1>2, <1>3, <1>4, SeqEqual
<1> QED
  BY <1>5 DEF r

LEMMA InitIInv == Init => IInv
BY SizeAssumption DEF Init, IInv, TypeOK, WindowInv, Indices, BuffMsg, Place

LEMMA GetStep == IInv /\ get_msg => IInv'
<1> SUFFICES ASSUME IInv, get_msg PROVE IInv'
  OBVIOUS
<1> USE SizeAssumption DEF IInv, TypeOK
<1>1. CASE is_buff_empty
  BY <1>1 DEF get_msg, WindowInv, Place
<1>2. CASE ~is_buff_empty
  <2>1. /\ slots' = [slots EXCEPT ![head].valid = FALSE]
        /\ msg' = slots'[head]
        /\ head' = (head + 1) % Size
        /\ count' = count - 1
        /\ status' = "ok"
        /\ tail' = tail
    BY <1>2 DEF get_msg
  <2>2. count \in 1 .. Size
    BY <1>2 DEF is_buff_empty
  <2>3. head' = Place(head, 1) /\ head' \in Indices
    BY <2>1, WrapAround
  <2>4. slots' \in [Indices -> BuffMsg]
    BY <2>1 DEF BuffMsg
  <2>5. TypeOK'
    BY <2>1, <2>2, <2>3, <2>4
  <2>6. tail' = Place(head', count')
    <3>1. Place(Place(head, 1), count - 1) = Place(head, count)
      BY <2>2 DEF Place, Indices
    <3> QED
      BY <2>1, <2>3, <3>1 DEF WindowInv
  <2>7. ASSUME NEW k \in 0 .. Size - 1
        PROVE  slots'[Place(head', k)].valid <=> k < count'
    <3>1. CASE k = Size - 1
      <4>1. Place(head', k) = head
        BY <2>3, <3>1 DEF Place, Indices
      <4> QED
        BY <2>1, <2>2, <3>1, <4>1 DEF BuffMsg
    <3>2. CASE k < Size - 1
      <4>1. Place(head', k) = Place(head, k + 1) /\ Place(head, k + 1) # head
        BY <2>3, <3>2 DEF Place, Indices
      <4>2. Place(head, k + 1) \in Indices
        BY <3>2 DEF Place, Indices
      <4>3. slots[Place(head, k + 1)].valid <=> k + 1 < count
        BY <3>2 DEF WindowInv
      <4> QED
        BY <2>1, <2>2, <4>1, <4>2, <4>3
    <3> QED
      BY <3>1, <3>2
  <2> QED
    BY <2>5, <2>6, <2>7 DEF WindowInv
<1> QED
  BY <1>1, <1>2

LEMMA PutStep == ASSUME NEW m \in Messages PROVE IInv /\ put_msg(m) => IInv'
<1> SUFFICES ASSUME IInv, put_msg(m) PROVE IInv'
  OBVIOUS
<1> USE SizeAssumption DEF IInv, TypeOK
<1>1. CASE is_buff_full
  BY <1>1 DEF put_msg, WindowInv, Place
<1>2. CASE ~is_buff_full
  <2>1. /\ slots' = [slots EXCEPT ![tail] = [valid |-> TRUE, content |-> m]]
        /\ tail' = (tail + 1) % Size
        /\ count' = count + 1
        /\ status' = "ok"
        /\ head' = head /\ msg' = msg
    BY <1>2 DEF put_msg
  <2>2. count \in 0 .. Size - 1
    BY <1>2 DEF is_buff_full
  <2>3. tail' = Place(tail, 1) /\ tail' \in Indices
    BY <2>1, WrapAround
  <2>4. slots' \in [Indices -> BuffMsg]
    BY <2>1 DEF BuffMsg
  <2>5. TypeOK'
    BY <2>1, <2>2, <2>3, <2>4
  <2>6. tail' = Place(head', count')
    <3>1. Place(Place(head, count), 1) = Place(head, count + 1)
      BY <2>2 DEF Place, Indices
    <3> QED
      BY <2>1, <2>3, <3>1 DEF WindowInv
  <2>7. ASSUME NEW k \in 0 .. Size - 1
        PROVE  slots'[Place(head', k)].valid <=> k < count'
    <3>1. Place(head, k) \in Indices
      BY DEF Place, Indices
    <3>2. Place(head, k) = tail <=> k = count
      BY <2>2, Unwrap DEF WindowInv
    <3>3. slots[Place(head, k)].valid <=> k < count
      BY DEF WindowInv
    <3> QED
      BY <2>1, <2>2, <3>1, <3>2, <3>3
  <2> QED
    BY <2>5, <2>6, <2>7 DEF WindowInv
<1> QED
  BY <1>1, <1>2

LEMMA StepIInv == IInv /\ [Next]_vars => IInv'
<1>1. IInv /\ UNCHANGED vars => IInv'
  BY DEF IInv, TypeOK, WindowInv, Place, vars
<1> QED
  BY <1>1, GetStep, PutStep DEF Next

(* The window invariant is inductive.                                      *)
THEOREM InductiveInvariant == Spec => []IInv
BY InitIInv, StepIInv, PTL DEF Spec

(* Type correctness of the buffer: the indices stay inside the buffer and  *)
(* count between 0 and size.                                               *)
THEOREM TypeCorrect == Spec => []TypeOK
BY InductiveInvariant, PTL DEF IInv

\* The slots marked valid are those of the window.
LEMMA WindowShown == IInv => ShownIsUnread
<1> SUFFICES ASSUME IInv PROVE Shown = Window
  BY DEF ShownIsUnread
<1> USE SizeAssumption DEF IInv, TypeOK
<1>1. ASSUME NEW i \in Shown PROVE i \in Window
  <2>1. PICK k \in 0 .. Size - 1 : i = Place(head, k)
    BY <1>1, Unwrap DEF Shown
  <2>2. k < count
    BY <1>1, <2>1 DEF Shown, WindowInv
  <2>3. i = (head + k) % Size
    BY <2>1, WrapAround
  <2> QED
    BY <2>2, <2>3 DEF Window
<1>2. ASSUME NEW i \in Window PROVE i \in Shown
  <2>1. PICK k \in 0 .. count - 1 : i = (head + k) % Size
    BY <1>2 DEF Window
  <2>2. k \in 0 .. Size - 1 /\ k < count
    OBVIOUS
  <2>3. i = Place(head, k) /\ i \in Indices
    BY <2>1, <2>2, WrapAround
  <2> QED
    BY <2>2, <2>3 DEF Shown, WindowInv
<1> QED
  BY <1>1, <1>2

(* The creator's window shows exactly the unread messages (ui.c:185).      *)
THEOREM ShowsTheUnread == Spec => []ShownIsUnread
BY WindowShown, InductiveInvariant, PTL

-----------------------------------------------------------------------------
(* CBuffer, refinement: put_msg and get_msg are Put and Get of the queue   *)

Stored == [k \in 1 .. count |-> slots[(head + k - 1) % Size].content]

LEMMA StoredIndex ==
  ASSUME NEW h \in Indices, NEW n \in 0 .. Size, NEW k \in 1 .. n
  PROVE  (h + k - 1) % Size = Place(h, k - 1) /\ Place(h, k - 1) \in Indices
<1>1. k - 1 \in 0 .. Size /\ h + k - 1 = h + (k - 1)
  BY SizeAssumption DEF Indices
<1> QED
  BY <1>1, WrapAround

LEMMA StoredAt ==
  ASSUME IInv
  PROVE  /\ Stored \in Seq(Messages \cup {NoMessage})
         /\ Len(Stored) = count
         /\ Stored = [k \in 1 .. count |-> slots[Place(head, k - 1)].content]
<1> USE SizeAssumption DEF IInv, TypeOK
<1>1. ASSUME NEW k \in 1 .. count
      PROVE  (head + k - 1) % Size = Place(head, k - 1) /\ Place(head, k - 1) \in Indices
  BY StoredIndex
<1>2. Stored = [k \in 1 .. count |-> slots[Place(head, k - 1)].content]
  BY <1>1 DEF Stored
<1>3. \A k \in 1 .. count : slots[Place(head, k - 1)].content \in Messages \cup {NoMessage}
  BY <1>1 DEF BuffMsg
<1> QED
  BY <1>2, <1>3

LEMMA InitRefines == Init => Queue!Init
BY SizeAssumption DEF Init, Queue!Init, Stored

LEMMA PutRefines == ASSUME NEW m \in Messages, IInv, put_msg(m) PROVE Queue!Put(m)
<1> USE SizeAssumption DEF IInv, TypeOK
<1>1. IInv'
  BY PutStep
<1>2. CASE is_buff_full
  <2>1. ~(Len(Stored) < Size) /\ Stored' = Stored
    BY <1>2, StoredAt DEF is_buff_full, put_msg, Stored
  <2> QED
    BY <1>2, <2>1 DEF put_msg, Queue!Put, Stored
<1>3. CASE ~is_buff_full
  <2>1. /\ slots' = [slots EXCEPT ![tail] = [valid |-> TRUE, content |-> m]]
        /\ count' = count + 1 /\ head' = head
        /\ status' = "ok" /\ msg' = msg
    BY <1>3 DEF put_msg
  <2>2. count \in 0 .. Size - 1 /\ Len(Stored) < Size
    BY <1>3, StoredAt DEF is_buff_full
  <2>3. Stored' = [k \in 1 .. count + 1 |-> slots'[Place(head, k - 1)].content]
    BY <2>1, <2>2, StoredIndex DEF Stored
  <2>4. ASSUME NEW k \in 1 .. count + 1
        PROVE  slots'[Place(head, k - 1)].content
                 = IF k = count + 1 THEN m ELSE slots[Place(head, k - 1)].content
    <3>1. Place(head, k - 1) \in Indices
      BY <2>2 DEF Place, Indices
    <3>2. k - 1 \in 0 .. Size - 1 /\ (Place(head, k - 1) = tail <=> k = count + 1)
      BY <2>2, Unwrap DEF WindowInv
    <3> QED
      BY <2>1, <3>1, <3>2
  <2>5. Stored' = Append(Stored, m)
    <3>1. \A k \in 1 .. count : slots[Place(head, k - 1)].content = Stored[k]
      BY StoredAt
    <3>2. \A k \in 1 .. count + 1 : slots'[Place(head, k - 1)].content
                                     = IF k = count + 1 THEN m ELSE Stored[k]
      <4>1. \A k \in 1 .. count + 1 : k = count + 1 \/ k \in 1 .. count
        BY <2>2
      <4> QED
        BY <2>4, <3>1, <4>1
    <3>3. Stored' = [k \in 1 .. count + 1 |-> IF k = count + 1 THEN m ELSE Stored[k]]
      BY <2>3, <3>2
    <3>4. Append(Stored, m) = [k \in 1 .. Len(Stored) + 1 |->
                                 IF k = Len(Stored) + 1 THEN m ELSE Stored[k]]
      <4>1. Stored \in Seq(Messages \cup {NoMessage}) /\ m \in Messages \cup {NoMessage}
        BY StoredAt
      <4> QED
        BY <4>1, AppendElements
    <3>5. Len(Stored) = count
      BY StoredAt
    <3> QED
      BY <3>3, <3>4, <3>5
  <2> QED
    BY <2>1, <2>2, <2>5 DEF Queue!Put, Stored
<1> QED
  BY <1>2, <1>3

LEMMA GetRefines == ASSUME IInv, get_msg PROVE Queue!Get
<1> USE SizeAssumption DEF IInv, TypeOK
<1>1. IInv'
  BY GetStep
<1>2. CASE is_buff_empty
  <2>1. Stored = <<>> /\ Stored' = Stored
    BY <1>2, StoredAt DEF is_buff_empty, get_msg, Stored
  <2> QED
    BY <1>2, <2>1 DEF get_msg, Queue!Get, Stored
<1>3. CASE ~is_buff_empty
  <2>1. /\ slots' = [slots EXCEPT ![head].valid = FALSE]
        /\ msg' = slots'[head]
        /\ head' = (head + 1) % Size
        /\ count' = count - 1 /\ status' = "ok"
    BY <1>3 DEF get_msg
  <2>2. count \in 1 .. Size /\ Stored # <<>>
    BY <1>3, StoredAt DEF is_buff_empty
  <2>3. head' = Place(head, 1)
    BY <2>1, WrapAround
  <2>4. \A i \in Indices : slots'[i].content = slots[i].content
    BY <2>1 DEF BuffMsg
  <2>5. msg'.content = Head(Stored)
    <3>1. Head(Stored) = slots[Place(head, 0)].content
      BY <2>2, StoredAt
    <3>2. Place(head, 0) = head
      BY DEF Place, Indices
    <3> QED
      BY <2>1, <2>4, <3>1, <3>2
  <2>6. Stored' = [k \in 1 .. count - 1 |-> slots'[Place(head', k - 1)].content]
    <3>1. head' \in Indices
      BY <1>1
    <3> QED
      BY <2>1, <2>2, <3>1, StoredIndex DEF Stored
  <2>7. ASSUME NEW k \in 1 .. count - 1
        PROVE  slots'[Place(head', k - 1)].content = slots[Place(head, k)].content
    <3>1. Place(head', k - 1) = Place(head, k) /\ Place(head, k) \in Indices
      BY <2>2, <2>3 DEF Place, Indices
    <3> QED
      BY <2>4, <3>1
  <2>8. Stored' = Tail(Stored)
    <3>1. \A k \in 1 .. count - 1 : slots[Place(head, k)].content = Stored[k + 1]
      BY <2>2, StoredAt
    <3>2. Stored' = [k \in 1 .. count - 1 |-> Stored[k + 1]]
      BY <2>6, <2>7, <3>1
    <3> QED
      BY <2>2, <3>2, StoredAt, TailElements
  <2> QED
    BY <2>1, <2>2, <2>5, <2>8 DEF Queue!Get, Stored
<1> QED
  BY <1>2, <1>3

(* cbuffer.c implements a bounded first-in first-out queue.                *)
THEOREM RefinesQueue == Spec => ImplementsQueue
<1>1. IInv /\ [Next]_vars => [Queue!Next]_(Queue!vars)
  <2>1. IInv /\ UNCHANGED vars => UNCHANGED Queue!vars
    BY DEF vars, Queue!vars
  <2>2. IInv /\ get_msg => Queue!Next
    BY GetRefines DEF Queue!Next
  <2>3. ASSUME NEW m \in Messages PROVE IInv /\ put_msg(m) => Queue!Next
    BY PutRefines DEF Queue!Next
  <2> QED
    BY <2>1, <2>2, <2>3 DEF Next
<1> QED
  BY InitRefines, <1>1, InductiveInvariant, PTL DEF Spec, ImplementsQueue, Queue!Spec

-----------------------------------------------------------------------------
(* CreatorWindow: the inductive invariant                                  *)

Events == [entry : Indices, exit : Indices, last : BOOLEAN]

Callbacks ==
  [call : {"set_buffer_info", "set_executing"}]
    \cup [call : {"update_ui_labels"}, event : Events]
    \cup [call : {"set_buffer_view"}, slots : [Indices -> BuffMsg]]

\* The types of shared memory: count may be anything when accesses overlap.
SharedTypes ==
  /\ slots \in [Indices -> BuffMsg]
  /\ head \in Indices /\ tail \in Indices /\ count \in Int

WindowTypes ==
  /\ pc \in [Senders -> Pcs]
  /\ reg \in [Senders -> Int]
  /\ \A s \in Senders : pc[s] = "store_index" => reg[s] \in Indices
  /\ event \in [Senders -> Events] /\ received \in Events
  /\ creator \in {"wait_event", "copy", "event_continue", "last", "ended"}
  /\ copy \in [Indices -> BuffMsg] /\ copied \in 0 .. Size
  /\ callbacks \in Seq(Callbacks)

\* The event that the creator answers is the one it received, and whoever sends
\* a last event does nothing after it.
SendersInv ==
  \A s \in Senders :
    /\ pc[s] = "answered" =>
         creator \in {"copy", "event_continue"} /\ event[s] = received
    /\ event[s].last => pc[s] \in {"sending", "answered", "gone"}

\* The processes whose event, not a last one, the creator has not received, and
\* those for whom it has not copied the slots yet.
Accessing == {s \in Senders : pc[s] \in AccessPcs /\ ~event[s].last}
UnderWay ==
  Accessing \cup {s \in Senders : /\ pc[s] = "answered" /\ creator = "copy"
                                  /\ ~event[s].last}

\* Slots that have been copied change only under an access that comes later.
CopyInv ==
  creator = "copy" /\ Accessing = {} => \A i \in 0 .. copied - 1 : copy[i] = slots[i]

Draws(calls, k) == calls[k].call = "set_buffer_view"
DrawsNot(calls) == \A j \in 1 .. Len(calls) : ~Draws(calls, j)
DrawsLast(calls, k) ==
  /\ k \in 1 .. Len(calls) /\ Draws(calls, k)
  /\ \A j \in 1 .. Len(calls) : Draws(calls, j) => j <= k

\* The newest copy of the slots, which the last callback that draws will draw,
\* or which is on the screen already, is the buffer as it is.
NewestInv ==
  UnderWay = {} =>
    \/ \E k \in 1 .. Len(callbacks) :
         DrawsLast(callbacks, k) /\ callbacks[k].slots = slots
    \/ DrawsNot(callbacks) /\ view = Drawn(slots)

WindowIInv == SharedTypes /\ WindowTypes /\ SendersInv /\ CopyInv /\ NewestInv

-----------------------------------------------------------------------------
(* CreatorWindow: queues of callbacks                                      *)

\* Callbacks that draw nothing leave the one that draws last.
LEMMA QueueLabels ==
  ASSUME NEW s \in Seq(Callbacks), NEW t \in Seq(Callbacks), DrawsNot(t)
  PROVE  /\ s \o t \in Seq(Callbacks)
         /\ DrawsNot(s) => DrawsNot(s \o t)
         /\ \A k \in 1 .. Len(s) :
              DrawsLast(s, k) => /\ k \in 1 .. Len(s \o t)
                                 /\ DrawsLast(s \o t, k) /\ (s \o t)[k] = s[k]
<1>1. /\ Len(s) \in Nat /\ Len(t) \in Nat
      /\ s \o t \in Seq(Callbacks) /\ Len(s \o t) = Len(s) + Len(t)
      /\ \A i \in 1 .. Len(s) + Len(t) :
           (s \o t)[i] = IF i <= Len(s) THEN s[i] ELSE t[i - Len(s)]
  BY ConcatProperties, LenProperties
<1> DEFINE r == s \o t
<1> HIDE DEF r
<1>2. /\ Len(s) \in Nat /\ Len(t) \in Nat /\ Len(r) = Len(s) + Len(t)
      /\ \A i \in 1 .. Len(s) : i \in 1 .. Len(r) /\ r[i] = s[i]
      /\ \A i \in 1 .. Len(r) : i \in 1 .. Len(s) \/ ~Draws(r, i)
  <2>1. ASSUME NEW i \in 1 .. Len(s) + Len(t), ~(i <= Len(s)) PROVE ~Draws(r, i)
    <3>1. i - Len(s) \in 1 .. Len(t) /\ r[i] = t[i - Len(s)]
      BY <1>1, <2>1 DEF r
    <3> QED
      BY <3>1 DEF DrawsNot, Draws
  <2> QED
    BY <1>1, <2>1 DEF r
<1>3. DrawsNot(s) => DrawsNot(r)
  BY <1>2 DEF DrawsNot, Draws
<1>4. \A k \in 1 .. Len(s) : DrawsLast(s, k) => DrawsLast(r, k)
  BY <1>2 DEF DrawsLast, Draws
<1> QED
  BY <1>1, <1>2, <1>3, <1>4 DEF r

\* A callback that draws, behind all the others.
LEMMA QueueView ==
  ASSUME NEW s \in Seq(Callbacks), NEW a \in Callbacks, NEW b \in Callbacks,
         b.call = "set_buffer_view"
  PROVE  /\ s \o <<a, b>> \in Seq(Callbacks)
         /\ Len(s) + 2 \in 1 .. Len(s \o <<a, b>>)
         /\ DrawsLast(s \o <<a, b>>, Len(s) + 2)
         /\ (s \o <<a, b>>)[Len(s) + 2] = b
<1>1. /\ <<a, b>> \in Seq(Callbacks) /\ Len(<<a, b>>) = 2 /\ <<a, b>>[2] = b
  OBVIOUS
<1> DEFINE t == <<a, b>>
<1> HIDE DEF t
<1>2. /\ Len(s) \in Nat
      /\ s \o t \in Seq(Callbacks) /\ Len(s \o t) = Len(s) + Len(t)
      /\ \A i \in 1 .. Len(s) + Len(t) :
           (s \o t)[i] = IF i <= Len(s) THEN s[i] ELSE t[i - Len(s)]
  BY <1>1, ConcatProperties, LenProperties DEF t
<1>3. Len(t) = 2 /\ t[2] = b
  BY <1>1 DEF t
<1>4. Len(s \o t) = Len(s) + 2 /\ (s \o t)[Len(s) + 2] = b
  BY <1>2, <1>3
<1> QED
  BY <1>2, <1>4 DEF DrawsLast, Draws, t

\* The first callback is taken away.
LEMMA TakeCallback ==
  ASSUME NEW s \in Seq(Callbacks), s # <<>>
  PROVE  /\ Head(s) \in Callbacks /\ Head(s) = s[1] /\ 1 \in 1 .. Len(s)
         /\ Tail(s) \in Seq(Callbacks)
         /\ DrawsNot(s) => ~Draws(s, 1) /\ DrawsNot(Tail(s))
         /\ \A k \in 1 .. Len(s) : DrawsLast(s, k) =>
              IF k = 1 THEN Draws(s, 1) /\ DrawsNot(Tail(s))
                       ELSE /\ k - 1 \in 1 .. Len(Tail(s))
                            /\ DrawsLast(Tail(s), k - 1) /\ Tail(s)[k - 1] = s[k]
<1>1. /\ Head(s) \in Callbacks /\ Tail(s) \in Seq(Callbacks)
      /\ Len(s) \in Nat /\ Len(s) > 0 /\ Len(Tail(s)) = Len(s) - 1
      /\ \A i \in 1 .. Len(Tail(s)) : Tail(s)[i] = s[i + 1]
  BY HeadTailProperties, LenProperties, EmptySeq
<1>2. Head(s) = s[1]
  OBVIOUS
<1> DEFINE r == Tail(s)
<1> HIDE DEF r
<1>3. /\ Len(r) = Len(s) - 1
      /\ \A i \in 1 .. Len(r) : i + 1 \in 1 .. Len(s) /\ r[i] = s[i + 1]
  BY <1>1 DEF r
<1>4. DrawsNot(s) => ~Draws(s, 1) /\ DrawsNot(r)
  BY <1>1, <1>3 DEF DrawsNot, Draws
<1>5. ASSUME NEW k \in 1 .. Len(s), DrawsLast(s, k), k = 1
      PROVE  Draws(s, 1) /\ DrawsNot(r)
  BY <1>1, <1>3, <1>5 DEF DrawsLast, DrawsNot, Draws
<1>6. ASSUME NEW k \in 1 .. Len(s), DrawsLast(s, k), k # 1
      PROVE  k - 1 \in 1 .. Len(r) /\ DrawsLast(r, k - 1) /\ r[k - 1] = s[k]
  <2>1. k - 1 \in 1 .. Len(r) /\ r[k - 1] = s[k]
    BY <1>1, <1>3, <1>6
  <2>2. ASSUME NEW j \in 1 .. Len(r), Draws(r, j) PROVE j <= k - 1
    BY <1>1, <1>3, <1>6, <2>2 DEF DrawsLast, Draws
  <2> QED
    BY <1>6, <2>1, <2>2 DEF DrawsLast, Draws
<1> QED
  BY <1>1, <1>2, <1>4, <1>5, <1>6 DEF r

-----------------------------------------------------------------------------
(* CreatorWindow: the steps                                                *)

\* The view is the same if the buffer, the callbacks and the accesses under
\* way are.
LEMMA NewestFrame ==
  ASSUME NewestInv, UNCHANGED <<slots, callbacks, view>>, UnderWay' = UnderWay
  PROVE  NewestInv'
BY DEF NewestInv, Drawn, DrawsLast, DrawsNot, Draws

LEMMA CopyFrame ==
  ASSUME CopyInv, UNCHANGED <<slots, creator, copy, copied>>, Accessing' = Accessing
  PROVE  CopyInv'
BY DEF CopyInv

\* A step of a sender within its access, or into it.
LEMMA SenderInAccess ==
  ASSUME WindowIInv, NEW s \in Senders, NEW l \in AccessPcs,
         pc' = [pc EXCEPT ![s] = l], ~event'[s].last,
         event' \in [Senders -> Events], \A t \in Senders \ {s} : event'[t] = event[t],
         UNCHANGED <<creator, received>>
  PROVE  SendersInv' /\ CopyInv' /\ NewestInv'
<1>1. pc' \in [Senders -> Pcs] /\ pc'[s] = l
  BY DEF WindowIInv, WindowTypes, Pcs
<1>2. s \in Accessing'
  BY <1>1 DEF Accessing
<1>3. s \in UnderWay'
  BY <1>2 DEF UnderWay
<1>4. SendersInv'
  <2>1. ASSUME NEW t \in Senders
        PROVE  /\ pc'[t] = "answered" =>
                    creator' \in {"copy", "event_continue"} /\ event'[t] = received'
               /\ event'[t].last => pc'[t] \in {"sending", "answered", "gone"}
    <3>1. CASE t = s
      BY <1>1, <3>1 DEF AccessPcs
    <3>2. CASE t # s
      BY <3>2 DEF WindowIInv, WindowTypes, SendersInv
    <3> QED
      BY <3>1, <3>2
  <2> QED
    BY <2>1 DEF SendersInv
<1> QED
  BY <1>2, <1>3, <1>4 DEF CopyInv, NewestInv

\* A step of a sender outside its access.
LEMMA SenderOutside ==
  ASSUME WindowIInv, NEW s \in Senders, pc[s] \in {"idle", "post"},
         NEW l \in {"wait_mutex", "idle", "gone"},
         pc' = [pc EXCEPT ![s] = l],
         UNCHANGED <<slots, event, creator, received, copy, copied, callbacks, view>>
  PROVE  SendersInv' /\ CopyInv' /\ NewestInv'
<1>1. /\ pc'[s] = l /\ \A t \in Senders \ {s} : pc'[t] = pc[t]
      /\ ~event[s].last
  BY DEF WindowIInv, WindowTypes, SendersInv
<1>2. Accessing' = Accessing /\ UnderWay' = UnderWay
  BY <1>1 DEF Accessing, UnderWay, AccessPcs
<1>3. SendersInv'
  BY <1>1 DEF WindowIInv, SendersInv
<1> QED
  BY <1>2, <1>3, NewestFrame, CopyFrame DEF WindowIInv

LEMMA InitWindow == WindowInit => WindowIInv
<1> SUFFICES ASSUME WindowInit PROVE WindowIInv
  OBVIOUS
<1>1. IInv
  BY InitIInv DEF WindowInit
<1>2. SharedTypes
  BY <1>1, SizeAssumption DEF SharedTypes, IInv, TypeOK
<1>3. NoEvent \in Events /\ ~NoEvent.last
  BY SizeAssumption DEF NoEvent, Events, Indices
<1>4. /\ callbacks = <<[call |-> "set_buffer_info"], [call |-> "set_executing"]>>
      /\ view = {} /\ event = [s \in Senders |-> NoEvent] /\ received = NoEvent
      /\ creator = "wait_event" /\ pc = [s \in Senders |-> "idle"]
      /\ reg = [s \in Senders |-> 0] /\ copy = slots /\ copied = 0
  BY DEF WindowInit
<1>5. callbacks \in Seq(Callbacks) /\ DrawsNot(callbacks)
  <2>1. /\ [call |-> "set_buffer_info"] \in Callbacks
        /\ [call |-> "set_executing"] \in Callbacks
    BY DEF Callbacks
  <2> QED
    BY <1>4, <2>1 DEF DrawsNot, Draws
<1>6. WindowTypes
  BY <1>2, <1>3, <1>4, <1>5, SizeAssumption DEF WindowTypes, SharedTypes, Pcs
<1>7. SendersInv /\ CopyInv
  BY <1>3, <1>4 DEF SendersInv, CopyInv
<1>8. view = Drawn(slots)
  BY <1>4 DEF Drawn, WindowInit, Init
<1> QED
  BY <1>2, <1>5, <1>6, <1>7, <1>8 DEF WindowIInv, NewestInv

LEMMA WriteStep ==
  ASSUME WindowIInv, NEW s \in Senders \ Consumers, Write(s)
  PROVE  WindowIInv'
<1> USE DEF WindowIInv, At, Goto
<1>1. /\ pc[s] \in {"idle", "test_full", "store_slot", "store_valid"}
      /\ \E l \in AccessPcs \ {"store_index"} : pc' = [pc EXCEPT ![s] = l]
      /\ UNCHANGED <<head, tail, count, reg, event, creator, received, copy, copied,
                     callbacks, view>>
  BY DEF Write, WaitFree, TestFull, StoreSlot, StoreValid, buffer, vars, thread,
         display, AccessPcs
<1>2. PICK l \in AccessPcs \ {"store_index"} : pc' = [pc EXCEPT ![s] = l]
  BY <1>1
<1>3. ~event'[s].last
  BY <1>1 DEF SendersInv
<1>4. SendersInv' /\ CopyInv' /\ NewestInv'
  BY <1>1, <1>2, <1>3, SenderInAccess DEF WindowTypes
<1>5. slots' \in [Indices -> BuffMsg]
  <2>1. CASE StoreSlot(s)
    BY <2>1, WritersAssumption DEF StoreSlot, SharedTypes, BuffMsg, Senders, Clients
  <2>2. CASE StoreValid(s)
    BY <2>2 DEF StoreValid, SharedTypes, BuffMsg
  <2>3. CASE WaitFree(s) \/ TestFull(s)
    BY <2>3 DEF WaitFree, TestFull, SharedTypes, buffer, vars
  <2> QED
    BY <2>1, <2>2, <2>3 DEF Write
<1>6. SharedTypes'
  BY <1>1, <1>5 DEF SharedTypes
<1>7. WindowTypes'
  BY <1>1, <1>2 DEF WindowTypes, Pcs
<1> QED
  BY <1>4, <1>6, <1>7

LEMMA ReadStep ==
  ASSUME WindowIInv, NEW s \in Senders, Read(s)
  PROVE  WindowIInv'
<1> USE DEF WindowIInv, At, Goto
<1>1. /\ pc[s] \in {"idle", "wait_mutex", "test_empty", "clear_valid"}
      /\ UNCHANGED <<head, tail, count, reg, event, creator, received, copy, copied,
                     callbacks, view>>
  BY DEF Read, WaitUsed, WaitMutex, TestEmpty, ClearValid, buffer, vars, thread, display
<1>2. PICK l \in Pcs \ {"store_index", "answered"} : pc' = [pc EXCEPT ![s] = l]
  BY DEF Read, WaitUsed, WaitMutex, TestEmpty, ClearValid, AccessPcs, Pcs
<1>3. ~event'[s].last
  BY <1>1 DEF SendersInv
<1>4. SendersInv' /\ CopyInv' /\ NewestInv'
  <2>1. CASE WaitUsed(s)
    <3>1. pc' = [pc EXCEPT ![s] = "wait_mutex"] /\ pc[s] = "idle" /\ slots' = slots
      BY <2>1 DEF WaitUsed, buffer, vars
    <3> QED
      BY <1>1, <3>1, SenderOutside
  <2>2. CASE WaitMutex(s) \/ TestEmpty(s) \/ ClearValid(s)
    <3>1. PICK k \in AccessPcs : pc' = [pc EXCEPT ![s] = k]
      BY <2>2 DEF WaitMutex, TestEmpty, ClearValid, AccessPcs
    <3> QED
      BY <1>1, <1>3, <3>1, SenderInAccess DEF WindowTypes
  <2> QED
    BY <2>1, <2>2 DEF Read
<1>5. slots' \in [Indices -> BuffMsg]
  <2>1. CASE ClearValid(s)
    BY <2>1 DEF ClearValid, SharedTypes, BuffMsg
  <2>2. CASE WaitUsed(s) \/ WaitMutex(s) \/ TestEmpty(s)
    BY <2>2 DEF WaitUsed, WaitMutex, TestEmpty, SharedTypes, buffer, vars
  <2> QED
    BY <2>1, <2>2 DEF Read
<1>6. SharedTypes'
  BY <1>1, <1>5 DEF SharedTypes
<1>7. WindowTypes'
  BY <1>1, <1>2 DEF WindowTypes
<1> QED
  BY <1>4, <1>6, <1>7

\* Steps that change nothing of an index, a slot or a callback.
LEMMA LoadStep ==
  ASSUME WindowIInv, NEW s \in Senders,
         LoadIndex(s) \/ LoadCount(s) \/ LoadEntry(s) \/ LoadExit(s)
  PROVE  WindowIInv'
<1> USE DEF WindowIInv, At, Goto
<1>1. /\ pc[s] \in {"load_index", "load_count", "load_entry", "load_exit"}
      /\ UNCHANGED <<slots, head, tail, count, creator, received, copy, copied,
                     callbacks, view>>
  BY DEF LoadIndex, LoadCount, LoadEntry, LoadExit, buffer, vars, thread, display
<1>2. SharedTypes'
  BY <1>1 DEF SharedTypes
<1>3. ~event[s].last /\ event[s] \in Events /\ 0 \in Indices
  <2>1. ~event[s].last
    BY <1>1 DEF SendersInv
  <2>2. event[s] \in Events
    BY DEF WindowTypes
  <2> QED
    BY <2>1, <2>2, SizeAssumption DEF Indices
<1>4. /\ event' \in [Senders -> Events] /\ ~event'[s].last
      /\ \A t \in Senders \ {s} : event'[t] = event[t]
  <2>1. CASE LoadIndex(s) \/ LoadCount(s)
    BY <1>3, <2>1 DEF LoadIndex, LoadCount, WindowTypes
  <2>2. CASE LoadEntry(s)
    BY <1>3, <2>2 DEF LoadEntry, WindowTypes, SharedTypes, Events
  <2>3. CASE LoadExit(s)
    BY <1>3, <2>3 DEF LoadExit, WindowTypes, SharedTypes, Events
  <2> QED
    BY <2>1, <2>2, <2>3
<1>5. PICK l \in AccessPcs : pc' = [pc EXCEPT ![s] = l]
  BY DEF LoadIndex, LoadCount, LoadEntry, LoadExit, AccessPcs
<1>6. SendersInv' /\ CopyInv' /\ NewestInv'
  BY <1>1, <1>4, <1>5, SenderInAccess
<1>7. pc' \in [Senders -> Pcs]
  BY <1>5 DEF WindowTypes, Pcs
<1>8. /\ reg' \in [Senders -> Int]
      /\ \A t \in Senders : pc'[t] = "store_index" => reg'[t] \in Indices
  <2>1. CASE LoadIndex(s)
    <3>1. PICK i \in Indices : reg' = [reg EXCEPT ![s] = i]
      BY <2>1 DEF LoadIndex, SharedTypes
    <3>2. i \in Int
      BY SizeAssumption DEF Indices
    <3>3. reg' \in [Senders -> Int]
      BY <3>1, <3>2 DEF WindowTypes
    <3>4. ASSUME NEW t \in Senders, pc'[t] = "store_index" PROVE reg'[t] \in Indices
      <4>1. CASE t = s
        BY <3>1, <4>1 DEF WindowTypes
      <4>2. CASE t # s
        BY <2>1, <3>1, <3>4, <4>2 DEF LoadIndex, WindowTypes
      <4> QED
        BY <4>1, <4>2
    <3> QED
      BY <3>3, <3>4
  <2>2. CASE LoadCount(s)
    BY <2>2 DEF LoadCount, WindowTypes, SharedTypes
  <2>3. CASE LoadEntry(s) \/ LoadExit(s)
    BY <2>3 DEF LoadEntry, LoadExit, WindowTypes
  <2> QED
    BY <2>1, <2>2, <2>3
<1>9. WindowTypes'
  BY <1>1, <1>4, <1>7, <1>8 DEF WindowTypes
<1> QED
  BY <1>2, <1>6, <1>9

LEMMA StoreStep ==
  ASSUME WindowIInv, NEW s \in Senders, StoreIndex(s) \/ StoreCount(s)
  PROVE  WindowIInv'
<1> USE DEF WindowIInv, At, Goto
<1>1. /\ pc[s] \in {"store_index", "store_count"}
      /\ UNCHANGED <<slots, event, creator, received, copy, copied, callbacks, view>>
  BY DEF StoreIndex, StoreCount, thread, display
<1>2. ~event'[s].last
  BY <1>1 DEF SendersInv
<1>3. PICK l \in AccessPcs \ {"store_index"} : pc' = [pc EXCEPT ![s] = l]
  BY DEF StoreIndex, StoreCount, AccessPcs
<1>4. SendersInv' /\ CopyInv' /\ NewestInv'
  BY <1>1, <1>2, <1>3, SenderInAccess DEF WindowTypes
<1>5. SharedTypes' /\ reg' \in [Senders -> Int]
  <2>1. CASE StoreIndex(s)
    <3>1. reg[s] \in Indices /\ 1 \in 0 .. Size
      BY <2>1, SizeAssumption DEF StoreIndex, WindowTypes
    <3>2. (reg[s] + 1) % Size \in Indices
      BY <3>1, WrapAround
    <3> QED
      BY <2>1, <3>2 DEF StoreIndex, SharedTypes, WindowTypes, own
  <2>2. CASE StoreCount(s)
    <3>1. reg[s] \in Int /\ count' \in {reg[s] - 1, reg[s] + 1}
      BY <2>2 DEF StoreCount, WindowTypes
    <3>2. count' \in Int /\ UNCHANGED <<slots, head, tail>>
      BY <2>2, <3>1 DEF StoreCount
    <3>3. reg' \in [Senders -> Int]
      BY <2>2 DEF StoreCount, WindowTypes
    <3> QED
      BY <3>2, <3>3 DEF SharedTypes
  <2> QED
    BY <2>1, <2>2
<1>6. \A t \in Senders : pc'[t] = "store_index" => t # s /\ reg'[t] = reg[t]
  BY <1>3 DEF StoreIndex, StoreCount, WindowTypes
<1>7. WindowTypes'
  BY <1>1, <1>3, <1>5, <1>6 DEF WindowTypes, Pcs
<1> QED
  BY <1>4, <1>5, <1>7

\* Post, and Leave.
LEMMA OutsideStep ==
  ASSUME WindowIInv, NEW s \in Senders, Post(s) \/ Leave(s)
  PROVE  WindowIInv'
<1> USE DEF WindowIInv, At, Goto
<1>1. /\ pc[s] \in {"idle", "post"}
      /\ \E l \in {"idle", "gone"} : pc' = [pc EXCEPT ![s] = l]
      /\ UNCHANGED <<slots, head, tail, count, reg, event, creator, received, copy,
                     copied, callbacks, view>>
  BY DEF Post, Leave, buffer, vars, thread, display
<1>2. SendersInv' /\ CopyInv' /\ NewestInv'
  BY <1>1, SenderOutside
<1>3. SharedTypes' /\ WindowTypes'
  BY <1>1 DEF SharedTypes, WindowTypes, Pcs
<1> QED
  BY <1>2, <1>3

LEMMA FinalStep ==
  ASSUME WindowIInv, RaiseHalt \/ SendLast
  PROVE  WindowIInv'
<1> USE DEF WindowIInv, At, Goto
<1>1. UNCHANGED <<slots, head, tail, count, reg, creator, received, copy, copied,
                  callbacks, view>>
  BY DEF RaiseHalt, SendLast, buffer, vars, thread, display
<1>2. SharedTypes'
  BY <1>1 DEF SharedTypes
<1>3. CASE RaiseHalt
  <2>1. UNCHANGED <<pc, event>>
    BY <1>3 DEF RaiseHalt
  <2>2. Accessing' = Accessing /\ UnderWay' = UnderWay
    BY <1>1, <2>1 DEF Accessing, UnderWay
  <2> QED
    BY <1>1, <1>2, <2>1, <2>2, NewestFrame, CopyFrame DEF WindowTypes, SendersInv
<1>4. CASE SendLast
  <2> DEFINE e == [entry |-> tail, exit |-> head, last |-> TRUE]
  <2>1. /\ Finalizer \in Senders /\ pc[Finalizer] = "idle"
        /\ pc' = [pc EXCEPT ![Finalizer] = "sending"]
        /\ event' = [event EXCEPT ![Finalizer] = e]
    BY <1>4 DEF SendLast, Senders
  <2>2. e \in Events /\ e.last
    BY DEF SharedTypes, Events
  <2> HIDE DEF e
  <2>3. WindowTypes'
    BY <1>1, <2>1, <2>2 DEF WindowTypes, Pcs, AccessPcs
  <2>4. /\ pc'[Finalizer] = "sending" /\ event'[Finalizer].last
        /\ \A t \in Senders \ {Finalizer} : pc'[t] = pc[t] /\ event'[t] = event[t]
    BY <2>1, <2>2 DEF WindowTypes
  <2>5. Accessing' = Accessing /\ UnderWay' = UnderWay
    BY <1>1, <2>1, <2>4 DEF Accessing, UnderWay, AccessPcs
  <2>6. SendersInv'
    BY <1>1, <2>4 DEF SendersInv
  <2> QED
    BY <1>1, <1>2, <2>3, <2>5, <2>6, NewestFrame, CopyFrame
<1> QED
  BY <1>3, <1>4

LEMMA ReceiveStep ==
  ASSUME WindowIInv, NEW s \in Senders, Receive(s)
  PROVE  WindowIInv'
<1> USE DEF WindowIInv, At, Goto
<1>1. /\ pc' = [pc EXCEPT ![s] = "answered"] /\ pc[s] = "sending"
      /\ creator = "wait_event" /\ creator' = "copy"
      /\ received' = event[s] /\ copied' = 0
      /\ UNCHANGED <<slots, head, tail, count, reg, event, copy, callbacks, view>>
  BY DEF Receive, display, buffer, vars
<1>2. SharedTypes' /\ WindowTypes'
  BY <1>1, SizeAssumption DEF SharedTypes, WindowTypes, Pcs
<1>3. /\ pc'[s] = "answered"
      /\ \A t \in Senders : pc[t] # "answered"
      /\ \A t \in Senders \ {s} : pc'[t] = pc[t]
  BY <1>1 DEF WindowTypes, SendersInv
<1>4. SendersInv'
  BY <1>1, <1>3 DEF SendersInv
<1>5. UnderWay' = UnderWay
  BY <1>1, <1>3 DEF UnderWay, Accessing, AccessPcs
<1>6. CopyInv'
  BY <1>1 DEF CopyInv
<1> QED
  BY <1>1, <1>2, <1>4, <1>5, <1>6, NewestFrame

LEMMA CopySlotStep ==
  ASSUME WindowIInv, CopySlot
  PROVE  WindowIInv'
<1> USE DEF WindowIInv
<1>1. /\ creator = "copy" /\ copied < Size
      /\ copy' = [copy EXCEPT ![copied] = slots[copied]]
      /\ copied' = copied + 1
      /\ UNCHANGED <<slots, head, tail, count, pc, reg, event, creator, received,
                     callbacks, view>>
  BY DEF CopySlot, display, buffer, vars, senders
<1>2. copied \in Indices /\ copied' \in 0 .. Size
  BY <1>1, SizeAssumption DEF WindowTypes, Indices
<1>3. copy' \in [Indices -> BuffMsg]
  BY <1>1, <1>2 DEF WindowTypes, SharedTypes
<1>4. SharedTypes' /\ WindowTypes' /\ SendersInv'
  BY <1>1, <1>2, <1>3 DEF SharedTypes, WindowTypes, SendersInv
<1>5. Accessing' = Accessing /\ UnderWay' = UnderWay
  BY <1>1 DEF Accessing, UnderWay
<1>6. CopyInv'
  <2>1. ASSUME NEW i \in 0 .. copied' - 1, Accessing = {}
        PROVE  copy'[i] = slots'[i]
    <3>1. i \in Indices /\ (i = copied \/ i \in 0 .. copied - 1)
      BY <1>1, <1>2, SizeAssumption DEF Indices
    <3>2. i # copied => copy[i] = slots[i]
      BY <1>1, <2>1, <3>1 DEF CopyInv
    <3> QED
      BY <1>1, <1>2, <3>1, <3>2 DEF WindowTypes
  <2> QED
    BY <1>5, <2>1 DEF CopyInv
<1> QED
  BY <1>1, <1>4, <1>5, <1>6, NewestFrame

LEMMA QueueStep ==
  ASSUME WindowIInv, QueueCallbacks
  PROVE  WindowIInv'
<1> USE DEF WindowIInv
<1>1. /\ creator = "copy" /\ copied = Size /\ creator' = "event_continue"
      /\ UNCHANGED <<slots, head, tail, count, pc, reg, event, received, copy, copied,
                     view>>
  BY DEF QueueCallbacks, display, buffer, vars, senders
<1>2. SharedTypes' /\ SendersInv' /\ CopyInv'
  BY <1>1 DEF SharedTypes, SendersInv, CopyInv
<1>3. Accessing' = Accessing /\ UnderWay' = Accessing
  BY <1>1 DEF Accessing, UnderWay
<1>4. callbacks \in Seq(Callbacks)
  BY DEF WindowTypes
<1>5. CASE received.last
  <2>1. callbacks' = callbacks
    BY <1>5 DEF QueueCallbacks
  <2>2. UnderWay = Accessing
    BY <1>5 DEF UnderWay, SendersInv
  <2> QED
    BY <1>1, <1>2, <1>3, <2>1, <2>2, NewestFrame DEF WindowTypes
<1>6. CASE ~received.last
  <2> DEFINE a == [call |-> "update_ui_labels", event |-> received]
             b == [call |-> "set_buffer_view", slots |-> copy]
  <2>1. callbacks' = callbacks \o <<a, b>>
    BY <1>6 DEF QueueCallbacks, g_idle_add
  <2>2. /\ a \in Callbacks /\ b \in Callbacks
        /\ b.call = "set_buffer_view" /\ b.slots = copy
    BY DEF WindowTypes, Callbacks
  <2> HIDE DEF a, b
  <2>3. /\ callbacks' \in Seq(Callbacks)
        /\ Len(callbacks) + 2 \in 1 .. Len(callbacks')
        /\ DrawsLast(callbacks', Len(callbacks) + 2)
        /\ callbacks'[Len(callbacks) + 2].slots = copy
    BY <1>4, <2>1, <2>2, QueueView
  <2>4. ASSUME UnderWay' = {} PROVE copy = slots
    <3>1. \A i \in Indices : copy[i] = slots[i]
      BY <1>1, <1>3, <2>4, SizeAssumption DEF CopyInv, Indices
    <3> QED
      BY <3>1 DEF WindowTypes, SharedTypes
  <2>5. NewestInv'
    BY <1>1, <2>3, <2>4 DEF NewestInv, DrawsLast, Draws
  <2>6. WindowTypes'
    BY <1>1, <2>3 DEF WindowTypes
  <2> QED
    BY <1>2, <2>5, <2>6
<1> QED
  BY <1>5, <1>6

LEMMA ContinueStep ==
  ASSUME WindowIInv, event_continue
  PROVE  WindowIInv'
<1> USE DEF WindowIInv
<1>1. /\ pc' = [s \in Senders |-> IF pc[s] # "answered" THEN pc[s]
                                  ELSE IF received.last THEN "gone" ELSE "post"]
      /\ creator = "event_continue" /\ creator' \in {"last", "wait_event"}
      /\ UNCHANGED <<slots, head, tail, count, reg, event, received, copy, copied,
                     callbacks, view>>
  BY DEF event_continue, display, buffer, vars
<1>2. \A s \in Senders : pc[s] \in Pcs
  BY DEF WindowTypes
<1>3. SharedTypes' /\ WindowTypes'
  BY <1>1, <1>2 DEF SharedTypes, WindowTypes, Pcs
<1>4. SendersInv'
  BY <1>1 DEF SendersInv
<1>5. Accessing' = Accessing /\ UnderWay' = UnderWay
  BY <1>1 DEF Accessing, UnderWay, AccessPcs
<1>6. CopyInv'
  BY <1>1 DEF CopyInv
<1> QED
  BY <1>1, <1>3, <1>4, <1>5, <1>6, NewestFrame

LEMMA ShowLastStep ==
  ASSUME WindowIInv, ShowLast
  PROVE  WindowIInv'
<1> USE DEF WindowIInv
<1> DEFINE t == <<[call |-> "update_ui_labels", event |-> received]>>
<1>1. /\ callbacks' = callbacks \o t /\ creator = "last" /\ creator' = "ended"
      /\ UNCHANGED <<slots, head, tail, count, pc, reg, event, received, copy, copied,
                     view>>
  BY DEF ShowLast, g_idle_add, senders, buffer, vars
<1>2. t \in Seq(Callbacks) /\ DrawsNot(t)
  <2>1. [call |-> "update_ui_labels", event |-> received] \in Callbacks
    BY DEF WindowTypes, Callbacks
  <2> QED
    BY <2>1 DEF DrawsNot, Draws
<1> HIDE DEF t
<1>3. callbacks \in Seq(Callbacks)
  BY DEF WindowTypes
<1>4. SharedTypes' /\ WindowTypes'
  BY <1>1, <1>2, <1>3, QueueLabels DEF SharedTypes, WindowTypes
<1>5. SendersInv' /\ CopyInv'
  BY <1>1 DEF SendersInv, CopyInv
<1>6. UnderWay' = UnderWay
  BY <1>1 DEF UnderWay, Accessing
<1>7. NewestInv'
  <2> SUFFICES ASSUME UnderWay = {}
               PROVE  \/ \E k \in 1 .. Len(callbacks') :
                           /\ DrawsLast(callbacks', k)
                           /\ callbacks'[k].slots = slots
                      \/ DrawsNot(callbacks') /\ view = Drawn(slots)
    BY <1>1, <1>6 DEF NewestInv, DrawsLast, DrawsNot, Draws, Drawn
  <2>1. CASE DrawsNot(callbacks) /\ view = Drawn(slots)
    BY <1>1, <1>2, <1>3, <2>1, QueueLabels
  <2>2. ASSUME NEW k \in 1 .. Len(callbacks), DrawsLast(callbacks, k),
               callbacks[k].slots = slots
        PROVE  \E i \in 1 .. Len(callbacks') :
                 DrawsLast(callbacks', i) /\ callbacks'[i].slots = slots
    BY <1>1, <1>2, <1>3, <2>2, QueueLabels
  <2> QED
    BY <2>1, <2>2 DEF NewestInv
<1> QED
  BY <1>4, <1>5, <1>7

LEMMA RunCallbackStep ==
  ASSUME WindowIInv, RunCallback
  PROVE  WindowIInv'
<1> USE DEF WindowIInv
<1>1. /\ callbacks # <<>> /\ callbacks' = Tail(callbacks)
      /\ UNCHANGED <<slots, head, tail, count, pc, reg, event, received, creator,
                     copy, copied>>
  BY DEF RunCallback, senders, thread, buffer, vars
<1>2. callbacks \in Seq(Callbacks)
  BY DEF WindowTypes
<1>3. SharedTypes' /\ WindowTypes'
  BY <1>1, <1>2, TakeCallback DEF SharedTypes, WindowTypes
<1>4. SendersInv' /\ Accessing' = Accessing /\ UnderWay' = UnderWay
  BY <1>1 DEF SendersInv, UnderWay, Accessing
<1>5. CopyInv'
  BY <1>1, <1>4, CopyFrame
<1>6. view' = IF Draws(callbacks, 1) THEN Drawn(callbacks[1].slots) ELSE view
  <2>1. Head(callbacks) = callbacks[1]
    BY <1>1, <1>2, TakeCallback
  <2> QED
    BY <2>1 DEF RunCallback, Draws
<1>7. NewestInv'
  <2> SUFFICES ASSUME UnderWay = {}
               PROVE  \/ \E k \in 1 .. Len(callbacks') :
                           /\ DrawsLast(callbacks', k)
                           /\ callbacks'[k].slots = slots
                      \/ DrawsNot(callbacks') /\ view' = Drawn(slots)
    BY <1>1, <1>4 DEF NewestInv, DrawsLast, DrawsNot, Draws, Drawn
  <2>1. CASE DrawsNot(callbacks) /\ view = Drawn(slots)
    BY <1>1, <1>2, <1>6, <2>1, TakeCallback
  <2>2. ASSUME NEW k \in 1 .. Len(callbacks), DrawsLast(callbacks, k),
               callbacks[k].slots = slots, k = 1
        PROVE  DrawsNot(callbacks') /\ view' = Drawn(slots)
    BY <1>1, <1>2, <1>6, <2>2, TakeCallback
  <2>3. ASSUME NEW k \in 1 .. Len(callbacks), DrawsLast(callbacks, k),
               callbacks[k].slots = slots, k # 1
        PROVE  \E i \in 1 .. Len(callbacks') :
                 DrawsLast(callbacks', i) /\ callbacks'[i].slots = slots
    BY <1>1, <1>2, <2>3, TakeCallback
  <2> QED
    BY <2>1, <2>2, <2>3 DEF NewestInv
<1> QED
  BY <1>3, <1>4, <1>5, <1>7

-----------------------------------------------------------------------------
LEMMA WindowInvariant == WindowSpec => []WindowIInv
<1>1. WindowIInv /\ UNCHANGED windowVars => WindowIInv'
  <2> SUFFICES ASSUME WindowIInv, UNCHANGED windowVars PROVE WindowIInv'
    OBVIOUS
  <2>1. UNCHANGED <<slots, head, tail, count, pc, reg, event, received, creator, copy,
                    copied, callbacks, view>>
    BY DEF windowVars, senders, thread, display, buffer, vars
  <2>2. Accessing' = Accessing /\ UnderWay' = UnderWay
    BY <2>1 DEF UnderWay, Accessing
  <2> QED
    BY <2>1, <2>2, NewestFrame, CopyFrame
       DEF WindowIInv, SharedTypes, WindowTypes, SendersInv
<1>2. WindowIInv /\ WindowNext => WindowIInv'
  <2> SUFFICES ASSUME WindowIInv, WindowNext PROVE WindowIInv'
    OBVIOUS
  <2>1. ASSUME NEW s \in Senders, Access(s) PROVE WindowIInv'
    BY <2>1, LoadStep, StoreStep, OutsideStep DEF Access
  <2>2. ASSUME NEW s \in Senders \ Consumers, Write(s) PROVE WindowIInv'
    BY <2>2, WriteStep
  <2>3. ASSUME NEW c \in Clients, Read(c) \/ Leave(c) PROVE WindowIInv'
    BY <2>3, ReadStep, OutsideStep DEF Senders
  <2>4. CASE Thread
    BY <2>4, ReceiveStep, CopySlotStep, QueueStep, ContinueStep, ShowLastStep DEF Thread
  <2> QED
    BY <2>1, <2>2, <2>3, <2>4, FinalStep, RunCallbackStep DEF WindowNext, Clients
<1> QED
  BY InitWindow, <1>1, <1>2, PTL DEF WindowSpec

(* At rest, the text view (gtk_set_buffer_view, creator/ui.c) has the      *)
(* buffer as it is, whatever the order in which the loads and stores of    *)
(* overlapping accesses were made, the slots copied and the events built,  *)
(* received and drawn.                                                     *)
THEOREM WindowIsRight == WindowSpec => []ShowsBufferAtRest
<1>1. WindowIInv => ShowsBufferAtRest
  <2> SUFFICES ASSUME WindowIInv, AtRest PROVE view = Drawn(slots)
    BY DEF ShowsBufferAtRest
  <2>1. UnderWay = {}
    BY DEF UnderWay, Accessing, AtRest
  <2>2. Len(callbacks) = 0
    BY DEF AtRest
  <2> QED
    BY <2>1, <2>2 DEF WindowIInv, NewestInv
<1> QED
  BY <1>1, WindowInvariant, PTL
=============================================================================
