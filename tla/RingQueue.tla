----------------------------- MODULE RingQueue -----------------------------
(***************************************************************************)
(* `Queue<T, N>` of zigbee/src/device.rs: a ring of N slots with a head    *)
(* and a length, behind both the outbox and the event queue.  A push into  *)
(* a full ring advances the head first, so the oldest entry is the one     *)
(* lost.  The specification implements BoundedFifo.                        *)
(***************************************************************************)
EXTENDS Integers, Sequences

CONSTANTS Values,
          Capacity,
          Nothing

ASSUME RingCapacityAssumption == Capacity \in Nat \ {0}
ASSUME RingNothingAssumption == Nothing \notin Values

VARIABLES slots,     \* the ring; a slot outside the live range holds stale data
          head,      \* the oldest live slot
          len,       \* how many slots are live
          answer     \* what the latest pop returned: None is Nothing

ringVars == <<slots, head, len, answer>>

(* `(head + offset) % N` *)
Slot(h, offset) == (h + offset) % Capacity

(* A push that never makes room: the ring would hold more than its slots.  *)
PushUnbounded(v) ==
    /\ slots' = [slots EXCEPT ![Slot(head, len)] = v]
    /\ len' = len + 1
    /\ UNCHANGED <<head, answer>>

(* A pop that takes the newest entry: a stack where a queue was meant.     *)
PopNewest ==
    /\ len > 0
    /\ answer' = slots[Slot(head, len - 1)]
    /\ head' = Slot(head, 1)
    /\ len' = len - 1
    /\ UNCHANGED slots

RingOK ==
    /\ slots \in [0..(Capacity - 1) -> Values \cup {Nothing}]
    /\ head \in 0..(Capacity - 1)
    /\ len \in 0..Capacity
    /\ answer \in Values \cup {Nothing}

RingInit ==
    /\ slots = [i \in 0..(Capacity - 1) |-> Nothing]
    /\ head = 0
    /\ len = 0
    /\ answer = Nothing

Push(v) ==
    LET full == len = Capacity
        start == IF full THEN Slot(head, 1) ELSE head
        live == IF full THEN len - 1 ELSE len
    IN  /\ slots' = [slots EXCEPT ![Slot(start, live)] = v]
        /\ head' = start
        /\ len' = live + 1
        /\ UNCHANGED answer

PopNone ==
    /\ len = 0
    /\ answer' = Nothing
    /\ UNCHANGED <<slots, head, len>>

PopOldest ==
    /\ len > 0
    /\ answer' = slots[head]
    /\ head' = Slot(head, 1)
    /\ len' = len - 1
    /\ UNCHANGED slots

(* `Queue::new` at boot.                                                   *)
Clear ==
    /\ slots' = [i \in 0..(Capacity - 1) |-> Nothing]
    /\ head' = 0
    /\ len' = 0
    /\ answer' = Nothing

RingNext ==
    \/ \E v \in Values : Push(v)
    \/ PopNone
    \/ PopOldest
    \/ Clear

RingSpec == RingInit /\ [][RingNext]_ringVars

-----------------------------------------------------------------------------
(* The live entries, oldest first.                                         *)
Contents == [i \in 1..len |-> slots[Slot(head, i - 1)]]

Fifo == INSTANCE BoundedFifo WITH queue <- Contents

(* The ring hands out what a queue that gives up its oldest entry when     *)
(* full would: no entry is lost while there is room, none is handed out    *)
(* twice or out of order, whatever the head has wrapped round to.          *)
ImplementsFifo == Fifo!Spec
=============================================================================
