---------------------------- MODULE BoundedFifo ----------------------------
(***************************************************************************)
(* What the device's outbox and event queue promise their caller           *)
(* (zigbee/src/lib.rs, "What the caller owes"): a first-in first-out queue *)
(* of at most Capacity entries in which a push into a full queue gives up  *)
(* the oldest entry.                                                       *)
(***************************************************************************)
EXTENDS Sequences, Naturals

CONSTANTS Values,    \* what the queue carries
          Capacity,  \* OUTBOX_CAPACITY or EVENT_CAPACITY
          Nothing    \* the answer of a pop that finds nothing

VARIABLES queue,     \* the entries held, oldest first
          answer     \* what the latest pop handed out

vars == <<queue, answer>>

(* The queue after a push: the oldest entry makes room when it is full.    *)
Pushed(q, v) == Append(IF Len(q) = Capacity THEN Tail(q) ELSE q, v)

TypeOK ==
    /\ queue \in Seq(Values)
    /\ Len(queue) <= Capacity
    /\ answer \in Values \cup {Nothing}

Init ==
    /\ queue = <<>>
    /\ answer = Nothing

Push(v) ==
    /\ queue' = Pushed(queue, v)
    /\ UNCHANGED answer

Pop ==
    /\ queue # <<>>
    /\ answer' = Head(queue)
    /\ queue' = Tail(queue)

PopNothing ==
    /\ queue = <<>>
    /\ answer' = Nothing
    /\ UNCHANGED queue

(* A restart: what was waiting is lost.                                    *)
Clear ==
    /\ queue' = <<>>
    /\ answer' = Nothing

Next ==
    \/ \E v \in Values : Push(v)
    \/ Pop
    \/ PopNothing
    \/ Clear

Spec == Init /\ [][Next]_vars
=============================================================================
