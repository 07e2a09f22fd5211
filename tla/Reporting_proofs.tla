-------------------------- MODULE Reporting_proofs --------------------------
(***************************************************************************)
(* The ring of `Queue<T, N>` is a bounded queue that gives up its oldest   *)
(* entry.  What reporting and the radio do to the outbox are steps of its  *)
(* ring and no others, so in use the outbox is that queue; the whole stays *)
(* well formed; and no report is forgotten: for all values, intervals,     *)
(* attempts, capacities and clocks.                                        *)
(***************************************************************************)
EXTENDS Reporting, SequenceTheorems, TLAPS

-----------------------------------------------------------------------------
(* The ring is a queue                                                     *)

Places == 0..(Capacity - 1)

Rings == [Places -> Values \cup {Nothing}]

(* The n entries of the ring r from slot h on.                             *)
Read(r, h, n) == [i \in 1..n |-> r[Slot(h, i - 1)]]

(* A live slot holds an entry; what the others hold does not matter.       *)
Live(r, h, n) == \A k \in 0..(n - 1) : r[Slot(h, k)] \in Values

IInv == RingOK /\ Live(slots, head, len)

(* `(head + offset) % N` wraps at most once.                               *)
LEMMA SlotWraps ==
    ASSUME NEW h \in Places, NEW k \in 0..Capacity
    PROVE  /\ h + k < Capacity => Slot(h, k) = h + k
           /\ h + k >= Capacity => Slot(h, k) = h + k - Capacity
           /\ Slot(h, k) \in Places
  <1>1. /\ Capacity \in Nat /\ Capacity > 0
        /\ h \in Nat /\ h < Capacity
        /\ k \in Nat /\ k <= Capacity
    BY RingCapacityAssumption DEF Places
  <1>2. CASE h + k < Capacity
    <2>1. (h + k) % Capacity = h + k
      BY <1>1, <1>2
    <2> QED
      BY <1>1, <1>2, <2>1 DEF Slot, Places
  <1>3. CASE h + k >= Capacity
    <2>1. (h + k) % Capacity = h + k - Capacity
      BY <1>1, <1>3
    <2> QED
      BY <1>1, <1>3, <2>1 DEF Slot, Places
  <1> QED
    BY <1>1, <1>2, <1>3

(* Two offsets of a live range are two slots.                              *)
LEMMA SlotsApart ==
    ASSUME NEW h \in Places, NEW j \in Places, NEW k \in Places,
           Slot(h, j) = Slot(h, k)
    PROVE  j = k
  <1>1. /\ Capacity \in Nat /\ h \in Int /\ j \in Int /\ k \in Int
        /\ 0 <= h /\ h < Capacity /\ 0 <= j /\ j < Capacity
        /\ 0 <= k /\ k < Capacity
        /\ j \in 0..Capacity /\ k \in 0..Capacity
    BY RingCapacityAssumption DEF Places
  <1>2. /\ h + j < Capacity => Slot(h, j) = h + j
        /\ h + j >= Capacity => Slot(h, j) = h + j - Capacity
    BY <1>1, SlotWraps
  <1>3. /\ h + k < Capacity => Slot(h, k) = h + k
        /\ h + k >= Capacity => Slot(h, k) = h + k - Capacity
    BY <1>1, SlotWraps
  <1> QED
    BY <1>1, <1>2, <1>3

(* Counting from the next slot is counting one further from this one.      *)
LEMMA SlotOfNext ==
    ASSUME NEW h \in Places, NEW k \in Places
    PROVE  /\ Slot(h, 1) \in Places
           /\ Slot(Slot(h, 1), k) = Slot(h, k + 1)
  <1>1. /\ Capacity \in Nat /\ h \in Int /\ k \in Int
        /\ 0 <= h /\ h < Capacity /\ 0 <= k /\ k < Capacity
        /\ 1 \in 0..Capacity /\ k \in 0..Capacity /\ k + 1 \in 0..Capacity
    BY RingCapacityAssumption DEF Places
  <1>2. PICK n \in Places : n = Slot(h, 1)
    BY <1>1, SlotWraps
  <1>3. /\ h + 1 < Capacity => n = h + 1
        /\ h + 1 >= Capacity => n = h + 1 - Capacity
    BY <1>1, <1>2, SlotWraps
  <1>4. /\ h + (k + 1) < Capacity => Slot(h, k + 1) = h + (k + 1)
        /\ h + (k + 1) >= Capacity => Slot(h, k + 1) = h + (k + 1) - Capacity
    BY <1>1, SlotWraps
  <1>5. /\ n + k < Capacity => Slot(n, k) = n + k
        /\ n + k >= Capacity => Slot(n, k) = n + k - Capacity
    BY <1>1, SlotWraps
  <1>6. Slot(n, k) = Slot(h, k + 1)
    BY <1>1, <1>3, <1>4, <1>5
  <1> QED
    BY <1>2, <1>6

(* The entries read are a sequence, oldest first.                          *)
LEMMA ReadIsSeq ==
    ASSUME NEW r, NEW h, NEW n \in Nat, Live(r, h, n)
    PROVE  /\ Read(r, h, n) \in Seq(Values)
           /\ Len(Read(r, h, n)) = n
           /\ \A i \in 1..n : Read(r, h, n)[i] = r[Slot(h, i - 1)]
  BY DEF Read, Live

(* Moving the head on drops the oldest entry and no other.                 *)
LEMMA MovingOnDropsOldest ==
    ASSUME NEW r, NEW h \in Places, NEW n \in 1..Capacity, Live(r, h, n)
    PROVE  /\ r[h] \in Values
           /\ Head(Read(r, h, n)) = r[h]
           /\ Read(r, h, n) # <<>>
           /\ Live(r, Slot(h, 1), n - 1)
           /\ Read(r, Slot(h, 1), n - 1) = Tail(Read(r, h, n))
  <1> DEFINE q == Read(r, h, n)
             t == Read(r, Slot(h, 1), n - 1)
  <1>1. n \in Nat /\ n - 1 \in Nat /\ n > 0 /\ Capacity \in Nat
    BY RingCapacityAssumption
  <1>2. q \in Seq(Values) /\ Len(q) = n /\ \A i \in 1..n : q[i] = r[Slot(h, i - 1)]
    BY <1>1, ReadIsSeq
  <1>3. Slot(h, 0) = h
    BY SlotWraps, RingCapacityAssumption DEF Places
  <1>4. \A k \in 0..(n - 2) : Slot(Slot(h, 1), k) = Slot(h, k + 1)
    BY <1>1, SlotOfNext DEF Places
  <1>5. Live(r, Slot(h, 1), n - 1)
    BY <1>1, <1>4 DEF Live
  <1>6. t \in Seq(Values) /\ Len(t) = n - 1
        /\ \A i \in 1..(n - 1) : t[i] = r[Slot(Slot(h, 1), i - 1)]
    BY <1>1, <1>5, ReadIsSeq
  <1>7. r[h] \in Values
    BY <1>1, <1>3 DEF Live
  <1>8. q[1] = r[h]
    BY <1>1, <1>2, <1>3
  <1> HIDE DEF q, t
  <1>9. q # <<>> /\ Head(q) = r[h]
    BY <1>1, <1>2, <1>8
  <1>10. t = Tail(q)
    <2>1. /\ Tail(q) \in Seq(Values)
          /\ Len(Tail(q)) = n - 1
          /\ \A i \in 1..(n - 1) : Tail(q)[i] = q[i + 1]
      BY <1>2, <1>9, HeadTailProperties
    <2>2. \A i \in 1..(n - 1) : t[i] = Tail(q)[i]
      <3> SUFFICES ASSUME NEW i \in 1..(n - 1)
                   PROVE  t[i] = Tail(q)[i]
        OBVIOUS
      <3>1. i - 1 \in 0..(n - 2) /\ i + 1 \in 1..n /\ (i - 1) + 1 = i /\ (i + 1) - 1 = i
        BY <1>1
      <3>2. t[i] = r[Slot(h, i)]
        BY <1>4, <1>6, <3>1
      <3>3. q[i + 1] = r[Slot(h, i)]
        BY <1>2, <3>1
      <3> QED
        BY <2>1, <3>2, <3>3
    <2> QED
      BY <1>6, <2>1, <2>2, SeqEqual
  <1> QED
    BY <1>5, <1>7, <1>9, <1>10 DEF q, t

(* A write to the slot after the live ones adds an entry at the end.       *)
LEMMA WritingAppends ==
    ASSUME NEW r \in Rings, NEW h \in Places, NEW n \in Places, NEW v \in Values,
           Live(r, h, n)
    PROVE  LET w == [r EXCEPT ![Slot(h, n)] = v]
           IN  /\ w \in Rings
               /\ Live(w, h, n + 1)
               /\ Read(w, h, n + 1) = Append(Read(r, h, n), v)
  <1> DEFINE w == [r EXCEPT ![Slot(h, n)] = v]
             q == Read(r, h, n)
             p == Read(w, h, n + 1)
  <1>1. n \in Nat /\ n + 1 \in Nat /\ Capacity \in Nat /\ n < Capacity
    BY RingCapacityAssumption DEF Places
  <1>2. Slot(h, n) \in Places
    BY <1>1, SlotWraps
  <1>3. w \in Rings /\ w[Slot(h, n)] = v
    BY <1>2 DEF Rings
  <1>4. \A k \in 0..(n - 1) : w[Slot(h, k)] = r[Slot(h, k)]
    <2> SUFFICES ASSUME NEW k \in 0..(n - 1)
                 PROVE  w[Slot(h, k)] = r[Slot(h, k)]
      OBVIOUS
    <2>1. k \in Places /\ k \in 0..Capacity /\ k # n
      BY <1>1 DEF Places
    <2>2. Slot(h, k) \in Places /\ Slot(h, k) # Slot(h, n)
      BY <2>1, SlotWraps, SlotsApart
    <2> QED
      BY <2>2 DEF Rings
  <1> HIDE DEF w
  <1>5. Live(w, h, n + 1)
    <2> SUFFICES ASSUME NEW k \in 0..n
                 PROVE  w[Slot(h, k)] \in Values
      BY <1>1 DEF Live
    <2>1. CASE k = n
      BY <1>3, <2>1
    <2>2. CASE k # n
      BY <1>1, <1>4, <2>2 DEF Live
    <2> QED
      BY <2>1, <2>2
  <1>6. q \in Seq(Values) /\ Len(q) = n /\ \A i \in 1..n : q[i] = r[Slot(h, i - 1)]
    BY <1>1, ReadIsSeq
  <1>7. /\ p \in Seq(Values) /\ Len(p) = n + 1
        /\ \A i \in 1..(n + 1) : p[i] = w[Slot(h, i - 1)]
    BY <1>1, <1>5, ReadIsSeq
  <1> HIDE DEF p, q
  <1>8. /\ Append(q, v) \in Seq(Values)
        /\ Len(Append(q, v)) = n + 1
        /\ \A i \in 1..n : Append(q, v)[i] = q[i]
        /\ Append(q, v)[n + 1] = v
    BY <1>6, AppendProperties
  <1>9. \A i \in 1..(n + 1) : p[i] = Append(q, v)[i]
    <2> SUFFICES ASSUME NEW i \in 1..(n + 1)
                 PROVE  p[i] = Append(q, v)[i]
      OBVIOUS
    <2>1. CASE i = n + 1
      <3>1. i - 1 = n
        BY <1>1, <2>1
      <3> QED
        BY <1>3, <1>7, <1>8, <2>1, <3>1
    <2>2. CASE i # n + 1
      <3>1. i \in 1..n /\ i - 1 \in 0..(n - 1)
        BY <1>1, <2>2
      <3> QED
        BY <1>4, <1>6, <1>7, <1>8, <3>1
    <2> QED
      BY <2>1, <2>2
  <1>10. p = Append(q, v)
    BY <1>7, <1>8, <1>9, SeqEqual
  <1> QED
    BY <1>3, <1>5, <1>10 DEF w, p, q

(* A pop hands out the oldest entry and leaves the others in place.        *)
LEMMA PopOldestKeeps ==
    ASSUME IInv, PopOldest
    PROVE  IInv' /\ Fifo!Pop
  <1>1. /\ head \in Places /\ len \in 1..Capacity /\ Live(slots, head, len)
        /\ head' = Slot(head, 1) /\ len' = len - 1 /\ slots' = slots
        /\ answer' = slots[head]
    BY RingCapacityAssumption DEF IInv, RingOK, PopOldest, Places
  <1>2. /\ slots[head] \in Values
        /\ Head(Contents) = slots[head]
        /\ Contents # <<>>
        /\ Live(slots, head, len)'
        /\ Contents' = Tail(Contents)
    <2>1. /\ slots[head] \in Values
          /\ Head(Read(slots, head, len)) = slots[head]
          /\ Read(slots, head, len) # <<>>
          /\ Live(slots, Slot(head, 1), len - 1)
          /\ Read(slots, Slot(head, 1), len - 1) = Tail(Read(slots, head, len))
      BY <1>1, MovingOnDropsOldest
    <2>2. Contents = Read(slots, head, len)
      BY DEF Contents, Read
    <2>3. Contents' = Read(slots, Slot(head, 1), len - 1)
      BY <1>1 DEF Contents, Read
    <2>4. Live(slots, head, len)'
      BY <1>1, <2>1 DEF Live
    <2> QED
      BY <2>1, <2>2, <2>3, <2>4
  <1>3. head' \in Places
    BY <1>1, SlotWraps, RingCapacityAssumption
  <1>4. RingOK'
    BY <1>1, <1>2, <1>3, RingCapacityAssumption DEF IInv, RingOK, Places
  <1> QED
    BY <1>1, <1>2, <1>4 DEF IInv, Fifo!Pop

(* A push appends; into a full ring, once the oldest entry made room.      *)
LEMMA PushKeeps ==
    ASSUME IInv, NEW v \in Values, Push(v)
    PROVE  IInv' /\ Fifo!Push(v)
  <1>1. /\ slots \in Rings /\ head \in Places /\ len \in 0..Capacity
        /\ Live(slots, head, len) /\ answer \in Values \cup {Nothing}
        /\ answer' = answer
    BY DEF IInv, RingOK, Push, Rings, Places
  <1>2. Len(Contents) = len
    BY <1>1, ReadIsSeq, RingCapacityAssumption DEF Read, Contents
  <1>3. ASSUME NEW h \in Places, NEW n \in Places, Live(slots, h, n),
               slots' = [slots EXCEPT ![Slot(h, n)] = v], head' = h, len' = n + 1
        PROVE  IInv' /\ Contents' = Append(Read(slots, h, n), v)
    <2>1. /\ slots' \in Rings
          /\ Live(slots', h, n + 1)
          /\ Read(slots', h, n + 1) = Append(Read(slots, h, n), v)
      BY <1>1, <1>3, WritingAppends
    <2>2. n + 1 \in 0..Capacity
      BY RingCapacityAssumption DEF Places
    <2>3. RingOK'
      BY <1>1, <1>3, <2>1, <2>2 DEF RingOK, Rings, Places
    <2>4. Live(slots, head, len)'
      BY <1>3, <2>1 DEF Live
    <2> QED
      BY <1>3, <2>1, <2>3, <2>4 DEF IInv, Read, Contents
  <1>4. CASE len = Capacity
    <2>1. /\ slots' = [slots EXCEPT ![Slot(Slot(head, 1), len - 1)] = v]
          /\ head' = Slot(head, 1)
          /\ len' = (len - 1) + 1
      BY <1>4 DEF Push
    <2>2. /\ len \in 1..Capacity /\ len - 1 \in Places
      BY <1>4, RingCapacityAssumption DEF Places
    <2>3. Slot(head, 1) \in Places
      BY <1>1, SlotWraps, RingCapacityAssumption
    <2>4. /\ Live(slots, Slot(head, 1), len - 1)
          /\ Read(slots, Slot(head, 1), len - 1) = Tail(Contents)
      <3>1. Contents = Read(slots, head, len)
        BY DEF Contents, Read
      <3> QED
        BY <1>1, <2>2, <3>1, MovingOnDropsOldest
    <2>5. IInv' /\ Contents' = Append(Tail(Contents), v)
      BY <1>3, <2>1, <2>2, <2>3, <2>4
    <2> QED
      BY <1>1, <1>2, <1>4, <2>5 DEF Fifo!Push, Fifo!Pushed
  <1>5. CASE len # Capacity
    <2>1. /\ slots' = [slots EXCEPT ![Slot(head, len)] = v]
          /\ head' = head
          /\ len' = len + 1
      BY <1>5 DEF Push
    <2>2. len \in Places
      BY <1>1, <1>5, RingCapacityAssumption DEF Places
    <2>3. IInv' /\ Contents' = Append(Contents, v)
      BY <1>1, <1>3, <2>1, <2>2 DEF Read, Contents
    <2> QED
      BY <1>1, <1>2, <1>5, <2>3 DEF Fifo!Push, Fifo!Pushed
  <1> QED
    BY <1>4, <1>5

(* An empty ring is an empty queue.                                        *)
LEMMA EmptyRing ==
    ASSUME RingInit
    PROVE  IInv /\ Fifo!Init
  <1>1. RingOK
    BY RingCapacityAssumption DEF RingInit, RingOK
  <1>2. Live(slots, head, len)
    BY DEF RingInit, Live
  <1>3. Contents = <<>>
    BY DEF RingInit, Contents
  <1> QED
    BY <1>1, <1>2, <1>3 DEF IInv, RingInit, Fifo!Init

(* Each step of the ring keeps it well formed and is a step of the queue.  *)
LEMMA EveryStep ==
    ASSUME IInv, [RingNext]_ringVars
    PROVE  IInv' /\ [Fifo!Next]_(Fifo!vars)
  <1>1. ASSUME NEW v \in Values, Push(v)
        PROVE  IInv' /\ [Fifo!Next]_(Fifo!vars)
    BY <1>1, PushKeeps DEF Fifo!Next
  <1>2. CASE PopOldest
    BY <1>2, PopOldestKeeps DEF Fifo!Next
  <1>3. CASE PopNone
    <2>1. Contents = <<>> /\ Contents' = Contents
      BY <1>3 DEF PopNone, Contents
    <2>2. IInv'
      BY <1>3 DEF PopNone, IInv, RingOK, Live
    <2> QED
      BY <1>3, <2>1, <2>2 DEF PopNone, Fifo!Next, Fifo!PopNothing
  <1>4. CASE Clear
    <2>1. Contents' = <<>>
      BY <1>4 DEF Clear, Contents
    <2>2. RingOK'
      BY <1>4, RingCapacityAssumption DEF Clear, RingOK
    <2>3. Live(slots, head, len)'
      BY <1>4 DEF Clear, Live
    <2> QED
      BY <1>4, <2>1, <2>2, <2>3 DEF Clear, IInv, Fifo!Next, Fifo!Clear
  <1>5. CASE UNCHANGED ringVars
    <2>1. IInv'
      BY <1>5 DEF ringVars, IInv, RingOK, Live
    <2>2. UNCHANGED Fifo!vars
      BY <1>5 DEF ringVars, Fifo!vars, Contents
    <2> QED
      BY <2>1, <2>2
  <1> QED
    BY <1>1, <1>2, <1>3, <1>4, <1>5 DEF RingNext

(* The slots, the head and the length of `Queue` stay in range.            *)
THEOREM RingInRange == RingSpec => []RingOK
  <1>1. IInv => RingOK
    BY DEF IInv
  <1> QED
    BY <1>1, EmptyRing, EveryStep, PTL DEF RingSpec

(* `Queue` hands out its entries in the order they were pushed and gives up*)
(* one only when full, and then the oldest, for every N.                   *)
THEOREM RingIsFifo == RingSpec => ImplementsFifo
  BY EmptyRing, EveryStep, PTL DEF RingSpec, ImplementsFifo, Fifo!Spec

-----------------------------------------------------------------------------
(* The outbox in use                                                       *)

(* The value reported is one the outbox carries.                           *)
LEMMA ValuesOfTheOutbox == Settings \subseteq Values /\ Other \in Values
  BY ReportingAssumption


ValueOK == value \in Settings

(* Every step is a step of the ring, or leaves it alone.                   *)
LEMMA StepOfTheRing ==
    ASSUME ValueOK, [Next]_vars
    PROVE  [RingNext]_ringVars
  <1>1. value \in Values /\ Other \in Values
    BY ValuesOfTheOutbox DEF ValueOK
  <1>2. ASSUME NEW elapsed, Tick(elapsed)
        PROVE  [RingNext]_ringVars
    BY <1>1, <1>2 DEF Tick, PushReport, RingNext
  <1>3. CASE Traffic
    BY <1>1, <1>3 DEF Traffic, PushOther, RingNext
  <1>4. CASE Drain
    BY <1>4 DEF Drain, TakeFrame, OutboxEmpty, OfferAgain, Delivered, GiveUp, RingNext
  <1>5. CASE Restart
    BY <1>5 DEF Restart, RingNext
  <1>6. CASE Change \/ ConfigureReporting \/ Leave \/ Join
    BY <1>6 DEF Change, ConfigureReporting, Leave, Join
  <1>7. CASE TransmitDone \/ TransmitFailed \/ LateReport
    BY <1>7 DEF TransmitDone, TransmitFailed, LateReport
  <1>8. CASE UNCHANGED vars
    BY <1>8 DEF vars
  <1> QED
    BY <1>2, <1>3, <1>4, <1>5, <1>6, <1>7, <1>8 DEF Next, TickPasses

(* The attribute keeps one of its values.                                  *)
LEMMA ValueStays ==
    ASSUME ValueOK, [Next]_vars
    PROVE  ValueOK'
  <1>1. ASSUME NEW elapsed, Tick(elapsed)
        PROVE  ValueOK'
    BY <1>1 DEF ValueOK, Tick
  <1>2. CASE Traffic \/ Change \/ ConfigureReporting \/ Leave \/ Join
    BY <1>2 DEF ValueOK, Traffic, Change, ConfigureReporting, Leave, Join, attributeVars
  <1>3. CASE Drain
    BY <1>3 DEF ValueOK, Drain, TakeFrame, OutboxEmpty, OfferAgain, Delivered, GiveUp, attributeVars
  <1>4. CASE TransmitDone \/ TransmitFailed \/ LateReport
    BY <1>4 DEF ValueOK, TransmitDone, TransmitFailed, LateReport, attributeVars
  <1>5. CASE Restart \/ UNCHANGED vars
    BY <1>5 DEF ValueOK, Restart, vars
  <1> QED
    BY <1>1, <1>2, <1>3, <1>4, <1>5 DEF Next, TickPasses

(* The outbox as the device and the radio use it is a run of the ring.     *)
THEOREM OutboxIsRing == Spec => RingSpec
  <1>1. Init => RingInit /\ ValueOK
    BY DEF Init, ValueOK
  <1> QED
    BY <1>1, StepOfTheRing, ValueStays, PTL DEF Spec, RingSpec

(* Frames leave the outbox in the order they were queued, and one is given *)
(* up only when the outbox is full, and then the oldest.                   *)
THEOREM OutboxIsFifo == Spec => ImplementsFifo
  BY OutboxIsRing, RingIsFifo

(* All but the ring.                                                       *)
RestOK ==
    /\ {value, heard} \subseteq Settings
    /\ reporting \subseteq Intervals
    /\ quiet \in 0..(Wrap - 1)
    /\ failures \in 0..(Failures - 1)
    /\ stage \in {"receive", "send"} /\ pushed \in 0..Burst
    /\ attempt \in 0..Attempts
    /\ air \in Values \cup {Nothing}
    /\ {pending, joined, done, failed, straggler, lost} \subseteq BOOLEAN

(* The clock's remainder is a time of the clock.                           *)
LEMMA Remainders ==
    /\ \A t \in Nat : t % Wrap \in 0..(Wrap - 1)
    /\ \A n \in Nat : n % Failures \in 0..(Failures - 1)
  BY ReportingAssumption

(* Every count starts at nothing.                                          *)
LEMMA Starts ==
    /\ 0 \in 0..(Wrap - 1) /\ 0 \in 0..(Failures - 1)
    /\ 0 \in 0..Burst /\ 0 \in 0..Attempts
  BY ReportingAssumption

(* Offering a frame of the ring keeps the radio well formed.               *)
LEMMA OfferKeeps ==
    ASSUME RestOK, NEW frame \in Values \cup {Nothing}, NEW n \in 0..Attempts,
           Offer(frame, n)
    PROVE  /\ attempt' \in 0..Attempts /\ air' \in Values \cup {Nothing}
           /\ heard' \in Settings
           /\ {done', failed', straggler', lost'} \subseteq BOOLEAN
  BY DEF RestOK, Offer, LosingUnheard, Losing

(* A step of the loop over the outbox keeps the rest well formed.          *)
LEMMA DrainKeeps ==
    ASSUME RingOK, RestOK, Drain
    PROVE  RestOK'
  <1>1. Attempts \in Nat \ {0}
    BY ReportingAssumption
  <1>2. CASE TakeFrame
    <2>1. slots[head] \in Values \cup {Nothing} /\ 1 \in 0..Attempts
      BY <1>1 DEF RingOK
    <2>2. Offer(slots[head], 1)
      BY <1>2 DEF TakeFrame
    <2> QED
      BY <1>2, <2>1, <2>2, OfferKeeps DEF TakeFrame, RestOK, attributeVars, networkVars
  <1>3. CASE OutboxEmpty
    BY <1>3, ReportingAssumption
       DEF OutboxEmpty, RestOK, attributeVars, networkVars, radioVars
  <1>4. CASE OfferAgain
    <2>1. answer \in Values \cup {Nothing} /\ attempt + 1 \in 0..Attempts
      BY <1>1, <1>4 DEF OfferAgain, RingOK
    <2>2. Offer(answer, attempt + 1)
      BY <1>4 DEF OfferAgain
    <2> QED
      BY <1>4, <2>1, <2>2, OfferKeeps DEF OfferAgain, RestOK, attributeVars, networkVars
  <1>5. CASE Delivered
    BY <1>1, <1>5, ReportingAssumption DEF Delivered, RestOK, attributeVars
  <1>6. CASE GiveUp
    <2>1. failures' \in 0..(Failures - 1) /\ joined' \in BOOLEAN
      <3>1. failures + 1 \in Nat
        BY ReportingAssumption DEF RestOK
      <3>2. (failures + 1) % Failures \in 0..(Failures - 1)
        BY <3>1, Remainders
      <3> QED
        BY <1>6, <3>2 DEF GiveUp, RestOK, networkVars
    <2>2. lost' \in BOOLEAN
      BY <1>6 DEF GiveUp, RestOK, LosingUnheard, Losing
    <2> QED
      BY <1>1, <1>6, <2>1, <2>2 DEF GiveUp, RestOK, attributeVars
  <1> QED
    BY <1>2, <1>3, <1>4, <1>5, <1>6 DEF Drain

(* So does every other step.                                               *)
LEMMA EveryStepKeeps ==
    ASSUME RingOK, RestOK, [Next]_vars
    PROVE  RestOK'
  <1>1. ASSUME NEW elapsed \in 0..MaxElapsed, Tick(elapsed)
        PROVE  RestOK'
    <2>1. quiet' \in 0..(Wrap - 1)
      <3>1. quiet + elapsed \in Nat
        BY <1>1, ReportingAssumption DEF RestOK
      <3>2. (quiet + elapsed) % Wrap \in 0..(Wrap - 1) /\ 0 \in 0..(Wrap - 1)
        BY <3>1, Remainders, ReportingAssumption
      <3> QED
        BY <1>1, <3>2 DEF Tick
    <2>2. pending' \in BOOLEAN /\ lost' \in BOOLEAN
      BY <1>1 DEF Tick, PushReport, RestOK
    <2> QED
      BY <1>1, <2>1, <2>2 DEF Tick, RestOK, networkVars, radioVars
  <1>2. CASE Traffic
    <2>1. pushed' \in 0..Burst /\ lost' \in BOOLEAN /\ heard' = heard
      BY <1>2, ReportingAssumption DEF Traffic, PushOther, Losing, RestOK
    <2> QED
      BY <1>2, <2>1 DEF Traffic, RestOK, attributeVars, networkVars, radioVars
  <1>3. CASE Change
    BY <1>3 DEF Change, RestOK, networkVars, radioVars
  <1>4. CASE ConfigureReporting
    BY <1>4 DEF ConfigureReporting, RestOK, networkVars, radioVars
  <1>5. CASE Leave \/ Join
    BY <1>5 DEF Leave, Join, RestOK, attributeVars, radioVars
  <1>6. CASE Drain
    BY <1>6, DrainKeeps
  <1>7. CASE TransmitDone
    BY <1>7 DEF TransmitDone, RestOK, attributeVars, networkVars
  <1>8. CASE TransmitFailed
    <2>1. lost' \in BOOLEAN
      BY <1>8 DEF TransmitFailed, RestOK, LosingUnheard, Losing
    <2> QED
      BY <1>8, <2>1 DEF TransmitFailed, RestOK, attributeVars, networkVars
  <1>9. CASE LateReport
    BY <1>9 DEF LateReport, RestOK, attributeVars, networkVars
  <1>10. CASE Restart
    BY <1>10, Starts DEF Restart, RestOK
  <1>11. CASE UNCHANGED vars
    BY <1>11 DEF vars, attributeVars, networkVars, radioVars, RestOK
  <1>12. 0 \in 0..MaxElapsed /\ 1..MaxElapsed \subseteq 0..MaxElapsed
    BY ReportingAssumption
  <1> QED
    BY <1>1, <1>2, <1>3, <1>4, <1>5, <1>6, <1>7, <1>8, <1>9, <1>10, <1>11, <1>12
       DEF Next, TickPasses

(* Attribute, intervals, counters and radio keep their types, through      *)
(* refusals, late callbacks and restarts, whatever the ring hands out.     *)
THEOREM ReportingInRange == Spec => []TypeOK
  <1>1. Init => RestOK
    BY Starts DEF Init, RestOK
  <1>2. Spec => []RingOK
    BY OutboxIsRing, RingInRange
  <1>3. RingOK /\ RestOK => TypeOK
    BY DEF RestOK, TypeOK
  <1> QED
    BY <1>1, <1>2, <1>3, EveryStepKeeps, PTL DEF Spec

-----------------------------------------------------------------------------
(* The latest report                                                       *)

NoReport(q) == \A i \in 1..Len(q) : q[i] \notin Settings

(* The last report of a queue carries v.                                   *)
Latest(q, v) == \E i \in 1..Len(q) : /\ q[i] = v
                                     /\ \A j \in 1..Len(q) : j > i => q[j] \notin Settings

(* The latest report in flight, in the outbox, in the radio's hand or with *)
(* the driver, carries the value; with none the coordinator heard it.      *)
Owed ==
    IF ~NoReport(Contents) THEN Latest(Contents, value)
    ELSE IF attempt > 0 /\ answer \in Settings THEN answer = value
    ELSE IF air \in Settings THEN air = value
    ELSE heard = value

(* The driver has the frame in hand, or is done with it.                   *)
HandOK ==
    attempt > 0 =>
        /\ air = answer \/ air = Nothing
        /\ air = Nothing /\ answer \in Settings => (done /\ failed) \/ heard = answer

ReportInv == IInv /\ RestOK /\ HandOK /\ (pending \/ lost \/ Owed)

(* A report queued is the latest.                                          *)
LEMMA ReportIsLatest ==
    ASSUME NEW q \in Seq(Values), NEW v \in Settings
    PROVE  Latest(Append(q, v), v) /\ ~NoReport(Append(q, v))
  <1>1. v \in Values
    BY ValuesOfTheOutbox
  <1>2. /\ Len(q) \in Nat /\ Len(Append(q, v)) = Len(q) + 1
        /\ Append(q, v)[Len(q) + 1] = v
    BY <1>1, AppendProperties
  <1> QED
    BY <1>2 DEF Latest, NoReport

(* Any other frame queued leaves the latest report what it was.            *)
LEMMA OtherIsNone ==
    ASSUME NEW q \in Seq(Values), NEW v
    PROVE  /\ Latest(q, v) => Latest(Append(q, Other), v)
           /\ NoReport(Append(q, Other)) <=> NoReport(q)
  <1>1. Other \in Values /\ Other \notin Settings
    BY ReportingAssumption
  <1> DEFINE p == Append(q, Other)
  <1>2. /\ Len(q) \in Nat /\ Len(p) = Len(q) + 1
        /\ p[Len(q) + 1] = Other
        /\ \A i \in 1..Len(q) : p[i] = q[i]
    BY <1>1, AppendProperties
  <1> HIDE DEF p
  <1>3. ASSUME Latest(q, v)
        PROVE  Latest(p, v)
    <2>1. PICK i \in 1..Len(q) : /\ q[i] = v
                                 /\ \A j \in 1..Len(q) : j > i => q[j] \notin Settings
      BY <1>3 DEF Latest
    <2>2. i \in 1..Len(p) /\ p[i] = v
      BY <1>2, <2>1
    <2>3. ASSUME NEW j \in 1..Len(p), j > i
          PROVE  p[j] \notin Settings
      <3>1. CASE j = Len(q) + 1
        BY <1>1, <1>2, <3>1
      <3>2. CASE j # Len(q) + 1
        BY <1>2, <2>1, <2>3, <3>2
      <3> QED
        BY <3>1, <3>2
    <2> QED
      BY <2>2, <2>3 DEF Latest
  <1>4. NoReport(p) <=> NoReport(q)
    <2>1. ASSUME NoReport(q), NEW j \in 1..Len(p)
          PROVE  p[j] \notin Settings
      <3>1. CASE j = Len(q) + 1
        BY <1>1, <1>2, <3>1
      <3>2. CASE j # Len(q) + 1
        BY <1>2, <2>1, <3>2 DEF NoReport
      <3> QED
        BY <3>1, <3>2
    <2>2. ASSUME NoReport(p), NEW j \in 1..Len(q)
          PROVE  q[j] \notin Settings
      BY <1>2, <2>2 DEF NoReport
    <2> QED
      BY <2>1, <2>2 DEF NoReport
  <1> QED
    BY <1>3, <1>4 DEF p

(* Taking the oldest frame takes the latest report only if it is the last. *)
LEMMA TakingTheOldest ==
    ASSUME NEW q \in Seq(Values), q # <<>>, NEW v \in Settings
    PROVE  /\ Tail(q) \in Seq(Values)
           /\ NoReport(q) => NoReport(Tail(q)) /\ Head(q) \notin Settings
           /\ Head(q) \notin Settings /\ NoReport(Tail(q)) => NoReport(q)
           /\ Latest(q, v) /\ ~NoReport(Tail(q)) => Latest(Tail(q), v)
           /\ Latest(q, v) /\ NoReport(Tail(q)) => Head(q) = v
  <1> DEFINE t == Tail(q)
  <1>1. /\ Len(q) \in Nat /\ Len(q) >= 1 /\ Head(q) = q[1]
        /\ t \in Seq(Values) /\ Len(t) = Len(q) - 1
        /\ \A i \in 1..Len(t) : t[i] = q[i + 1]
    BY HeadTailProperties, EmptySeq
  <1> HIDE DEF t
  <1>2. \A j \in 1..Len(q) : j > 1 => j - 1 \in 1..Len(t) /\ t[j - 1] = q[j]
    BY <1>1
  <1>3. NoReport(q) => NoReport(t) /\ Head(q) \notin Settings
    BY <1>1 DEF NoReport
  <1>4. Head(q) \notin Settings /\ NoReport(t) => NoReport(q)
    <2> SUFFICES ASSUME Head(q) \notin Settings, NoReport(t), NEW j \in 1..Len(q)
                 PROVE  q[j] \notin Settings
      BY DEF NoReport
    <2>1. CASE j = 1
      BY <1>1, <2>1
    <2>2. CASE j > 1
      BY <1>2, <2>2 DEF NoReport
    <2> QED
      BY <1>1, <2>1, <2>2
  <1>5. ASSUME NEW i \in 1..Len(q), q[i] = v,
               \A j \in 1..Len(q) : j > i => q[j] \notin Settings
        PROVE  /\ ~NoReport(t) => Latest(t, v)
               /\ NoReport(t) => i = 1
    <2>1. CASE i = 1
      <3>1. \A k \in 1..Len(t) : t[k] \notin Settings
        BY <1>1, <1>5, <2>1
      <3> QED
        BY <2>1, <3>1 DEF NoReport
    <2>2. CASE i > 1
      <3>1. i - 1 \in 1..Len(t) /\ t[i - 1] = v
        BY <1>2, <1>5, <2>2
      <3>2. \A k \in 1..Len(t) : k > i - 1 => t[k] \notin Settings
        BY <1>1, <1>5
      <3> QED
        BY <3>1, <3>2 DEF Latest, NoReport
    <2> QED
      BY <1>1, <2>1, <2>2
  <1> QED
    BY <1>1, <1>3, <1>4, <1>5 DEF Latest, t

(* No report waits in a queue without one.                                 *)
LEMMA NoneWaiting ==
    ASSUME NEW q \in Seq(Values), NEW n, n = Len(q)
    PROVE  NoReport(q) <=> {q[i] : i \in 1..n} \cap Settings = {}
  BY DEF NoReport

(* The outbox as a queue.                                                  *)
LEMMA OutboxAsQueue ==
    ASSUME IInv
    PROVE  /\ Contents \in Seq(Values)
           /\ Len(Contents) = len
           /\ NoReport(Contents) <=> Waiting \cap Settings = {}
           /\ len > 0 => Contents # <<>> /\ Head(Contents) = slots[head]
  <1>1. len \in Nat /\ Live(slots, head, len) /\ head \in Places
    BY RingCapacityAssumption DEF IInv, RingOK, Places
  <1>2. Contents \in Seq(Values) /\ Len(Contents) = len
    BY <1>1, ReadIsSeq DEF Contents, Read
  <1>3. NoReport(Contents) <=> Waiting \cap Settings = {}
    BY <1>2, NoneWaiting DEF Waiting
  <1>4. ASSUME len > 0
        PROVE  Contents # <<>> /\ Head(Contents) = slots[head]
    <2>1. len \in 1..Capacity
      BY <1>4, RingCapacityAssumption DEF IInv, RingOK
    <2>2. Contents = Read(slots, head, len)
      BY DEF Contents, Read
    <2> QED
      BY <1>1, <2>1, <2>2, MovingOnDropsOldest
  <1> QED
    BY <1>2, <1>3, <1>4

(* The same of the outbox a step leaves behind.                            *)
LEMMA OutboxAfter ==
    ASSUME IInv'
    PROVE  NoReport(Contents') <=> Waiting' \cap Settings = {}
  <1>1. len' \in Nat /\ Live(slots', head', len')
    <2>1. len' \in 0..Capacity /\ Capacity \in Nat
      BY RingCapacityAssumption DEF IInv, RingOK
    <2>2. Live(slots, head, len)'
      BY DEF IInv
    <2>3. Live(slots', head', len')
      BY <2>2 DEF Live
    <2> QED
      BY <2>1, <2>3
  <1>2. Contents' \in Seq(Values) /\ Len(Contents') = len'
    BY <1>1, ReadIsSeq DEF Contents, Read
  <1> QED
    BY <1>2, NoneWaiting DEF Waiting

(* A step that leaves the outbox alone leaves its queue alone.             *)
LEMMA OutboxStays ==
    ASSUME UNCHANGED ringVars
    PROVE  Contents' = Contents /\ Waiting' = Waiting /\ answer' = answer
  BY DEF ringVars, Contents, Waiting

(* Another frame queued leaves the latest report owed, or it is lost.      *)
LEMMA TrafficOwes ==
    ASSUME ReportInv, Traffic
    PROVE  HandOK' /\ (pending \/ lost \/ Owed)'
  <1>1. /\ Other \in Values /\ value \in Settings
        /\ Push(Other) /\ UNCHANGED <<heard, value, pending, attempt, air, done, failed>>
        /\ Losing(IF len = Capacity THEN slots[head] ELSE Nothing, Waiting')
    BY ValuesOfTheOutbox DEF ReportInv, RestOK, Traffic, PushOther, attributeVars, radioVars
  <1>2. IInv' /\ Fifo!Push(Other) /\ answer' = answer
    BY <1>1, PushKeeps DEF ReportInv, Push
  <1>3. /\ Contents \in Seq(Values) /\ Len(Contents) = len /\ len \in Nat
        /\ len > 0 => Contents # <<>> /\ Head(Contents) = slots[head]
    BY OutboxAsQueue, RingCapacityAssumption DEF ReportInv, IInv, RingOK
  <1>4. HandOK'
    BY <1>1, <1>2 DEF HandOK, ReportInv
  <1> DEFINE left == IF len = Capacity THEN Tail(Contents) ELSE Contents
  <1>5. Contents' = Append(left, Other)
    BY <1>2, <1>3 DEF Fifo!Push, Fifo!Pushed
  <1>6. left \in Seq(Values)
    BY <1>3, RingCapacityAssumption, TakingTheOldest, <1>1
  <1>7. /\ Latest(left, value) => Latest(Contents', value)
        /\ NoReport(Contents') <=> NoReport(left)
    BY <1>5, <1>6, OtherIsNone
  <1>8. NoReport(Contents') => Waiting' \cap Settings = {}
    BY <1>2, OutboxAfter
  <1>9. ASSUME Owed, ~lost'
        PROVE  Owed'
    <2>1. CASE NoReport(Contents)
      <3>1. NoReport(left)
        BY <1>1, <1>3, <2>1, RingCapacityAssumption, TakingTheOldest
      <3> QED
        BY <1>1, <1>2, <1>7, <1>9, <2>1, <3>1 DEF Owed
    <2>2. CASE ~NoReport(Contents) /\ ~NoReport(left)
      <3>1. Latest(left, value)
        BY <1>1, <1>3, <1>9, <2>2, RingCapacityAssumption, TakingTheOldest DEF Owed
      <3> QED
        BY <1>1, <1>7, <2>2, <3>1 DEF Owed
    <2>3. CASE ~NoReport(Contents) /\ NoReport(left)
      <3>1. len = Capacity /\ Contents # <<>> /\ Head(Contents) = slots[head]
        BY <1>3, <2>3, RingCapacityAssumption
      <3>2. slots[head] \in Settings
        BY <1>1, <1>3, <2>3, <3>1, TakingTheOldest
      <3>3. Waiting' \cap Settings = {}
        BY <1>7, <1>8, <2>3
      <3> QED
        BY <1>1, <1>9, <3>1, <3>2, <3>3 DEF Losing
    <2> QED
      BY <2>1, <2>2, <2>3
  <1>10. lost => lost'
    BY <1>1 DEF Losing
  <1> QED
    BY <1>1, <1>4, <1>9, <1>10 DEF ReportInv

(* So does a step on the clock, and a report it queues is the value.       *)
LEMMA TickOwes ==
    ASSUME ReportInv, NEW elapsed, Tick(elapsed)
    PROVE  HandOK' /\ (pending \/ lost \/ Owed)'
  <1>1. /\ value \in Settings /\ value \in Values
        /\ UNCHANGED <<heard, value, attempt, air, done, failed>>
    BY ValuesOfTheOutbox DEF ReportInv, RestOK, Tick, radioVars
  <1>2. CASE UNCHANGED <<ringVars, pending, lost>>
    <2>1. Contents' = Contents /\ answer' = answer
      BY <1>2, OutboxStays
    <2> QED
      BY <1>1, <1>2, <2>1 DEF ReportInv, HandOK, Owed
  <1>3. CASE Push(value)
    <2>1. Fifo!Push(value) /\ answer' = answer
      BY <1>1, <1>3, PushKeeps DEF ReportInv, Push
    <2>2. Contents \in Seq(Values) /\ Len(Contents) = len
      BY OutboxAsQueue DEF ReportInv
    <2>3. PICK q \in Seq(Values) : Contents' = Append(q, value)
      <3>1. Contents' = Append(IF len = Capacity THEN Tail(Contents) ELSE Contents, value)
        BY <2>1, <2>2 DEF Fifo!Push, Fifo!Pushed
      <3>2. len = Capacity => Contents # <<>>
        BY <2>2, RingCapacityAssumption
      <3> QED
        BY <1>1, <2>2, <3>1, <3>2, TakingTheOldest
    <2>4. Owed'
      BY <1>1, <2>3, ReportIsLatest DEF Owed
    <2>5. HandOK'
      BY <1>1, <2>1 DEF ReportInv, HandOK
    <2> QED
      BY <2>4, <2>5
  <1> QED
    BY <1>2, <1>3 DEF Tick, PushReport

(* Taking a frame: what the driver still had is heard, or lost, or behind  *)
(* it is a later report.                                                   *)
LEMMA TakingOwes ==
    ASSUME ReportInv, TakeFrame
    PROVE  HandOK' /\ (pending \/ lost \/ Owed)'
  <1>1. /\ value \in Settings /\ heard \in Settings
        /\ attempt = 0 /\ PopOldest /\ Offer(slots[head], 1)
        /\ UNCHANGED <<value, pending>>
    BY DEF ReportInv, RestOK, TakeFrame, attributeVars
  <1>2. /\ IInv' /\ Contents' = Tail(Contents) /\ answer' = slots[head]
    BY <1>1, PopOldestKeeps DEF ReportInv, Fifo!Pop, PopOldest
  <1>3. /\ Contents \in Seq(Values) /\ Contents # <<>> /\ Head(Contents) = slots[head]
    BY <1>1, OutboxAsQueue DEF ReportInv, PopOldest
  <1>4. /\ attempt' = 1 /\ air' = slots[head]
        /\ heard' \in {heard} \cup ({air} \cap Settings)
        /\ LosingUnheard(air, Waiting' \cup {slots[head]})
    BY <1>1 DEF Offer
  <1>5. HandOK'
    <2>1. slots[head] # Nothing
      BY <1>1, MovingOnDropsOldest, RingCapacityAssumption, RingNothingAssumption
         DEF ReportInv, IInv, RingOK, PopOldest, Places
    <2> QED
      BY <1>2, <1>4, <2>1 DEF HandOK
  <1>6. NoReport(Contents') => Waiting' \cap Settings = {}
    BY <1>2, OutboxAfter
  <1>7. ASSUME Owed, ~lost'
        PROVE  Owed'
    <2>1. CASE ~NoReport(Contents')
      <3>1. ~NoReport(Contents) /\ Latest(Contents', value)
        BY <1>1, <1>2, <1>3, <1>7, <2>1, TakingTheOldest DEF Owed
      <3> QED
        BY <1>1, <2>1, <3>1 DEF Owed
    <2>2. CASE NoReport(Contents') /\ slots[head] \in Settings
      <3>1. ~NoReport(Contents) /\ slots[head] = value
        BY <1>1, <1>2, <1>3, <1>7, <2>2, TakingTheOldest DEF Owed
      <3> QED
        BY <1>1, <1>2, <1>4, <2>2, <3>1 DEF Owed
    <2>3. CASE NoReport(Contents') /\ slots[head] \notin Settings
      <3>1. NoReport(Contents)
        BY <1>1, <1>2, <1>3, <2>3, TakingTheOldest
      <3>2. IF air \in Settings THEN air = value ELSE heard = value
        BY <1>1, <1>7, <3>1 DEF Owed
      <3>3. air \in Settings => heard' = air
        BY <1>4, <1>6, <1>7, <2>3 DEF LosingUnheard, Losing
      <3>4. heard' = value
        BY <1>4, <3>2, <3>3
      <3> QED
        BY <1>1, <1>2, <1>4, <2>3, <3>4 DEF Owed
    <2> QED
      BY <2>1, <2>2, <2>3
  <1>8. lost => lost'
    BY <1>4 DEF LosingUnheard, Losing
  <1> QED
    BY <1>1, <1>5, <1>7, <1>8 DEF ReportInv

(* A refusal: the frame is offered again, or lost with the last attempt.   *)
LEMMA RefusalOwes ==
    ASSUME ReportInv, OfferAgain \/ GiveUp
    PROVE  HandOK' /\ (pending \/ lost \/ Owed)'
  <1>1. /\ UNCHANGED <<ringVars, value, pending, done, failed>> \/ OfferAgain
        /\ UNCHANGED <<ringVars, value, pending>>
        /\ value \in Settings /\ attempt > 0
        /\ air = answer \/ air = Nothing
    BY ReportingAssumption
       DEF ReportInv, RestOK, HandOK, OfferAgain, GiveUp, attributeVars
  <1>2. Contents' = Contents /\ Waiting' = Waiting /\ answer' = answer
    BY <1>1, OutboxStays
  <1>3. NoReport(Contents) => Waiting \cap Settings = {}
    BY OutboxAsQueue DEF ReportInv
  <1>4. CASE OfferAgain
    <2>1. Offer(answer, attempt + 1) /\ attempt + 1 > 0
      BY <1>4, ReportingAssumption DEF OfferAgain
    <2>2. /\ attempt' = attempt + 1 /\ air' = answer
          /\ heard' \in {heard} \cup ({air} \cap Settings)
          /\ lost => lost'
      BY <2>1 DEF Offer, LosingUnheard, Losing
    <2>3. answer \notin Settings => heard' = heard /\ air \notin Settings
      BY <1>1, <2>2, ReportingAssumption, RingNothingAssumption
    <2>4. HandOK'
      <3>1. answer' = Nothing => answer' \notin Settings
        BY ReportingAssumption, RingNothingAssumption
      <3> QED
        BY <1>2, <2>2, <3>1 DEF HandOK
    <2>5. Owed => Owed'
      BY <1>1, <1>2, <2>1, <2>2, <2>3 DEF Owed
    <2> QED
      BY <1>1, <2>2, <2>4, <2>5 DEF ReportInv
  <1>5. CASE GiveUp
    <2>1. /\ attempt' = 0 /\ UNCHANGED <<heard, air>>
          /\ LosingUnheard(answer, Waiting \cup {air})
      BY <1>5 DEF GiveUp
    <2>2. HandOK'
      BY <2>1 DEF HandOK
    <2>3. ASSUME Owed, ~lost'
          PROVE  Owed'
      <3>1. CASE ~NoReport(Contents)
        BY <1>1, <1>2, <2>3, <3>1 DEF Owed
      <3>2. CASE NoReport(Contents) /\ answer \notin Settings
        BY <1>1, <1>2, <2>1, <2>3, <3>2 DEF Owed
      <3>3. CASE NoReport(Contents) /\ answer \in Settings
        <4>1. answer = value
          BY <1>1, <2>3, <3>3 DEF Owed
        <4>2. air \in Settings \/ heard = answer
          BY <1>3, <2>1, <2>3, <3>3 DEF LosingUnheard, Losing
        <4> QED
          BY <1>1, <1>2, <2>1, <3>3, <4>1, <4>2, ReportingAssumption,
             RingNothingAssumption DEF Owed
      <3> QED
        BY <3>1, <3>2, <3>3
    <2>4. lost => lost'
      BY <2>1 DEF LosingUnheard, Losing
    <2> QED
      BY <1>1, <2>2, <2>3, <2>4 DEF ReportInv
  <1> QED
    BY <1>4, <1>5

(* Dealt with, the frame is heard or still with the driver.                *)
LEMMA DeliveryOwes ==
    ASSUME ReportInv, Delivered \/ OutboxEmpty
    PROVE  HandOK' /\ (pending \/ lost \/ Owed)'
  <1>1. /\ UNCHANGED <<value, pending, lost, air, heard>>
        /\ attempt' = 0 /\ Contents' = Contents
    <2>1. CASE Delivered
      BY <2>1, OutboxStays DEF Delivered, attributeVars
    <2>2. CASE OutboxEmpty
      BY <2>2 DEF OutboxEmpty, PopNone, Contents, attributeVars, radioVars
    <2> QED
      BY <2>1, <2>2
  <1>2. HandOK'
    BY <1>1 DEF HandOK
  <1>3. ASSUME attempt > 0, answer \in Settings
        PROVE  air = answer \/ (air \notin Settings /\ heard = answer)
    <2>1. Delivered
      BY <1>3 DEF OutboxEmpty
    <2> QED
      BY <1>3, <2>1, ReportingAssumption, RingNothingAssumption
         DEF ReportInv, HandOK, Delivered
  <1>4. Owed => Owed'
    BY <1>1, <1>3 DEF Owed
  <1> QED
    BY <1>1, <1>2, <1>4 DEF ReportInv

(* What the driver reports of the frame it has, or of one overtaken.       *)
LEMMA DriverOwes ==
    ASSUME ReportInv, TransmitDone \/ TransmitFailed \/ LateReport
    PROVE  HandOK' /\ (pending \/ lost \/ Owed)'
  <1>1. /\ UNCHANGED <<value, pending, attempt, ringVars>>
        /\ value \in Settings /\ heard \in Settings
    BY DEF ReportInv, RestOK, TransmitDone, TransmitFailed, LateReport, attributeVars
  <1>2. Contents' = Contents /\ answer' = answer
    BY <1>1, OutboxStays
  <1>3. NoReport(Contents) => Waiting \cap Settings = {}
    BY OutboxAsQueue DEF ReportInv
  <1>4. Nothing \notin Settings
    BY ReportingAssumption, RingNothingAssumption
  <1>5. CASE LateReport
    <2>1. UNCHANGED <<air, heard, lost>>
      BY <1>5 DEF LateReport
    <2>2. done /\ failed => done' /\ failed'
      <3>1. done' = TRUE /\ (failed' = failed \/ failed' = TRUE)
        BY <1>5 DEF LateReport
      <3> QED
        BY <3>1, Zenon
    <2> QED
      BY <1>1, <1>2, <2>1, <2>2 DEF ReportInv, HandOK, Owed
  <1>6. CASE TransmitDone
    <2>1. /\ air # Nothing /\ air' = Nothing /\ lost' = lost
          /\ heard' = IF air \in Settings THEN air ELSE heard
      BY <1>6 DEF TransmitDone
    <2>2. HandOK'
      BY <1>1, <1>2, <2>1 DEF ReportInv, HandOK
    <2>3. Owed => Owed'
      BY <1>1, <1>2, <1>4, <2>1 DEF Owed
    <2> QED
      BY <1>1, <2>1, <2>2, <2>3 DEF ReportInv
  <1>7. CASE TransmitFailed
    <2>1. /\ air # Nothing /\ air' = Nothing /\ done' /\ failed'
          /\ heard' \in {heard} \cup ({air} \cap Settings)
          /\ LosingUnheard(air, Waiting \cup (IF attempt > 0 THEN {answer} ELSE {}))
          /\ lost => lost'
      BY <1>7 DEF TransmitFailed, LosingUnheard, Losing
    <2>2. HandOK'
      BY <1>1, <1>2, <2>1 DEF ReportInv, HandOK
    <2>3. ASSUME Owed, ~lost'
          PROVE  Owed'
      <3>1. CASE ~NoReport(Contents) \/ (attempt > 0 /\ answer \in Settings)
        BY <1>1, <1>2, <2>3, <3>1 DEF Owed
      <3>2. CASE NoReport(Contents) /\ ~(attempt > 0 /\ answer \in Settings)
        <4>1. IF air \in Settings THEN air = value ELSE heard = value
          BY <2>3, <3>2 DEF Owed
        <4>2. air \in Settings => heard' = air
          BY <1>3, <2>1, <2>3, <3>2 DEF LosingUnheard, Losing
        <4>3. heard' = value
          BY <2>1, <4>1, <4>2
        <4> QED
          BY <1>1, <1>2, <1>4, <2>1, <3>2, <4>3 DEF Owed
      <3> QED
        BY <3>1, <3>2
    <2> QED
      BY <1>1, <2>1, <2>2, <2>3 DEF ReportInv
  <1> QED
    BY <1>5, <1>6, <1>7

(* Every step keeps the latest report owed.                                *)
LEMMA EveryStepOwes ==
    ASSUME ReportInv, [Next]_vars
    PROVE  ReportInv'
  <1>1. RestOK'
    BY EveryStepKeeps DEF ReportInv, IInv
  <1>2. IInv'
    BY StepOfTheRing, EveryStep DEF ReportInv, RestOK, ValueOK
  <1>3. HandOK' /\ (pending \/ lost \/ Owed)'
    <2>1. ASSUME NEW elapsed, Tick(elapsed)
          PROVE  HandOK' /\ (pending \/ lost \/ Owed)'
      BY <2>1, TickOwes
    <2>2. CASE Traffic
      BY <2>2, TrafficOwes
    <2>3. CASE Drain
      BY <2>3, TakingOwes, RefusalOwes, DeliveryOwes DEF Drain
    <2>4. CASE TransmitDone \/ TransmitFailed \/ LateReport
      BY <2>4, DriverOwes
    <2>5. CASE Change \/ Leave
      BY <2>5, OutboxStays DEF Change, Leave, radioVars, ReportInv, HandOK
    <2>6. CASE ConfigureReporting \/ Join \/ UNCHANGED vars
      <3>1. UNCHANGED <<ringVars, value, pending, radioVars, heard, lost>>
        BY <2>6 DEF ConfigureReporting, Join, vars, attributeVars, radioVars
      <3> QED
        BY <3>1, OutboxStays DEF radioVars, ReportInv, HandOK, Owed
    <2>7. CASE Restart
      BY <2>7 DEF Restart, HandOK
    <2> QED
      BY <2>1, <2>2, <2>3, <2>4, <2>5, <2>6, <2>7 DEF Next, TickPasses
  <1> QED
    BY <1>1, <1>2, <1>3 DEF ReportInv

(* A report owed is on its way.                                            *)
LEMMA OwedIsInFlight ==
    ASSUME ReportInv
    PROVE  ReportedOrLost
  <1> SUFFICES ASSUME value # heard, Owed
               PROVE  value \in InFlight
    BY DEF ReportInv, ReportedOrLost
  <1>1. CASE Latest(Contents, value)
    <2>1. Len(Contents) = len
      BY OutboxAsQueue DEF ReportInv
    <2> QED
      BY <1>1, <2>1 DEF Latest, InFlight, Waiting
  <1>2. CASE ~Latest(Contents, value)
    BY <1>2 DEF Owed, InFlight
  <1> QED
    BY <1>1, <1>2

(* The coordinator hears of every change, or a report of it is owed or on  *)
(* its way, or the latest was lost where the code may lose it: through     *)
(* changes behind a report, a full outbox, retries, late callbacks and     *)
(* restarts, for any number of attempts and any size of the outbox.        *)
THEOREM NothingForgotten == Spec => []ReportedOrLost
  <1>1. Init => ReportInv
    <2>1. ASSUME Init
          PROVE  IInv /\ Contents = <<>>
      BY <2>1, EmptyRing DEF Init, RingInit, Contents
    <2>2. ASSUME Init
          PROVE  Owed /\ HandOK
      <3>1. NoReport(Contents)
        BY <2>1, <2>2 DEF NoReport
      <3> QED
        BY <2>2, <3>1, ReportingAssumption, RingNothingAssumption
           DEF Init, Owed, HandOK
    <2> QED
      BY <2>1, <2>2, Starts DEF Init, ReportInv, RestOK
  <1> QED
    BY <1>1, EveryStepOwes, OwedIsInFlight, PTL DEF Spec
=============================================================================
