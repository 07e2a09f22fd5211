-------------------------- MODULE FrameCounter_proofs --------------------------
(***************************************************************************)
(* The counters of one boot leave in order, and, as long as the event      *)
(* queue keeps what one turn of the loop raises, flash holds the end of the*)
(* range in use and no counter the network accepted comes back but where   *)
(* RangeProtects says, for every margin, queue, and number of uses.        *)
(***************************************************************************)
EXTENDS FrameCounter, SequenceTheorems, TLAPS

Events == Saved \cup {Note, Left}

StackType == [use : 1..UseBound, counter : Nat, persisted : Nat,
              outbox : Seq(Secured), events : Seq(Events)]

(* A well formed stack whose saved records are of uses up to u.            *)
StackOK(s, u) ==
    /\ s \in StackType
    /\ Len(s.outbox) <= OutboxCapacity
    /\ Len(s.events) <= EventCapacity
    /\ s.use <= u
    /\ \A i \in 1..Len(s.events) :
          s.events[i].kind = "saved" => s.events[i].use \in 1..u

(* The frames waiting follow the last one sent, and each other, and none   *)
(* is ahead of the counter that made them.                                 *)
Order(s, last) ==
    /\ last.use <= s.use
    /\ last.use = s.use => last.counter <= s.counter
    /\ \A i \in 1..Len(s.outbox) : s.outbox[i] # Plain =>
          /\ s.outbox[i].use \in 1..s.use
          /\ s.outbox[i].use = s.use => s.outbox[i].counter <= s.counter
          /\ Before(last, s.outbox[i])
          /\ \A j \in 1..(i - 1) :
                s.outbox[j] # Plain => Before(s.outbox[j], s.outbox[i])

-----------------------------------------------------------------------------
(* Queues                                                                  *)

(* p is q with v behind it and the first d entries gone.                   *)
Shifted(p, q, v, d) ==
    /\ Len(p) = Len(q) - d + 1
    /\ p[Len(p)] = v
    /\ \A i \in 1..(Len(p) - 1) : i + d \in 1..Len(q) /\ p[i] = q[i + d]

(* A push costs the oldest entry its place exactly when the queue is full. *)
LEMMA PushedIs ==
    ASSUME NEW S, NEW q \in Seq(S), NEW v \in S,
           NEW capacity \in Nat \ {0}, Len(q) <= capacity
    PROVE  /\ Pushed(q, v, capacity) \in Seq(S)
           /\ Len(Pushed(q, v, capacity)) \in 1..capacity
           /\ \E d \in {0, 1} : /\ d = 1 <=> Len(q) = capacity
                              /\ Shifted(Pushed(q, v, capacity), q, v, d)
  <1> DEFINE d == IF Len(q) = capacity THEN 1 ELSE 0
             t == IF Len(q) = capacity THEN Tail(q) ELSE q
             p == Append(t, v)
  <1>1. Len(q) \in Nat
    OBVIOUS
  <1>2. /\ t \in Seq(S) /\ Len(t) = Len(q) - d
        /\ \A i \in 1..Len(t) : i + d \in 1..Len(q) /\ t[i] = q[i + d]
    <2>1. CASE Len(q) = capacity
      <3>1. q # <<>>
        BY <2>1
      <3> QED
        BY <1>1, <2>1, <3>1, HeadTailProperties
    <2>2. CASE Len(q) # capacity
      BY <1>1, <2>2
    <2> QED
      BY <2>1, <2>2
  <1> HIDE DEF t
  <1>3. /\ p \in Seq(S) /\ Len(p) = Len(t) + 1 /\ p[Len(t) + 1] = v
        /\ \A i \in 1..Len(t) : p[i] = t[i]
    BY <1>2, AppendProperties
  <1>4. p = Pushed(q, v, capacity)
    BY DEF Pushed, t
  <1> HIDE DEF p
  <1>5. d \in {0, 1} /\ (d = 1 <=> Len(q) = capacity)
    OBVIOUS
  <1> HIDE DEF d
  <1>6. Shifted(p, q, v, d)
    BY <1>1, <1>2, <1>3, <1>5 DEF Shifted
  <1> QED
    BY <1>1, <1>2, <1>3, <1>4, <1>5, <1>6

-----------------------------------------------------------------------------
(* What the operations do to the fields of a stack                         *)

LEMMA Capacities ==
    /\ OutboxCapacity \in Nat \ {0} /\ EventCapacity \in Nat \ {0}
    /\ Margin \in Nat /\ UseBound \in Nat \ {0} /\ Burst \in Nat
  BY FrameCounterAssumption

(* A frame queued.                                                         *)
LEMMA EnqueueFields ==
    ASSUME NEW u, NEW s, StackOK(s, u), NEW frame \in Secured
    PROVE  LET t == Enqueue(s, frame)
           IN  /\ StackOK(t, u)
               /\ t.use = s.use /\ t.counter = s.counter
               /\ t.persisted = s.persisted /\ t.events = s.events
               /\ t.outbox = Pushed(s.outbox, frame, OutboxCapacity)
  <1>1. /\ Pushed(s.outbox, frame, OutboxCapacity) \in Seq(Secured)
        /\ Len(Pushed(s.outbox, frame, OutboxCapacity)) <= OutboxCapacity
    BY PushedIs, Capacities DEF StackOK, StackType
  <1> QED
    BY <1>1 DEF Enqueue, StackOK, StackType

(* An event raised.                                                        *)
LEMMA EmitFields ==
    ASSUME NEW u \in Nat, NEW s, StackOK(s, u), NEW event \in Events,
           event.kind = "saved" => event.use \in 1..u
    PROVE  LET t == Emit(s, event)
           IN  /\ StackOK(t, u)
               /\ t.use = s.use /\ t.counter = s.counter
               /\ t.persisted = s.persisted /\ t.outbox = s.outbox
               /\ t.events = Pushed(s.events, event, EventCapacity)
  <1> DEFINE p == Pushed(s.events, event, EventCapacity)
  <1>1. s.events \in Seq(Events) /\ Len(s.events) \in Nat
    BY DEF StackOK, StackType
  <1>2. /\ p \in Seq(Events) /\ Len(p) <= EventCapacity
        /\ p[Len(p)] = event
        /\ \A i \in 1..(Len(p) - 1) : \E j \in 1..Len(s.events) : p[i] = s.events[j]
    <2>1. EventCapacity \in Nat \ {0} /\ Len(s.events) <= EventCapacity
      BY Capacities DEF StackOK
    <2>2. /\ p \in Seq(Events) /\ Len(p) \in 1..EventCapacity
          /\ \E d \in {0, 1} : Shifted(p, s.events, event, d)
      BY <1>1, <2>1, PushedIs
    <2> QED
      BY <2>1, <2>2 DEF Shifted
  <1> HIDE DEF p
  <1>3. \A i \in 1..Len(p) : p[i].kind = "saved" => p[i].use \in 1..u
    BY <1>2 DEF StackOK
  <1>4. Emit(s, event) = [s EXCEPT !.events = p]
    BY DEF Emit, p
  <1> QED
    BY <1>2, <1>3, <1>4 DEF StackOK, StackType, p

(* A command frame queued.                                                 *)
LEMMA SendCommandFields ==
    ASSUME NEW u, NEW s, StackOK(s, u)
    PROVE  LET t == SendCommand(s)
           IN  /\ StackOK(t, u)
               /\ t.use = s.use /\ t.counter = s.counter + 1
               /\ t.persisted = s.persisted /\ t.events = s.events
               /\ t.outbox = Pushed(s.outbox, [use |-> s.use, counter |-> s.counter + 1],
                                    OutboxCapacity)
  <1> DEFINE c == [s EXCEPT !.counter = @ + 1]
             frame == [use |-> s.use, counter |-> s.counter + 1]
  <1>1. /\ StackOK(c, u)
        /\ c.use = s.use /\ c.counter = s.counter + 1
        /\ c.persisted = s.persisted /\ c.events = s.events /\ c.outbox = s.outbox
    BY DEF StackOK, StackType
  <1>2. frame \in Secured
    BY Capacities DEF StackOK, StackType, Secured
  <1>3. SendCommand(s) = Enqueue(c, frame)
    BY DEF SendCommand
  <1> HIDE DEF c, frame
  <1> QED
    BY <1>1, <1>2, <1>3, EnqueueFields DEF frame

(* A new range reserved.                                                   *)
LEMMA RememberFields ==
    ASSUME NEW u \in Nat, NEW s, StackOK(s, u)
    PROVE  LET t == Remember(s)
           IN  /\ StackOK(t, u)
               /\ t.use = s.use /\ t.counter = s.counter
               /\ t.persisted = s.counter + Margin /\ t.outbox = s.outbox
               /\ t.events = Pushed(s.events,
                     [kind |-> "saved", use |-> s.use, counter |-> s.counter + Margin],
                     EventCapacity)
  <1> DEFINE c == [s EXCEPT !.persisted = s.counter + Margin]
             event == [kind |-> "saved", use |-> s.use, counter |-> s.counter + Margin]
  <1>1. /\ StackOK(c, u)
        /\ c.use = s.use /\ c.counter = s.counter /\ c.persisted = s.counter + Margin
        /\ c.events = s.events /\ c.outbox = s.outbox
    <2>1. s \in StackType /\ s.counter + Margin \in Nat
      BY Capacities DEF StackOK, StackType
    <2>2. /\ c \in StackType
          /\ c.use = s.use /\ c.counter = s.counter /\ c.persisted = s.counter + Margin
          /\ c.events = s.events /\ c.outbox = s.outbox
      BY <2>1 DEF StackType
    <2> HIDE DEF c
    <2> QED
      BY <2>2 DEF StackOK
  <1>2. event \in Events /\ event.use \in 1..u
    BY Capacities DEF StackOK, StackType, Events, Saved
  <1>3. Remember(s) = Emit(c, event)
    BY DEF Remember
  <1> HIDE DEF c, event
  <1> QED
    BY <1>1, <1>2, <1>3, EmitFields DEF event

(* A stack for the next use.                                               *)
LEMMA NewUseFields ==
    ASSUME NEW s, StackOK(s, uses), uses \in Nat, uses < UseBound
    PROVE  LET t == NewUse(s)
           IN  /\ StackOK(t, uses + 1)
               /\ t.use = uses + 1 /\ t.counter = 0 /\ t.persisted = 0
               /\ t.outbox = s.outbox /\ t.events = s.events
  <1> DEFINE t == NewUse(s)
  <1>1. t = [s EXCEPT !.use = uses + 1, !.counter = 0, !.persisted = 0]
    BY DEF NewUse
  <1>2. /\ t \in StackType
        /\ t.use = uses + 1 /\ t.counter = 0 /\ t.persisted = 0
        /\ t.outbox = s.outbox /\ t.events = s.events
    <2>1. uses + 1 \in 1..UseBound /\ 0 \in Nat
      BY Capacities
    <2>2. s \in StackType
      BY DEF StackOK
    <2> QED
      BY <1>1, <2>1, <2>2 DEF StackType
  <1>3. \A i \in 1..Len(s.events) :
          s.events[i].kind = "saved" => s.events[i].use \in 1..(uses + 1)
    BY DEF StackOK
  <1> HIDE DEF t
  <1> QED
    BY <1>2, <1>3 DEF StackOK, t

-----------------------------------------------------------------------------
(* The order of the frames                                                 *)

(* Order is about the frames and the counter.                              *)
LEMMA OrderStays ==
    ASSUME NEW s, NEW t, NEW last, Order(s, last),
           t.use = s.use, t.counter = s.counter, t.outbox = s.outbox
    PROVE  Order(t, last)
  BY DEF Order

(* A plain frame, or the next secured one, at the end of the queue.        *)
LEMMA PushedInOrder ==
    ASSUME NEW u, NEW s, NEW t, StackOK(s, u), NEW last \in Secured, Order(s, last),
           NEW frame \in Secured,
           t.outbox = Pushed(s.outbox, frame, OutboxCapacity), t.use = s.use,
           \/ frame = Plain /\ t.counter = s.counter
           \/ /\ t.counter = s.counter + 1
              /\ frame = [use |-> s.use, counter |-> t.counter]
    PROVE  Order(t, last)
  <1> DEFINE q == s.outbox
             p == t.outbox
  <1>1. /\ s.use \in Nat /\ s.use >= 1 /\ s.counter \in Nat /\ t.counter \in Nat
        /\ last.use \in Nat /\ last.counter \in Nat
        /\ q \in Seq(Secured) /\ Len(q) \in Nat /\ Len(q) <= OutboxCapacity
    BY Capacities DEF StackOK, StackType, Secured
  <1>2. PICK d \in {0, 1} : Shifted(p, q, frame, d) /\ p \in Seq(Secured)
    BY <1>1, PushedIs, Capacities
  <1>3. \A i \in 1..Len(q) : q[i] \in Secured
    BY <1>1
  <1>4. \A i \in 1..Len(q) : q[i].use \in Nat /\ q[i].counter \in Nat
    BY <1>3 DEF Secured
  <1>5. \A i \in 1..Len(q) : q[i] # Plain =>
          /\ q[i].use \in 1..s.use
          /\ q[i].use = s.use => q[i].counter <= s.counter
          /\ Before(last, q[i])
          /\ \A j \in 1..(i - 1) : q[j] # Plain => Before(q[j], q[i])
    BY DEF Order
  <1>6. last.use <= s.use /\ (last.use = s.use => last.counter <= s.counter)
    BY DEF Order
  <1>7. last.use = s.use => last.counter <= t.counter
    BY <1>1, <1>6
  <1>8. ASSUME NEW i \in 1..Len(p), p[i] # Plain
        PROVE  /\ p[i].use \in 1..s.use
               /\ p[i].use = s.use => p[i].counter <= t.counter
               /\ Before(last, p[i])
               /\ \A j \in 1..(i - 1) : p[j] # Plain => Before(p[j], p[i])
    <2>1. Len(p) = Len(q) - d + 1 /\ p[Len(p)] = frame
      BY <1>2 DEF Shifted
    <2>2. \A j \in 1..(Len(p) - 1) : j + d \in 1..Len(q) /\ p[j] = q[j + d]
      BY <1>2 DEF Shifted
    <2>3. CASE i = Len(p)
      <3>1. /\ t.counter = s.counter + 1
            /\ p[i].use = s.use /\ p[i].counter = t.counter
        BY <1>8, <2>1, <2>3
      <3>2. Before(last, p[i])
        BY <1>1, <1>6, <3>1 DEF Before
      <3>3. ASSUME NEW j \in 1..(i - 1), p[j] # Plain
            PROVE  Before(p[j], p[i])
        <4>1. j + d \in 1..Len(q) /\ p[j] = q[j + d]
          BY <2>2, <2>3
        <4>2. q[j + d] # Plain
          BY <3>3, <4>1
        <4>3. /\ q[j + d].use \in 1..s.use /\ q[j + d].counter \in Nat
              /\ q[j + d].use = s.use => q[j + d].counter <= s.counter
          BY <1>4, <1>5, <4>1, <4>2
        <4>4. q[j + d].use < s.use \/ (q[j + d].use = s.use /\ q[j + d].counter <= s.counter)
          BY <1>1, <4>3
        <4>5. Before(q[j + d], p[i])
          <5> HIDE DEF p, q
          <5> QED
            BY <1>1, <3>1, <4>3, <4>4 DEF Before
        <4> QED
          BY <4>1, <4>5
      <3> QED
        BY <1>1, <3>1, <3>2, <3>3
    <2>4. CASE i # Len(p)
      <3>1. i \in 1..(Len(p) - 1) /\ i + d \in 1..Len(q) /\ p[i] = q[i + d]
        <4>1. Len(p) \in Nat /\ i \in 1..Len(p)
          BY <1>1, <2>1
        <4>2. i \in 1..(Len(p) - 1)
          BY <2>4, <4>1
        <4> QED
          BY <2>2, <4>2
      <3>2. /\ p[i].use \in 1..s.use
            /\ p[i].use = s.use => p[i].counter <= s.counter
            /\ Before(last, p[i])
        BY <1>5, <1>8, <3>1
      <3>3. p[i].counter \in Nat
        BY <1>4, <3>1
      <3>4. ASSUME NEW j \in 1..(i - 1), p[j] # Plain
            PROVE  Before(p[j], p[i])
        <4>1. j \in 1..(Len(p) - 1) /\ j + d \in 1..((i + d) - 1)
          BY <3>1
        <4>2. p[j] = q[j + d] /\ j + d \in 1..Len(q)
          BY <2>2, <4>1
        <4>3. q[j + d] # Plain /\ q[i + d] # Plain
          BY <1>8, <3>1, <3>4, <4>2
        <4>4. Before(q[j + d], q[i + d])
          BY <1>5, <3>1, <4>1, <4>3
        <4> QED
          BY <3>1, <4>2, <4>4
      <3> QED
        BY <1>1, <3>2, <3>3, <3>4
    <2> QED
      BY <2>3, <2>4
  <1> QED
    BY <1>6, <1>7, <1>8 DEF Order

Sound(s, u, last) == StackOK(s, u) /\ Order(s, last)

(* Everything the stack does between two transmissions keeps the order.    *)
LEMMA OperationsKeepOrder ==
    ASSUME NEW u \in Nat, NEW last \in Secured, NEW s, Sound(s, u, last)
    PROVE  /\ Sound(Enqueue(s, Plain), u, last)
           /\ Sound(SendCommand(s), u, last)
           /\ Sound(Remember(s), u, last)
           /\ Sound(Emit(s, Note), u, last)
           /\ Sound(Emit(s, Left), u, last)
  <1>1. StackOK(s, u) /\ Order(s, last) /\ s.use \in Nat /\ s.counter \in Nat
    BY Capacities DEF Sound, StackOK, StackType
  <1>2. Plain \in Secured /\ [use |-> s.use, counter |-> s.counter + 1] \in Secured
    BY <1>1 DEF Plain, Secured
  <1>3. Sound(Enqueue(s, Plain), u, last)
    BY <1>1, <1>2, EnqueueFields, PushedInOrder DEF Sound
  <1>4. Sound(SendCommand(s), u, last)
    BY <1>1, <1>2, SendCommandFields, PushedInOrder DEF Sound
  <1>5. Sound(Remember(s), u, last)
    BY <1>1, RememberFields, OrderStays DEF Sound
  <1>6. Note \in Events /\ Left \in Events /\ Note.kind # "saved" /\ Left.kind # "saved"
    BY DEF Events, Note, Left
  <1>7. Sound(Emit(s, Note), u, last) /\ Sound(Emit(s, Left), u, last)
    BY <1>1, <1>6, EmitFields, OrderStays DEF Sound
  <1> QED
    BY <1>3, <1>4, <1>5, <1>7

LEMMA ApplicationsKeepOrder ==
    ASSUME NEW u \in Nat, NEW last \in Secured, NEW s, Sound(s, u, last)
    PROVE  /\ Sound(SendApplication(s), u, last)
           /\ \A n \in 0..2 : Sound(SendApplications(s, n), u, last)
  <1>1. \A t : Sound(t, u, last) => Sound(SendApplication(t), u, last)
    BY OperationsKeepOrder DEF SendApplication
  <1> QED
    BY <1>1 DEF SendApplications

(* A new use is ahead of all that was made before it.                      *)
LEMMA NewUseKeepsOrder ==
    ASSUME NEW last \in Secured, NEW s, Sound(s, uses, last),
           uses \in Nat, uses < UseBound
    PROVE  Sound(NewUse(s), uses + 1, last)
  <1> DEFINE t == NewUse(s)
  <1>1. /\ StackOK(t, uses + 1) /\ t.use = uses + 1 /\ t.counter = 0 /\ t.outbox = s.outbox
        /\ s.use \in Nat /\ s.use <= uses /\ last.use \in Nat
    <2>1. StackOK(s, uses) /\ s \in StackType /\ s.use <= uses
      BY DEF Sound, StackOK
    <2>2. s.use \in Nat /\ last.use \in Nat
      BY <2>1, Capacities DEF StackType, Secured
    <2> QED
      BY <2>1, <2>2, NewUseFields
  <1> HIDE DEF t
  <1>2. Order(t, last)
    <2>1. last.use <= t.use /\ last.use # t.use
      BY <1>1 DEF Sound, Order
    <2>2. \A i \in 1..Len(s.outbox) : s.outbox[i] # Plain =>
             s.outbox[i].use \in 1..s.use
      BY DEF Sound, Order
    <2>3. \A i \in 1..Len(s.outbox) : s.outbox[i] # Plain =>
             s.outbox[i].use \in 1..t.use /\ s.outbox[i].use # t.use
      BY <1>1, <2>2
    <2> QED
      BY <1>1, <2>1, <2>3 DEF Sound, Order
  <1> QED
    BY <1>1, <1>2 DEF Sound, t

(* A boot queues the rejoin request and the announcement.                  *)
LEMMA BootsInOrder ==
    ASSUME NEW record, record \in Secured, record.use \in 1..uses, uses \in 1..UseBound
    PROVE  Sound(Restored(record), uses, Plain)
  <1> DEFINE s == [Blank EXCEPT !.use = record.use, !.counter = record.counter,
                                !.persisted = record.counter]
  <1>1. /\ s \in StackType
        /\ s.use = record.use /\ s.counter = record.counter
        /\ s.outbox = <<>> /\ s.events = <<>>
    <2>1. record.use \in 1..UseBound /\ record.counter \in Nat
      BY Capacities DEF Secured
    <2>2. Blank \in StackType
      BY Capacities DEF Blank, StackType
    <2>3. Blank.outbox = <<>> /\ Blank.events = <<>>
      BY DEF Blank
    <2> QED
      BY <2>1, <2>2, <2>3 DEF StackType
  <1>2. StackOK(s, uses)
    <2>1. Len(s.outbox) = 0 /\ Len(s.events) = 0
      BY <1>1
    <2> QED
      BY <1>1, <2>1, Capacities DEF StackOK
  <1>3. Order(s, Plain)
    BY <1>1, Capacities DEF Order, Plain, Secured
  <1>4. Plain \in Secured /\ uses \in Nat
    BY Capacities DEF Plain, Secured
  <1> HIDE DEF s
  <1>5. Sound(SendApplication(SendCommand(s)), uses, Plain)
    BY <1>2, <1>3, <1>4, OperationsKeepOrder, ApplicationsKeepOrder DEF Sound
  <1> QED
    BY <1>5 DEF Restored, s

-----------------------------------------------------------------------------
(* The invariant of the order                                              *)

(* Records in flash or on their way are of uses there have been.           *)
Records == {r \in Secured : r.use \in 1..uses}

RestOK ==
    /\ phase \in {"out", "joined", "rejoining"}
    /\ keepalive \in {"poll", "request"}
    /\ stage \in Stages
    /\ handled \in 0..Burst
    /\ flash \subseteq Records
    /\ saving \subseteq Records
    /\ uses \in 1..UseBound
    /\ accepted \in [1..UseBound -> Nat]
    /\ sent \in Secured
    /\ exposed \subseteq 1..UseBound

OrderInv == RestOK /\ Sound(stack, uses, sent)

(* Uses are only added.                                                    *)
LEMMA RecordsStay ==
    ASSUME uses \in Nat, uses' = uses \/ uses' = uses + 1
    PROVE  Records \subseteq Records'
  BY DEF Records

(* The device handles a frame, or a tick.                                  *)
LEMMA HandlingKeepsOrder ==
    ASSUME OrderInv,
           \/ TakeMembership \/ Leave \/ SwitchKey \/ AnswerCommand
           \/ AskRouter \/ TimeoutResponse
           \/ TickJoined \/ TickSearching \/ TickGivesUp \/ TickGivesUpJoining
    PROVE  OrderInv'
  <1>1. /\ uses \in Nat /\ uses \in 1..UseBound /\ sent \in Secured /\ handled \in 0..Burst
        /\ Sound(stack, uses, sent)
    BY Capacities DEF OrderInv, RestOK
  <1>2. /\ uses' = uses \/ (uses < UseBound /\ uses' = uses + 1)
        /\ phase' \in {"out", "joined", "rejoining"} /\ keepalive' \in {"poll", "request"}
        /\ UNCHANGED <<saving, flash, accepted, sent, exposed>>
        /\ stage' \in Stages
    BY DEF OrderInv, RestOK, Stages, TakeMembership, Leave, SwitchKey, AnswerCommand,
           AskRouter, TimeoutResponse, TickJoined, TickSearching, TickGivesUp,
           TickGivesUpJoining, Handling, Ticked
  <1>3. handled' \in 0..Burst
    <2>1. Handling \/ Ticked
      BY DEF TakeMembership, Leave, SwitchKey, AnswerCommand, AskRouter,
             TimeoutResponse, TickJoined, TickSearching, TickGivesUp, TickGivesUpJoining
    <2> QED
      BY <1>1, <2>1, Capacities DEF Handling, Ticked
  <1>4. RestOK'
    <2>1. uses' \in 1..UseBound /\ Records \subseteq Records'
      BY <1>1, <1>2, RecordsStay, Capacities
    <2>2. flash' \subseteq Records' /\ saving' \subseteq Records'
      BY <1>2, <2>1 DEF OrderInv, RestOK
    <2> QED
      BY <1>2, <1>3, <2>1, <2>2 DEF OrderInv, RestOK
  <1>5. \A s : Sound(s, uses, sent) =>
          /\ Sound(Enqueue(s, Plain), uses, sent) /\ Sound(SendCommand(s), uses, sent)
          /\ Sound(Remember(s), uses, sent) /\ Sound(Emit(s, Note), uses, sent)
          /\ Sound(Emit(s, Left), uses, sent) /\ Sound(SendApplication(s), uses, sent)
          /\ \A n \in 0..2 : Sound(SendApplications(s, n), uses, sent)
    BY <1>1, OperationsKeepOrder, ApplicationsKeepOrder
  <1>6. uses < UseBound => /\ Sound(NewUse(stack), uses + 1, sent)
                           /\ Sound(Emit(NewUse(stack), Left), uses + 1, sent)
                           /\ Sound(Remember(NewUse(stack)), uses + 1, sent)
    BY <1>1, NewUseKeepsOrder, OperationsKeepOrder
  <1>7. Sound(stack, uses, sent)'
    <2>1. CASE TakeMembership
      BY <1>1, <1>2, <1>5, <2>1 DEF TakeMembership
    <2>2. CASE Leave \/ TickGivesUp
      BY <1>2, <1>6, <2>2 DEF Leave, TickGivesUp
    <2>3. CASE SwitchKey
      BY <1>2, <1>6, <2>3 DEF SwitchKey
    <2>4. CASE AnswerCommand
      BY <1>1, <1>2, <1>5, <2>4 DEF AnswerCommand
    <2>5. CASE AskRouter \/ TimeoutResponse
      BY <1>1, <1>2, <1>5, <2>5 DEF AskRouter, TimeoutResponse
    <2>6. CASE TickJoined
      <3>1. PICK n \in 0..1, due \in BOOLEAN :
               stack' = IF ~due THEN SendApplications(stack, n)
                        ELSE IF keepalive = "request"
                             THEN SendCommand(SendApplications(stack, n))
                             ELSE Enqueue(SendApplications(stack, n), Plain)
        BY <2>6 DEF TickJoined
      <3>2. Sound(SendApplications(stack, n), uses, sent)
        BY <1>1, <1>5
      <3> QED
        BY <1>2, <1>5, <2>6, <3>1, <3>2 DEF TickJoined
    <2>7. CASE TickSearching \/ TickGivesUpJoining
      BY <1>1, <1>2, <1>5, <2>7 DEF TickSearching, TickGivesUpJoining
    <2> QED
      BY <2>1, <2>2, <2>3, <2>4, <2>5, <2>6, <2>7
  <1> QED
    BY <1>4, <1>7 DEF OrderInv

(* The loop transmits and acts on its events.                              *)
LEMMA LoopKeepsOrder ==
    ASSUME OrderInv,
           \/ Transmit \/ Transmitted
           \/ ForgetNetwork \/ EraseCredentials \/ NoteEvent \/ WriteCredentials
           \/ TurnOver
    PROVE  OrderInv'
  <1>1. /\ stack \in StackType /\ StackOK(stack, uses) /\ Order(stack, sent)
        /\ uses \in 1..UseBound /\ accepted \in [1..UseBound -> Nat] /\ sent \in Secured
    BY DEF OrderInv, RestOK, Sound, StackOK
  <1>2. CASE Transmitted \/ WriteCredentials \/ TurnOver
    <2>1. /\ UNCHANGED <<phase, stack, keepalive, handled, uses, accepted, sent, exposed>>
          /\ stage' \in Stages /\ flash' \cup saving' \subseteq flash \cup saving
      BY <1>2 DEF Transmitted, WriteCredentials, TurnOver, Stages, OrderInv, RestOK
    <2>2. Records' = Records
      BY <2>1 DEF Records
    <2> QED
      BY <2>1, <2>2 DEF OrderInv, RestOK
  <1>3. CASE ForgetNetwork \/ EraseCredentials \/ NoteEvent
    <2> DEFINE e == Head(stack.events)
               t == [stack EXCEPT !.events = Tail(@)]
    <2>1. /\ UNCHANGED <<phase, keepalive, stage, handled, uses, accepted, sent, exposed>>
          /\ stack.events # <<>> /\ stack' = t
          /\ flash' \subseteq flash
          /\ saving' \subseteq saving \/ (e.kind = "saved" /\ saving' = {Record(e)})
      BY <1>3 DEF ForgetNetwork, EraseCredentials, NoteEvent, TakeEvent
    <2>2. /\ e = stack.events[1] /\ e \in Events /\ Tail(stack.events) \in Seq(Events)
          /\ Len(stack.events) \in Nat /\ Len(stack.events) >= 1
          /\ Len(Tail(stack.events)) = Len(stack.events) - 1
          /\ \A i \in 1..Len(Tail(stack.events)) : Tail(stack.events)[i] = stack.events[i + 1]
      BY <1>1, <2>1, HeadTailProperties, EmptySeq DEF StackType
    <2>3. saving' \subseteq Records
      <3>1. ASSUME e.kind = "saved"
            PROVE  Record(e) \in Records
        <4>1. e \in Saved
          BY <2>2, <3>1 DEF Events, Note, Left
        <4>2. e.use \in 1..uses
          BY <1>1, <2>2, <3>1 DEF StackOK
        <4> QED
          BY <4>1, <4>2 DEF Record, Records, Secured, Saved
      <3> QED
        BY <2>1, <3>1 DEF OrderInv, RestOK
    <2>4. /\ t \in StackType /\ t.use = stack.use /\ t.counter = stack.counter
          /\ t.outbox = stack.outbox /\ t.events = Tail(stack.events)
      BY <1>1, <2>2 DEF StackType
    <2> HIDE DEF t, e
    <2>5. StackOK(t, uses)
      <3>1. \A i \in 1..Len(t.events) : i + 1 \in 1..Len(stack.events)
                                        /\ t.events[i] = stack.events[i + 1]
        BY <2>2, <2>4
      <3>2. Len(t.events) <= EventCapacity
        BY <1>1, <2>2, <2>4, Capacities DEF StackOK
      <3> QED
        BY <1>1, <2>4, <3>1, <3>2 DEF StackOK
    <2>6. Order(t, sent)
      BY <1>1, <2>4, OrderStays
    <2>7. Records' = Records
      BY <2>1 DEF Records
    <2> QED
      BY <2>1, <2>3, <2>5, <2>6, <2>7 DEF OrderInv, RestOK, Sound
  <1>4. CASE Transmit
    <2> DEFINE frame == Head(stack.outbox)
               t == [stack EXCEPT !.outbox = Tail(@)]
    <2>1. /\ UNCHANGED <<keepalive, stage, handled, saving, flash, uses, exposed>>
          /\ stack.outbox # <<>> /\ stack' = t
          /\ sent' = IF frame = Plain THEN sent ELSE frame
          /\ \/ UNCHANGED accepted
             \/ frame # Plain /\ accepted' = [accepted EXCEPT ![frame.use] = frame.counter]
          /\ phase' \in {"out", "joined", "rejoining"}
      BY <1>4 DEF Transmit, OrderInv, RestOK
    <2>2. /\ frame = stack.outbox[1] /\ frame \in Secured
          /\ Tail(stack.outbox) \in Seq(Secured)
          /\ Len(stack.outbox) \in Nat /\ Len(stack.outbox) >= 1
          /\ Len(Tail(stack.outbox)) = Len(stack.outbox) - 1
          /\ \A i \in 1..Len(Tail(stack.outbox)) : Tail(stack.outbox)[i] = stack.outbox[i + 1]
      BY <1>1, <2>1, HeadTailProperties, EmptySeq DEF StackType
    <2>3. /\ t \in StackType /\ t.use = stack.use /\ t.counter = stack.counter
          /\ t.outbox = Tail(stack.outbox) /\ t.events = stack.events
      BY <1>1, <2>2 DEF StackType
    <2> HIDE DEF t, frame
    <2>4. StackOK(t, uses)
      BY <1>1, <2>2, <2>3, Capacities DEF StackOK
    <2>5. frame # Plain => /\ frame.use \in 1..stack.use
                           /\ frame.use = stack.use => frame.counter <= stack.counter
      BY <1>1, <2>2 DEF Order
    <2>6. sent' \in Secured /\ accepted' \in [1..UseBound -> Nat]
      <3>1. stack.use \in 1..UseBound
        BY <1>1 DEF StackType
      <3>2. frame # Plain => frame.use \in 1..UseBound /\ frame.counter \in Nat
        BY <2>2, <2>5, <3>1, Capacities DEF Secured
      <3> QED
        BY <1>1, <2>1, <2>2, <3>2
    <2>7. Order(t, sent')
      <3> DEFINE q == stack.outbox
                 p == t.outbox
      <3>1. \A i \in 1..Len(p) : i + 1 \in 1..Len(q) /\ p[i] = q[i + 1]
        BY <2>2, <2>3
      <3>2. \A i \in 1..Len(q) : q[i] # Plain =>
              /\ q[i].use \in 1..stack.use
              /\ q[i].use = stack.use => q[i].counter <= stack.counter
              /\ Before(sent, q[i])
              /\ \A j \in 1..(i - 1) : q[j] # Plain => Before(q[j], q[i])
        BY <1>1 DEF Order
      <3>3. ASSUME NEW i \in 1..Len(p), p[i] # Plain
            PROVE  /\ p[i].use \in 1..t.use
                   /\ p[i].use = t.use => p[i].counter <= t.counter
                   /\ Before(sent', p[i])
                   /\ \A j \in 1..(i - 1) : p[j] # Plain => Before(p[j], p[i])
        <4>1. /\ i + 1 \in 1..Len(q) /\ p[i] = q[i + 1] /\ 1 \in 1..((i + 1) - 1)
              /\ Len(q) \in Nat /\ Len(p) = Len(q) - 1
          BY <2>2, <2>3, <3>1
        <4>2. Before(sent', p[i])
          BY <2>1, <2>2, <3>2, <3>3, <4>1
        <4>3. ASSUME NEW j \in 1..(i - 1), p[j] # Plain
              PROVE  Before(p[j], p[i])
          <5>1. j \in 1..Len(p) /\ j + 1 \in 1..((i + 1) - 1)
            BY <4>1
          <5> QED
            BY <3>1, <3>2, <3>3, <4>1, <4>3, <5>1
        <4> QED
          BY <2>3, <3>2, <3>3, <4>1, <4>2, <4>3
      <3>4. /\ sent'.use <= t.use
            /\ sent'.use = t.use => sent'.counter <= t.counter
        BY <1>1, <2>1, <2>3, <2>5 DEF Order, StackType, Secured
      <3> QED
        BY <3>3, <3>4 DEF Order
    <2>8. Records' = Records
      BY <2>1 DEF Records
    <2> QED
      BY <1>1, <2>1, <2>4, <2>6, <2>7, <2>8 DEF OrderInv, RestOK, Sound
  <1> QED
    BY <1>2, <1>3, <1>4

(* An empty stack is in order.                                             *)
LEMMA BlankInOrder ==
    ASSUME NEW s, NEW u \in 1..UseBound, s = [Blank EXCEPT !.use = u]
    PROVE  Sound(s, u, Plain)
  <1>1. Blank \in StackType /\ Blank.outbox = <<>> /\ Blank.events = <<>> /\ Blank.counter = 0
    BY Capacities DEF Blank, StackType
  <1>2. /\ s \in StackType /\ s.use = u /\ Len(s.outbox) = 0 /\ Len(s.events) = 0
        /\ s.counter = 0
    BY <1>1 DEF StackType
  <1> QED
    BY <1>2, Capacities DEF Sound, StackOK, Order, Plain

LEMMA BootKeepsOrder ==
    ASSUME OrderInv, PowerCut
    PROVE  OrderInv'
  <1>1. /\ uses \in 1..UseBound /\ flash \subseteq Records /\ saving' = {} /\ flash' = flash
        /\ sent' = Plain /\ accepted' = accepted /\ keepalive' = "poll"
        /\ stage' = "receive" /\ handled' = 0 /\ phase' \in {"out", "joined"}
        /\ exposed' \subseteq exposed \cup {r.use : r \in flash}
    BY DEF OrderInv, RestOK, PowerCut
  <1>2. exposed' \subseteq 1..UseBound
    BY <1>1, Capacities DEF OrderInv, RestOK, Records
  <1>3. CASE /\ flash = {} /\ uses < UseBound /\ uses' = uses + 1
             /\ stack' = [Blank EXCEPT !.use = uses + 1]
    <2>1. uses' \in 1..UseBound /\ Sound(stack', uses', Plain)
      BY <1>1, <1>3, BlankInOrder, Capacities
    <2> QED
      BY <1>1, <1>2, <1>3, <2>1, Capacities
         DEF OrderInv, RestOK, Stages, Plain, Secured
  <1>4. CASE uses' = uses /\ \E record \in flash : stack' = Restored(record)
    <2>1. Sound(stack', uses', Plain)
      BY <1>1, <1>4, BootsInOrder DEF Records
    <2>2. Records' = Records
      BY <1>4 DEF Records
    <2> QED
      BY <1>1, <1>2, <1>4, <2>1, <2>2, Capacities
         DEF OrderInv, RestOK, Stages, Plain, Secured
  <1> QED
    BY <1>3, <1>4 DEF PowerCut

LEMMA StartsInOrder ==
    ASSUME Init
    PROVE  OrderInv
  <1>1. stack = [Blank EXCEPT !.use = 1]
    BY DEF Init, Blank
  <1>2. Sound(stack, 1, Plain)
    BY <1>1, BlankInOrder, Capacities
  <1> QED
    BY <1>2, Capacities DEF Init, OrderInv, RestOK, Stages, Plain, Secured

LEMMA EveryStepKeepsOrder ==
    ASSUME OrderInv, [Next]_vars
    PROVE  OrderInv'
  <1>1. CASE UNCHANGED vars
    BY <1>1 DEF vars, OrderInv, RestOK, Records
  <1> QED
    BY <1>1, HandlingKeepsOrder, LoopKeepsOrder, BootKeepsOrder DEF Next

(* Counter, range, queues, flash and the histories keep their types, and   *)
(* the queues their bounds, through restarts at any point.                 *)
THEOREM CounterInRange == Spec => []TypeOK
  <1>1. OrderInv => TypeOK
    BY DEF OrderInv, RestOK, Sound, StackOK, StackType, TypeOK, Events, Records
  <1> QED
    BY <1>1, StartsInOrder, EveryStepKeepsOrder, PTL DEF Spec

(* Within one boot the secured frames leave in strictly growing order of   *)
(* their use and counter, however full the queue and whatever the senders, *)
(* for every margin, capacity and bound.                                   *)
THEOREM FramesLeaveInOrder == Spec => []InOrder
  <1>1. OrderInv => InOrder
    <2> SUFFICES ASSUME OrderInv
                 PROVE  InOrder
      OBVIOUS
    <2>1. DOMAIN stack.outbox = 1..Len(stack.outbox)
      BY DEF OrderInv, Sound, StackOK, StackType
    <2> QED
      BY <2>1 DEF OrderInv, Sound, Order, InOrder
  <1> QED
    BY <1>1, StartsInOrder, EveryStepKeepsOrder, PTL DEF Spec
-----------------------------------------------------------------------------
(* The counters against those the network accepted                         *)

(* Outside the exposed uses, the counter is no less than what the network  *)
(* accepted under its use, and a waiting frame exceeds it.                 *)
Exceeds(s, acc, exp) ==
    /\ s.use \notin exp => acc[s.use] <= s.counter
    /\ \A i \in 1..Len(s.outbox) :
          s.outbox[i] # Plain /\ s.outbox[i].use \notin exp =>
              s.outbox[i].counter > acc[s.outbox[i].use]

(* What the rest of the system was told, or holds, of a stack: its range as*)
(* a member, nothing when it is out.                                       *)
Told(s, ph) == IF ph = "out" THEN Left
               ELSE [kind |-> "saved", use |-> s.use, counter |-> s.persisted]
Held(s, ph) == IF ph = "out" THEN {}
               ELSE {[use |-> s.use, counter |-> s.persisted]}

(* Flash, once it has followed the events, holds what the stack means it   *)
(* to: the event that says so is waiting with at most n behind it, or base,*)
(* what flash holds already, is up to date.                                *)
Follows(s, ph, base, n) ==
    \/ \E i \in 1..Len(s.events) :
          /\ s.events[i] = Told(s, ph)
          /\ Len(s.events) - i <= n
          /\ \A j \in (i + 1)..Len(s.events) : s.events[j] = Note
    \/ /\ \A j \in 1..Len(s.events) : s.events[j] = Note
       /\ base = Held(s, ph)

(* A frame that exceeds what was accepted, at the end of the queue.        *)
LEMMA PushedExceeds ==
    ASSUME NEW u, NEW s, NEW t, StackOK(s, u), NEW acc \in [1..UseBound -> Nat], NEW exp,
           Exceeds(s, acc, exp), NEW frame \in Secured,
           t.outbox = Pushed(s.outbox, frame, OutboxCapacity), t.use = s.use,
           \/ frame = Plain /\ t.counter = s.counter
           \/ /\ t.counter = s.counter + 1
              /\ frame = [use |-> s.use, counter |-> t.counter]
    PROVE  Exceeds(t, acc, exp)
  <1> DEFINE q == s.outbox
             p == t.outbox
  <1>1. /\ s.use \in 1..UseBound /\ s.counter \in Nat /\ acc[s.use] \in Nat
        /\ q \in Seq(Secured) /\ Len(q) \in Nat /\ Len(q) <= OutboxCapacity
    BY Capacities DEF StackOK, StackType
  <1>2. PICK d \in {0, 1} : Shifted(p, q, frame, d) /\ p \in Seq(Secured)
    BY <1>1, PushedIs, Capacities
  <1>3. t.use \notin exp => acc[t.use] <= t.counter
    BY <1>1 DEF Exceeds
  <1>4. /\ Len(p) = Len(q) - d + 1 /\ p[Len(p)] = frame
        /\ \A j \in 1..(Len(p) - 1) : j + d \in 1..Len(q) /\ p[j] = q[j + d]
    BY <1>2 DEF Shifted
  <1>5. ASSUME NEW i \in 1..Len(p), p[i] # Plain, p[i].use \notin exp
        PROVE  p[i].counter > acc[p[i].use]
    <2>1. CASE i = Len(p)
      <3>1. p[i].use = s.use /\ p[i].counter = s.counter + 1
        BY <1>4, <1>5, <2>1
      <3> QED
        BY <1>1, <1>5, <3>1 DEF Exceeds
    <2>2. CASE i # Len(p)
      <3>1. Len(p) \in Nat
        BY <1>1, <1>4
      <3>2. i \in 1..(Len(p) - 1)
        BY <2>2, <3>1
      <3>3. i + d \in 1..Len(q) /\ p[i] = q[i + d]
        BY <1>4, <3>2
      <3> QED
        BY <1>5, <3>3 DEF Exceeds
    <2> QED
      BY <2>1, <2>2
  <1> QED
    BY <1>3, <1>5 DEF Exceeds

(* The stack's operations, each as it is composed by the handlers.         *)
LEMMA OperationsExceed ==
    ASSUME NEW u \in Nat, NEW acc \in [1..UseBound -> Nat], NEW exp,
           NEW s, StackOK(s, u), Exceeds(s, acc, exp)
    PROVE  /\ Exceeds(Enqueue(s, Plain), acc, exp) /\ StackOK(Enqueue(s, Plain), u)
           /\ Exceeds(SendCommand(s), acc, exp) /\ StackOK(SendCommand(s), u)
           /\ Exceeds(Remember(s), acc, exp) /\ StackOK(Remember(s), u)
           /\ Exceeds(Emit(s, Note), acc, exp) /\ StackOK(Emit(s, Note), u)
           /\ Exceeds(Emit(s, Left), acc, exp) /\ StackOK(Emit(s, Left), u)
  <1>1. s.use \in Nat /\ s.counter \in Nat
    BY Capacities DEF StackOK, StackType
  <1>2. Plain \in Secured /\ [use |-> s.use, counter |-> s.counter + 1] \in Secured
    BY <1>1 DEF Plain, Secured
  <1>3. Exceeds(Enqueue(s, Plain), acc, exp) /\ StackOK(Enqueue(s, Plain), u)
    <2>1. /\ StackOK(Enqueue(s, Plain), u)
          /\ Enqueue(s, Plain).use = s.use /\ Enqueue(s, Plain).counter = s.counter
          /\ Enqueue(s, Plain).outbox = Pushed(s.outbox, Plain, OutboxCapacity)
      BY <1>2, EnqueueFields
    <2> QED
      BY <1>2, <2>1, PushedExceeds
  <1>4. Exceeds(SendCommand(s), acc, exp) /\ StackOK(SendCommand(s), u)
    <2>1. /\ StackOK(SendCommand(s), u)
          /\ SendCommand(s).use = s.use /\ SendCommand(s).counter = s.counter + 1
          /\ SendCommand(s).outbox =
                Pushed(s.outbox, [use |-> s.use, counter |-> s.counter + 1], OutboxCapacity)
      BY SendCommandFields
    <2> QED
      BY <1>2, <2>1, PushedExceeds
  <1>5. Exceeds(Remember(s), acc, exp) /\ StackOK(Remember(s), u)
    BY RememberFields DEF Exceeds
  <1>6. Note \in Events /\ Left \in Events /\ Note.kind # "saved" /\ Left.kind # "saved"
    BY DEF Events, Note, Left
  <1>7. /\ Exceeds(Emit(s, Note), acc, exp) /\ StackOK(Emit(s, Note), u)
        /\ Exceeds(Emit(s, Left), acc, exp) /\ StackOK(Emit(s, Left), u)
    <2>1. ASSUME NEW e \in {Note, Left}
          PROVE  Exceeds(Emit(s, e), acc, exp) /\ StackOK(Emit(s, e), u)
      <3>1. /\ StackOK(Emit(s, e), u)
            /\ Emit(s, e).use = s.use /\ Emit(s, e).counter = s.counter
            /\ Emit(s, e).outbox = s.outbox
        BY <1>6, <2>1, EmitFields
      <3> QED
        BY <3>1 DEF Exceeds
    <2> QED
      BY <2>1
  <1> QED
    BY <1>3, <1>4, <1>5, <1>7

LEMMA ApplicationsExceed ==
    ASSUME NEW u \in Nat, NEW acc \in [1..UseBound -> Nat], NEW exp,
           NEW s, StackOK(s, u), Exceeds(s, acc, exp)
    PROVE  /\ Exceeds(SendApplication(s), acc, exp) /\ StackOK(SendApplication(s), u)
           /\ \A n \in 0..2 : /\ Exceeds(SendApplications(s, n), acc, exp)
                              /\ StackOK(SendApplications(s, n), u)
  <1>1. \A t : StackOK(t, u) /\ Exceeds(t, acc, exp) =>
               StackOK(SendApplication(t), u) /\ Exceeds(SendApplication(t), acc, exp)
    BY OperationsExceed DEF SendApplication
  <1> QED
    BY <1>1 DEF SendApplications

-----------------------------------------------------------------------------
(* The events against flash                                                *)

LEMMA FollowsStays ==
    ASSUME NEW s, NEW t, NEW ph, NEW qh, NEW base, NEW n \in Nat, NEW m \in Nat,
           Follows(s, ph, base, n), n <= m, ph = "out" <=> qh = "out",
           s.events \in Seq(Events),
           t.use = s.use, t.persisted = s.persisted, t.events = s.events
    PROVE  Follows(t, qh, base, m)
  <1>1. Told(t, qh) = Told(s, ph) /\ Held(t, qh) = Held(s, ph) /\ Len(s.events) \in Nat
    BY DEF Told, Held
  <1>2. CASE \E i \in 1..Len(s.events) :
               /\ s.events[i] = Told(s, ph)
               /\ Len(s.events) - i <= n
               /\ \A j \in (i + 1)..Len(s.events) : s.events[j] = Note
    <2>1. PICK i \in 1..Len(s.events) :
               /\ s.events[i] = Told(s, ph)
               /\ Len(s.events) - i <= n
               /\ \A j \in (i + 1)..Len(s.events) : s.events[j] = Note
      BY <1>2
    <2>2. Len(s.events) - i <= m
      BY <1>1, <2>1
    <2>3. /\ t.events[i] = Told(t, qh) /\ i \in 1..Len(t.events)
          /\ Len(t.events) - i <= m
          /\ \A j \in (i + 1)..Len(t.events) : t.events[j] = Note
      BY <1>1, <2>1, <2>2
    <2> QED
      BY <2>3 DEF Follows
  <1>3. CASE /\ \A j \in 1..Len(s.events) : s.events[j] = Note
             /\ base = Held(s, ph)
    BY <1>1, <1>3 DEF Follows
  <1> QED
    BY <1>2, <1>3 DEF Follows

(* A note behind the event that matters leaves it waiting, as long as the  *)
(* queue holds both.                                                       *)
LEMMA NoteFollows ==
    ASSUME NEW u \in Nat, NEW s, StackOK(s, u), NEW ph, NEW base, NEW n \in Nat,
           Follows(s, ph, base, n), n + 1 < EventCapacity
    PROVE  Follows(Emit(s, Note), ph, base, n + 1)
  <1> DEFINE t == Emit(s, Note)
             q == s.events
             p == t.events
  <1>1. /\ t.use = s.use /\ t.persisted = s.persisted
        /\ p = Pushed(q, Note, EventCapacity)
    <2>1. Note \in Events /\ Note.kind # "saved"
      BY DEF Events, Note
    <2> QED
      BY <2>1, EmitFields
  <1>2. q \in Seq(Events) /\ Len(q) \in Nat /\ Len(q) <= EventCapacity
        /\ EventCapacity \in Nat \ {0}
    BY Capacities DEF StackOK, StackType
  <1>3. PICK d \in {0, 1} : (d = 1 <=> Len(q) = EventCapacity) /\ Shifted(p, q, Note, d)
    <2>1. Note \in Events
      BY DEF Events
    <2> QED
      BY <1>1, <1>2, <2>1, PushedIs
  <1>4. Told(t, ph) = Told(s, ph) /\ Held(t, ph) = Held(s, ph)
    BY <1>1 DEF Told, Held
  <1> HIDE DEF t
  <1>5. /\ Len(p) = Len(q) - d + 1 /\ p[Len(p)] = Note
        /\ \A j \in 1..(Len(p) - 1) : j + d \in 1..Len(q) /\ p[j] = q[j + d]
    BY <1>3 DEF Shifted
  <1>6. Len(p) \in Nat
    BY <1>2, <1>5
  <1>7. CASE \E i \in 1..Len(q) : /\ q[i] = Told(s, ph)
                                  /\ Len(q) - i <= n
                                  /\ \A j \in (i + 1)..Len(q) : q[j] = Note
    <2>1. PICK i \in 1..Len(q) : /\ q[i] = Told(s, ph)
                                 /\ Len(q) - i <= n
                                 /\ \A j \in (i + 1)..Len(q) : q[j] = Note
      BY <1>7
    <2>2. i - d \in 1..(Len(p) - 1) /\ Len(p) - (i - d) <= n + 1
      BY <1>2, <1>3, <1>5, <2>1
    <2>3. p[i - d] = Told(t, ph)
      <3>1. (i - d) + d = i
        BY <1>2
      <3>2. p[i - d] = q[(i - d) + d]
        BY <1>5, <2>2
      <3> QED
        BY <1>4, <2>1, <3>1, <3>2
    <2>4. ASSUME NEW j \in ((i - d) + 1)..Len(p)
          PROVE  p[j] = Note
      <3>1. CASE j = Len(p)
        BY <1>5, <3>1
      <3>2. CASE j # Len(p)
        <4>1. i - d \in Nat /\ i - d >= 1 /\ j \in Nat /\ j >= i - d + 1 /\ j <= Len(p)
          BY <1>2, <1>6, <2>2
        <4>2. j \in 1..(Len(p) - 1)
          BY <1>6, <3>2, <4>1
        <4>3. j + d \in (i + 1)..Len(q)
          BY <1>5, <4>1, <4>2
        <4> QED
          BY <1>5, <2>1, <4>2, <4>3
      <3> QED
        BY <3>1, <3>2
    <2>5. i - d \in 1..Len(p)
      BY <1>6, <2>2
    <2> QED
      BY <2>2, <2>3, <2>4, <2>5 DEF Follows, t
  <1>8. CASE (\A j \in 1..Len(q) : q[j] = Note) /\ base = Held(s, ph)
    <2>1. \A j \in 1..Len(p) : j = Len(p) \/ j \in 1..(Len(p) - 1)
      BY <1>6
    <2>2. \A j \in 1..Len(p) : p[j] = Note
      BY <1>5, <1>8, <2>1
    <2> QED
      BY <1>4, <1>8, <2>2 DEF Follows, t
  <1> QED
    BY <1>7, <1>8 DEF Follows

(* The event that says all there is to know.                               *)
LEMMA LastEventFollows ==
    ASSUME NEW s, NEW ph, NEW base,
           s.events \in Seq(Events), Len(s.events) # 0,
           s.events[Len(s.events)] = Told(s, ph)
    PROVE  Follows(s, ph, base, 0)
  <1>1. Len(s.events) \in Nat
    OBVIOUS
  <1>2. /\ Len(s.events) \in 1..Len(s.events) /\ Len(s.events) - Len(s.events) <= 0
        /\ (Len(s.events) + 1)..Len(s.events) = {}
    BY <1>1
  <1> QED
    BY <1>2 DEF Follows

LEMMA TellingFollows ==
    ASSUME NEW u \in Nat, NEW s, StackOK(s, u), NEW base
    PROVE  /\ \A ph : ph # "out" => Follows(Remember(s), ph, base, 0)
           /\ Follows(Emit(s, Left), "out", base, 0)
  <1>1. /\ s.events \in Seq(Events) /\ Len(s.events) <= EventCapacity
        /\ EventCapacity \in Nat \ {0}
        /\ Left \in Events /\ Left.kind # "saved"
    BY Capacities DEF StackOK, StackType, Events, Left
  <1>2. ASSUME NEW event \in Events
        PROVE  /\ Pushed(s.events, event, EventCapacity) \in Seq(Events)
               /\ Len(Pushed(s.events, event, EventCapacity)) # 0
               /\ Pushed(s.events, event, EventCapacity)
                     [Len(Pushed(s.events, event, EventCapacity))] = event
    <2> DEFINE p == Pushed(s.events, event, EventCapacity)
    <2>1. EventCapacity \in Nat \ {0} /\ Len(s.events) <= EventCapacity
      BY <1>1
    <2>2. s.events \in Seq(Events)
      BY <1>1
    <2>3. /\ p \in Seq(Events) /\ Len(p) \in 1..EventCapacity
          /\ \E d \in {0, 1} : Shifted(p, s.events, event, d)
      BY <2>1, <2>2, PushedIs
    <2> QED
      BY <2>1, <2>3 DEF Shifted
  <1>3. ASSUME NEW ph, ph # "out"
        PROVE  Follows(Remember(s), ph, base, 0)
    <2> DEFINE event == [kind |-> "saved", use |-> s.use, counter |-> s.counter + Margin]
               t == Remember(s)
    <2>1. /\ t.use = s.use /\ t.persisted = s.counter + Margin
          /\ t.events = Pushed(s.events, event, EventCapacity)
      BY RememberFields
    <2>2. event \in Events
      BY Capacities DEF StackOK, StackType, Events, Saved
    <2>3. Told(t, ph) = event
      BY <1>3, <2>1 DEF Told
    <2> HIDE DEF t, event
    <2> QED
      BY <1>2, <2>1, <2>2, <2>3, LastEventFollows DEF t
  <1>4. Follows(Emit(s, Left), "out", base, 0)
    <2> DEFINE t == Emit(s, Left)
    <2>1. t.events = Pushed(s.events, Left, EventCapacity)
      BY <1>1, EmitFields
    <2>2. Told(t, "out") = Left
      BY DEF Told
    <2> HIDE DEF t
    <2> QED
      BY <1>1, <1>2, <2>1, <2>2, LastEventFollows DEF t
  <1> QED
    BY <1>3, <1>4

(* A frame sent leaves what was told as it was, or renews it.              *)
LEMMA SendingFollows ==
    ASSUME NEW u \in Nat, NEW s, StackOK(s, u), NEW ph, ph # "out", NEW base,
           NEW n \in Nat, Follows(s, ph, base, n)
    PROVE  /\ Follows(SendCommand(s), ph, base, n)
           /\ Follows(Enqueue(s, Plain), ph, base, n)
           /\ Follows(SendApplication(s), ph, base, n)
           /\ StackOK(SendApplication(s), u)
  <1>1. Plain \in Secured /\ s.events \in Seq(Events)
    BY DEF Plain, Secured, StackOK, StackType
  <1>2. Follows(SendCommand(s), ph, base, n) /\ StackOK(SendCommand(s), u)
    <2>1. /\ StackOK(SendCommand(s), u) /\ SendCommand(s).use = s.use
          /\ SendCommand(s).persisted = s.persisted /\ SendCommand(s).events = s.events
      BY SendCommandFields
    <2>2. n <= n
      OBVIOUS
    <2> QED
      BY <1>1, <2>1, <2>2, FollowsStays
  <1>3. Follows(Enqueue(s, Plain), ph, base, n)
    <2>1. /\ Enqueue(s, Plain).use = s.use
          /\ Enqueue(s, Plain).persisted = s.persisted /\ Enqueue(s, Plain).events = s.events
      BY <1>1, EnqueueFields
    <2>2. n <= n
      OBVIOUS
    <2> QED
      BY <1>1, <2>1, <2>2, FollowsStays
  <1>4. \A t : StackOK(t, u) => Follows(Remember(t), ph, base, n) /\ StackOK(Remember(t), u)
    <2> SUFFICES ASSUME NEW t, StackOK(t, u)
                 PROVE  Follows(Remember(t), ph, base, n) /\ StackOK(Remember(t), u)
      OBVIOUS
    <2>1. StackOK(Remember(t), u) /\ Follows(Remember(t), ph, base, 0)
      BY RememberFields, TellingFollows
    <2>2. Remember(t).events \in Seq(Events) /\ 0 \in Nat /\ 0 <= n
      BY <2>1 DEF StackOK, StackType
    <2> QED
      BY <2>1, <2>2, FollowsStays
  <1> QED
    BY <1>2, <1>3, <1>4 DEF SendApplication
-----------------------------------------------------------------------------
(* The invariant of flash and the range                                    *)

(* What flash holds, or is about to, and how many notes may be waiting     *)
(* behind the event that changes it.                                       *)
FlashFollows == Follows(stack, phase, IF saving = {} THEN flash ELSE saving,
                        IF stage = "receive" THEN handled ELSE Burst)

(* The record a power cut would take up is good.                           *)
SafeToRestart ==
    ~FlashIsBehind => \A r \in flash : r.use \notin exposed => accepted[r.use] <= r.counter

RangeInv ==
    /\ OrderInv
    /\ Exceeds(stack, accepted, exposed)
    /\ \A u \in 1..UseBound : u > uses => accepted[u] = 0
    /\ saving # {} => stage = "events"
    /\ FlashFollows
    /\ SafeToRestart

(* A new use starts below everything, and the network accepted none of it. *)
LEMMA NewUseExceeds ==
    ASSUME NEW s, StackOK(s, uses), Exceeds(s, accepted, exposed),
           uses \in Nat, uses < UseBound, accepted[uses + 1] = 0
    PROVE  /\ Exceeds(NewUse(s), accepted, exposed)
           /\ StackOK(NewUse(s), uses + 1)
  <1>1. /\ StackOK(NewUse(s), uses + 1) /\ NewUse(s).use = uses + 1
        /\ NewUse(s).counter = 0 /\ NewUse(s).outbox = s.outbox
    BY NewUseFields
  <1> QED
    BY <1>1 DEF Exceeds

(* The frames stay ahead of what was accepted.                             *)
LEMMA HandlingExceeds ==
    ASSUME RangeInv,
           \/ TakeMembership \/ Leave \/ SwitchKey \/ AnswerCommand
           \/ AskRouter \/ TimeoutResponse
           \/ TickJoined \/ TickSearching \/ TickGivesUp \/ TickGivesUpJoining
    PROVE  Exceeds(stack, accepted, exposed)'
  <1>1. /\ uses \in Nat /\ uses \in 1..UseBound /\ accepted \in [1..UseBound -> Nat]
        /\ StackOK(stack, uses) /\ Exceeds(stack, accepted, exposed)
    BY Capacities DEF RangeInv, OrderInv, RestOK, Sound
  <1>2. accepted' = accepted /\ exposed' = exposed
    BY DEF TakeMembership, Leave, SwitchKey, AnswerCommand,
           AskRouter, TimeoutResponse, TickJoined, TickSearching, TickGivesUp,
           TickGivesUpJoining, Handling, Ticked
  <1> DEFINE Good(s, u) == StackOK(s, u) /\ Exceeds(s, accepted, exposed)
  <1>3. \A u \in Nat : \A s : Good(s, u) =>
          /\ Good(Enqueue(s, Plain), u) /\ Good(SendCommand(s), u)
          /\ Good(Remember(s), u) /\ Good(Emit(s, Note), u)
          /\ Good(Emit(s, Left), u) /\ Good(SendApplication(s), u)
          /\ \A n \in 0..2 : Good(SendApplications(s, n), u)
    BY <1>1, OperationsExceed, ApplicationsExceed
  <1>4. uses < UseBound => Good(NewUse(stack), uses + 1)
    <2>1. uses < UseBound => accepted[uses + 1] = 0
      BY <1>1, Capacities DEF RangeInv
    <2> QED
      BY <1>1, <2>1, NewUseExceeds
  <1>5. Good(stack, uses)
    BY <1>1
  <1> HIDE DEF Good
  <1>6. uses + 1 \in Nat
    BY <1>1
  <1>7. Good(stack', uses) \/ Good(stack', uses + 1)
    <2>1. CASE TakeMembership
      BY <1>1, <1>3, <1>5, <2>1 DEF TakeMembership
    <2>2. CASE Leave \/ TickGivesUp
      BY <1>3, <1>4, <1>6, <2>2 DEF Leave, TickGivesUp
    <2>3. CASE SwitchKey
      BY <1>3, <1>4, <1>6, <2>3 DEF SwitchKey
    <2>4. CASE AnswerCommand
      <3>1. PICK n \in 0..2 : \/ stack' = SendApplications(stack, n)
                              \/ stack' = Emit(SendApplications(stack, n), Note)
        BY <2>4 DEF AnswerCommand
      <3> QED
        BY <1>1, <1>3, <1>5, <3>1
    <2>5. CASE AskRouter \/ TimeoutResponse
      BY <1>1, <1>3, <1>5, <2>5 DEF AskRouter, TimeoutResponse
    <2>6. CASE TickJoined
      <3>1. PICK n \in 0..1, due \in BOOLEAN :
               stack' = IF ~due THEN SendApplications(stack, n)
                        ELSE IF keepalive = "request"
                             THEN SendCommand(SendApplications(stack, n))
                             ELSE Enqueue(SendApplications(stack, n), Plain)
        BY <2>6 DEF TickJoined
      <3>2. Good(SendApplications(stack, n), uses)
        BY <1>1, <1>3, <1>5
      <3> QED
        BY <1>1, <1>3, <3>1, <3>2
    <2>7. CASE TickSearching \/ TickGivesUpJoining
      BY <1>1, <1>3, <1>5, <2>7 DEF TickSearching, TickGivesUpJoining
    <2> QED
      BY <2>1, <2>2, <2>3, <2>4, <2>5, <2>6, <2>7
  <1> QED
    BY <1>2, <1>7 DEF Good

(* What flash is to hold stays told, through one more note a frame.        *)
LEMMA HandlingFollows ==
    ASSUME Burst < EventCapacity, RangeInv,
           \/ TakeMembership \/ Leave \/ SwitchKey \/ AnswerCommand
           \/ AskRouter \/ TimeoutResponse
           \/ TickJoined \/ TickSearching \/ TickGivesUp \/ TickGivesUpJoining
    PROVE  FlashFollows'
  <1> DEFINE Kept(s, u, ph, n) == StackOK(s, u) /\ Follows(s, ph, flash, n)
  <1>1. /\ uses \in Nat /\ handled \in Nat /\ handled <= Burst /\ Burst \in Nat
        /\ EventCapacity \in Nat /\ StackOK(stack, uses)
        /\ phase \in {"out", "joined", "rejoining"}
    BY Capacities DEF RangeInv, OrderInv, RestOK, Sound
  <1>2. saving = {} /\ saving' = {} /\ flash' = flash
    BY DEF TakeMembership, Leave, SwitchKey, AnswerCommand,
           AskRouter, TimeoutResponse, TickJoined, TickSearching, TickGivesUp,
           TickGivesUpJoining, Handling, Ticked, RangeInv
  <1>3. stage = "receive"
    BY DEF TakeMembership, Leave, SwitchKey, AnswerCommand,
           AskRouter, TimeoutResponse, TickJoined, TickSearching, TickGivesUp,
           TickGivesUpJoining, Handling, Ticked
  <1>4. Kept(stack, uses, phase, handled)
    BY <1>1, <1>2, <1>3 DEF RangeInv, FlashFollows
  <1>5. \A u \in Nat : \A s, ph : \A n \in Nat : Kept(s, u, ph, n) =>
          /\ n + 1 < EventCapacity => Kept(Emit(s, Note), u, ph, n + 1)
          /\ ph # "out" => /\ Kept(SendCommand(s), u, ph, n)
                           /\ Kept(Enqueue(s, Plain), u, ph, n)
                           /\ Kept(SendApplication(s), u, ph, n)
    <2> SUFFICES ASSUME NEW u \in Nat, NEW s, NEW ph, NEW n \in Nat, Kept(s, u, ph, n)
                 PROVE  /\ n + 1 < EventCapacity => Kept(Emit(s, Note), u, ph, n + 1)
                        /\ ph # "out" => /\ Kept(SendCommand(s), u, ph, n)
                                         /\ Kept(Enqueue(s, Plain), u, ph, n)
                                         /\ Kept(SendApplication(s), u, ph, n)
      OBVIOUS
    <2>1. Plain \in Secured /\ Note \in Events /\ Note.kind # "saved"
      BY DEF Plain, Secured, Note, Events
    <2>2. StackOK(Emit(s, Note), u) /\ StackOK(SendCommand(s), u) /\ StackOK(Enqueue(s, Plain), u)
      BY <2>1, EmitFields, SendCommandFields, EnqueueFields
    <2> QED
      BY <2>2, NoteFollows, SendingFollows
  <1>6. \A u \in Nat : \A s, ph : \A n \in Nat : ph # "out" /\ Kept(s, u, ph, n) =>
          \A k \in 0..2 : Kept(SendApplications(s, k), u, ph, n)
    BY <1>5 DEF SendApplications
  <1>7. \A u \in Nat : \A s : StackOK(s, u) =>
          /\ \A ph : ph # "out" => Kept(Remember(s), u, ph, 0)
          /\ Kept(Emit(s, Left), u, "out", 0)
    <2> SUFFICES ASSUME NEW u \in Nat, NEW s, StackOK(s, u)
                 PROVE  /\ \A ph : ph # "out" => Kept(Remember(s), u, ph, 0)
                        /\ Kept(Emit(s, Left), u, "out", 0)
      OBVIOUS
    <2>1. Left \in Events /\ Left.kind # "saved"
      BY DEF Left, Events
    <2>2. StackOK(Emit(s, Left), u) /\ StackOK(Remember(s), u)
      BY <2>1, EmitFields, RememberFields
    <2> QED
      BY <2>2, TellingFollows
  <1>8. \A u \in Nat : \A s, ph, qh : \A n, m \in Nat :
          Kept(s, u, ph, n) /\ n <= m /\ (ph = "out" <=> qh = "out") => Kept(s, u, qh, m)
    <2> SUFFICES ASSUME NEW u \in Nat, NEW s, NEW ph, NEW qh, NEW n \in Nat, NEW m \in Nat,
                        Kept(s, u, ph, n), n <= m, ph = "out" <=> qh = "out"
                 PROVE  Follows(s, qh, flash, m)
      OBVIOUS
    <2>1. s.events \in Seq(Events)
      BY DEF StackOK, StackType
    <2> QED
      BY <2>1, FollowsStays
  <1>9. uses < UseBound => StackOK(NewUse(stack), uses + 1) /\ uses + 1 \in Nat
    BY <1>1, NewUseFields
  <1> HIDE DEF Kept
  <1>10. ASSUME Handling
         PROVE  \E u \in Nat : Kept(stack', u, phase', handled')
    <2>1. /\ handled' = handled + 1 /\ handled' \in Nat /\ handled' < EventCapacity
          /\ handled <= handled' /\ 0 <= handled' /\ 1 <= handled' /\ 1 < EventCapacity
          /\ 0 \in Nat /\ 1 \in Nat /\ 0 + 1 = 1
      BY <1>1, <1>10 DEF Handling
    <2>2. CASE TakeMembership
      <3> DEFINE a == Remember(stack)
                 b == SendApplication(SendCommand(a))
      <3>1. Kept(a, uses, "joined", 0)
        BY <1>1, <1>7
      <3> HIDE DEF a
      <3>2. Kept(b, uses, "joined", 0)
        BY <1>1, <1>5, <2>1, <3>1
      <3> HIDE DEF b
      <3>3. Kept(Emit(b, Note), uses, "joined", 1)
        BY <1>1, <1>5, <2>1, <3>2
      <3>4. stack' = Emit(b, Note) /\ phase' = "joined"
        BY <2>2 DEF TakeMembership, a, b
      <3>5. Kept(Emit(b, Note), uses, "joined", handled')
        BY <1>1, <1>8, <2>1, <3>3
      <3> QED
        BY <1>1, <3>4, <3>5
    <2>3. CASE Leave
      <3>1. Kept(stack', uses + 1, phase', 0)
        BY <1>7, <1>9, <2>3 DEF Leave
      <3> QED
        BY <1>8, <1>9, <2>1, <2>3, <3>1 DEF Leave
    <2>4. CASE SwitchKey
      <3>1. phase' # "out" /\ stack' = Remember(NewUse(stack)) /\ uses < UseBound
        BY <2>4 DEF SwitchKey
      <3>2. Kept(stack', uses + 1, phase', 0)
        BY <1>7, <1>9, <3>1
      <3> QED
        BY <1>8, <1>9, <2>1, <3>1, <3>2
    <2>5. CASE AnswerCommand
      <3>1. PICK k \in 0..2 : \/ stack' = SendApplications(stack, k)
                              \/ stack' = Emit(SendApplications(stack, k), Note)
        BY <2>5 DEF AnswerCommand
      <3>2. phase # "out" /\ phase' = phase
        BY <2>5 DEF AnswerCommand
      <3>3. Kept(SendApplications(stack, k), uses, phase, handled)
        BY <1>1, <1>4, <1>6, <3>2
      <3>4. Kept(SendApplications(stack, k), uses, phase, handled')
        BY <1>1, <1>8, <2>1, <3>3
      <3>5. Kept(Emit(SendApplications(stack, k), Note), uses, phase, handled')
        BY <1>1, <1>5, <2>1, <3>3
      <3> QED
        BY <1>1, <3>1, <3>2, <3>4, <3>5
    <2>6. CASE AskRouter \/ TimeoutResponse
      <3>1. phase # "out" /\ phase' = phase /\ stack' \in {stack, SendCommand(stack)}
        BY <2>6 DEF AskRouter, TimeoutResponse
      <3>2. Kept(stack', uses, phase, handled)
        BY <1>1, <1>4, <1>5, <3>1
      <3> QED
        BY <1>1, <1>8, <2>1, <3>1, <3>2
    <2>7. ~(Ticked)
      BY <1>10, <2>1 DEF Handling, Ticked, Stages
    <2> QED
      BY <2>2, <2>3, <2>4, <2>5, <2>6, <2>7
         DEF TickJoined, TickSearching, TickGivesUp, TickGivesUpJoining
  <1>11. ASSUME Ticked
         PROVE  \E u \in Nat : Kept(stack', u, phase', Burst)
    <2>1. 0 \in Nat /\ 0 <= Burst
      BY <1>1
    <2>2. CASE TickJoined
      <3>1. phase = "joined" /\ phase' = phase
        BY <2>2 DEF TickJoined
      <3>2. PICK n \in 0..1, due \in BOOLEAN :
               stack' = IF ~due THEN SendApplications(stack, n)
                        ELSE IF keepalive = "request"
                             THEN SendCommand(SendApplications(stack, n))
                             ELSE Enqueue(SendApplications(stack, n), Plain)
        BY <2>2 DEF TickJoined
      <3>3. Kept(SendApplications(stack, n), uses, phase, handled)
        BY <1>1, <1>4, <1>6, <3>1
      <3>4. Kept(stack', uses, phase, handled)
        BY <1>1, <1>5, <3>1, <3>2, <3>3
      <3> QED
        BY <1>1, <1>8, <3>1, <3>4
    <2>3. CASE TickSearching
      <3>1. phase' = phase /\ stack' \in {stack, Enqueue(stack, Plain)}
        BY <2>3 DEF TickSearching
      <3>2. StackOK(stack', uses) /\ Follows(stack', phase, flash, handled)
        <4>1. Plain \in Secured /\ stack.events \in Seq(Events) /\ handled <= handled
          BY <1>1 DEF Plain, Secured, StackOK, StackType
        <4>2. LET t == Enqueue(stack, Plain)
              IN  /\ StackOK(t, uses) /\ t.use = stack.use
                  /\ t.persisted = stack.persisted /\ t.events = stack.events
          BY <1>1, <4>1, EnqueueFields
        <4>3. Follows(Enqueue(stack, Plain), phase, flash, handled)
          BY <1>1, <1>4, <4>1, <4>2, FollowsStays DEF Kept
        <4> QED
          BY <1>1, <1>4, <3>1, <4>2, <4>3 DEF Kept
      <3>3. Kept(stack', uses, phase', handled)
        BY <3>1, <3>2 DEF Kept
      <3> QED
        BY <1>1, <1>8, <3>3
    <2>4. CASE TickGivesUp
      <3>1. Kept(stack', uses + 1, phase', 0)
        BY <1>7, <1>9, <2>4 DEF TickGivesUp
      <3> QED
        BY <1>1, <1>8, <1>9, <2>1, <2>4, <3>1 DEF TickGivesUp
    <2>5. CASE TickGivesUpJoining
      <3>1. Kept(stack', uses, phase', 0)
        BY <1>1, <1>7, <2>5 DEF TickGivesUpJoining
      <3> QED
        BY <1>1, <1>8, <2>1, <3>1
    <2>6. ~(Handling)
      BY <1>11 DEF Handling, Ticked
    <2> QED
      BY <2>2, <2>3, <2>4, <2>5, <2>6
         DEF TakeMembership, Leave, SwitchKey, AnswerCommand, AskRouter, TimeoutResponse
  <1>12. \/ Handling /\ stage' = "receive"
         \/ Ticked /\ stage' = "transmit"
    BY DEF TakeMembership, Leave, SwitchKey, AnswerCommand,
           AskRouter, TimeoutResponse, TickJoined, TickSearching, TickGivesUp,
           TickGivesUpJoining, Handling, Ticked
  <1> QED
    BY <1>2, <1>10, <1>11, <1>12 DEF FlashFollows, Kept
(* The device handles a frame, or a tick.                                  *)
LEMMA HandlingKeepsRange ==
    ASSUME Burst < EventCapacity, RangeInv,
           \/ TakeMembership \/ Leave \/ SwitchKey \/ AnswerCommand
           \/ AskRouter \/ TimeoutResponse
           \/ TickJoined \/ TickSearching \/ TickGivesUp \/ TickGivesUpJoining
    PROVE  RangeInv'
  <1>1. OrderInv' /\ Exceeds(stack, accepted, exposed)' /\ FlashFollows'
    BY HandlingKeepsOrder, HandlingExceeds, HandlingFollows DEF RangeInv
  <1>2. /\ uses' \in {uses, uses + 1} /\ accepted' = accepted
        /\ saving' = saving /\ stage = "receive"
        /\ (handled' = handled + 1) \/ (stage' = "transmit")
    BY DEF TakeMembership, Leave, SwitchKey, AnswerCommand,
           AskRouter, TimeoutResponse, TickJoined, TickSearching, TickGivesUp,
           TickGivesUpJoining, Handling, Ticked
  <1>3. (\A u \in 1..UseBound : u > uses => accepted[u] = 0)'
    BY <1>2, Capacities DEF RangeInv, OrderInv, RestOK
  <1>4. FlashIsBehind'
    BY <1>2, Capacities DEF FlashIsBehind, RangeInv, OrderInv, RestOK
  <1> QED
    BY <1>1, <1>2, <1>3, <1>4 DEF RangeInv, SafeToRestart

(* The head of the outbox goes, and the network may accept it.             *)
LEMMA TransmitKeepsRange ==
    ASSUME RangeInv, Transmit
    PROVE  RangeInv'
  <1> DEFINE q == stack.outbox
             frame == Head(q)
             t == [stack EXCEPT !.outbox = Tail(@)]
  <1>1. OrderInv'
    BY LoopKeepsOrder DEF RangeInv
  <1>2. /\ stack \in StackType /\ Order(stack, sent) /\ Exceeds(stack, accepted, exposed)
        /\ uses \in 1..UseBound /\ accepted \in [1..UseBound -> Nat]
        /\ stack.use <= uses
    BY DEF RangeInv, OrderInv, RestOK, Sound, StackOK
  <1>3. /\ UNCHANGED <<keepalive, stage, handled, saving, flash, uses, exposed>>
        /\ q # <<>> /\ stack' = t /\ stage = "transmit"
        /\ \/ accepted' = accepted
           \/ frame # Plain /\ accepted' = [accepted EXCEPT ![frame.use] = frame.counter]
        /\ phase' = "out" <=> phase = "out"
    BY DEF Transmit
  <1>4. /\ frame = q[1] /\ frame \in Secured
        /\ Len(q) \in Nat /\ Len(q) >= 1 /\ Len(Tail(q)) = Len(q) - 1
        /\ \A i \in 1..Len(Tail(q)) : Tail(q)[i] = q[i + 1]
    BY <1>2, <1>3, HeadTailProperties, EmptySeq DEF StackType
  <1>5. /\ t.use = stack.use /\ t.counter = stack.counter /\ t.persisted = stack.persisted
        /\ t.outbox = Tail(q) /\ t.events = stack.events
    BY <1>2 DEF StackType
  <1> HIDE DEF t
  <1>6. frame # Plain => /\ frame.use \in 1..stack.use
                         /\ frame.use = stack.use => frame.counter <= stack.counter
    BY <1>2, <1>4 DEF Order
  <1>7. frame # Plain => frame.use \in 1..uses /\ frame.counter \in Nat
    BY <1>2, <1>4, <1>6 DEF StackType, Secured
  <1>8. (\A u \in 1..UseBound : u > uses => accepted[u] = 0)'
    BY <1>2, <1>3, <1>7, Capacities DEF RangeInv
  <1>9. Exceeds(stack', accepted', exposed')
    <2>1. t.use \notin exposed => accepted'[t.use] <= t.counter
      BY <1>2, <1>3, <1>5, <1>6, <1>7, Capacities DEF Exceeds, StackType
    <2>2. ASSUME NEW i \in 1..Len(t.outbox), t.outbox[i] # Plain,
                 t.outbox[i].use \notin exposed
          PROVE  t.outbox[i].counter > accepted'[t.outbox[i].use]
      <3>1. i + 1 \in 1..Len(q) /\ t.outbox[i] = q[i + 1] /\ 1 \in 1..((i + 1) - 1)
        BY <1>4, <1>5
      <3>2. q[i + 1].counter > accepted[q[i + 1].use]
        BY <1>2, <2>2, <3>1 DEF Exceeds
      <3>3. frame # Plain => Before(frame, q[i + 1])
        BY <1>2, <1>4, <2>2, <3>1 DEF Order
      <3>4. q[i + 1].use \in 1..UseBound /\ q[i + 1].counter \in Nat
        <4>1. q[i + 1].use \in 1..stack.use
          BY <1>2, <2>2, <3>1 DEF Order
        <4>2. q[i + 1] \in Secured
          BY <1>2, <3>1 DEF StackType
        <4>3. stack.use \in 1..UseBound
          BY <1>2 DEF StackType
        <4>4. q[i + 1].counter \in Nat
          BY <4>2 DEF Secured
        <4> QED
          BY <4>1, <4>3, <4>4, Capacities
      <3>5. CASE accepted' = accepted
        BY <3>1, <3>2, <3>5
      <3>6. CASE frame # Plain /\ accepted' = [accepted EXCEPT ![frame.use] = frame.counter]
        <4>1. frame.use \in 1..UseBound /\ frame.counter \in Nat
          BY <1>2, <1>7, <3>6, Capacities
        <4>2. frame.use = q[i + 1].use => frame.counter < q[i + 1].counter
          BY <3>3, <3>4, <3>6, <4>1 DEF Before
        <4>3. accepted'[q[i + 1].use] = IF q[i + 1].use = frame.use THEN frame.counter
                                        ELSE accepted[q[i + 1].use]
          BY <1>2, <3>4, <3>6
        <4> QED
          BY <1>2, <3>1, <3>2, <3>4, <4>1, <4>2, <4>3
      <3> QED
        BY <1>3, <3>5, <3>6
    <2> QED
      BY <1>3, <2>1, <2>2 DEF Exceeds
  <1>10. FlashFollows'
    <2>1. Burst \in Nat /\ Burst <= Burst /\ stack.events \in Seq(Events)
      BY <1>2, Capacities DEF StackType
    <2>2. Follows(stack, phase, IF saving = {} THEN flash ELSE saving, Burst)
      BY <1>3 DEF RangeInv, FlashFollows
    <2>3. Follows(t, phase', IF saving = {} THEN flash ELSE saving, Burst)
      BY <1>3, <1>5, <2>1, <2>2, FollowsStays
    <2> QED
      BY <1>3, <2>3 DEF FlashFollows
  <1>11. SafeToRestart'
    BY <1>3 DEF SafeToRestart, FlashIsBehind
  <1> QED
    BY <1>1, <1>3, <1>8, <1>9, <1>10, <1>11 DEF RangeInv

(* An event acted on is one that flash now follows.                        *)
LEMMA EventKeepsRange ==
    ASSUME RangeInv, ForgetNetwork \/ EraseCredentials \/ NoteEvent
    PROVE  RangeInv'
  <1> DEFINE q == stack.events
             t == [stack EXCEPT !.events = Tail(@)]
             base == IF saving' = {} THEN flash' ELSE saving'
  <1>1. OrderInv'
    BY LoopKeepsOrder DEF RangeInv
  <1>2. /\ stack \in StackType /\ Exceeds(stack, accepted, exposed) /\ Burst \in Nat
    BY Capacities DEF RangeInv, OrderInv, Sound, StackOK
  <1>3. /\ UNCHANGED <<phase, keepalive, stage, handled, uses, accepted, sent, exposed>>
        /\ q # <<>> /\ stack' = t /\ stage = "events" /\ saving = {}
        /\ \/ Head(q).kind = "left" /\ base = {}
           \/ Head(q).kind = "saved" /\ base = {Record(Head(q))}
           \/ Head(q).kind = "note" /\ base = flash
    BY DEF ForgetNetwork, EraseCredentials, NoteEvent, TakeEvent
  <1>4. /\ Head(q) = q[1] /\ Head(q) \in Events
        /\ Len(q) \in Nat /\ Len(q) >= 1 /\ Len(Tail(q)) = Len(q) - 1
        /\ \A i \in 1..Len(Tail(q)) : Tail(q)[i] = q[i + 1]
    BY <1>2, <1>3, HeadTailProperties, EmptySeq DEF StackType
  <1>5. /\ t.use = stack.use /\ t.counter = stack.counter /\ t.persisted = stack.persisted
        /\ t.outbox = stack.outbox /\ t.events = Tail(q)
    BY <1>2 DEF StackType
  <1>6. Told(t, phase) = Told(stack, phase) /\ Held(t, phase) = Held(stack, phase)
    BY <1>5 DEF Told, Held
  <1> HIDE DEF t, base
  <1>7. Exceeds(t, accepted, exposed)
    BY <1>2, <1>5 DEF Exceeds
  <1>8. Follows(stack, phase, flash, Burst)
    BY <1>3 DEF RangeInv, FlashFollows
  <1>9. Follows(t, phase, base, Burst)
    <2>1. CASE \E i \in 1..Len(q) : /\ q[i] = Told(stack, phase)
                                    /\ Len(q) - i <= Burst
                                    /\ \A j \in (i + 1)..Len(q) : q[j] = Note
      <3>1. PICK i \in 1..Len(q) : /\ q[i] = Told(stack, phase)
                                   /\ Len(q) - i <= Burst
                                   /\ \A j \in (i + 1)..Len(q) : q[j] = Note
        BY <2>1
      <3>2. CASE i = 1
        <4>1. \A j \in 1..Len(Tail(q)) : j + 1 \in (i + 1)..Len(q)
          BY <1>4, <3>2
        <4>2. \A j \in 1..Len(t.events) : t.events[j] = Note
          BY <1>4, <1>5, <3>1, <4>1
        <4>3. base = Held(t, phase)
          BY <1>3, <1>4, <1>6, <3>1, <3>2 DEF Told, Held, Left, Record
        <4> QED
          BY <4>2, <4>3 DEF Follows
      <3>3. CASE i # 1
        <4>1. i - 1 \in 1..Len(Tail(q)) /\ Len(Tail(q)) - (i - 1) <= Burst
          BY <1>2, <1>4, <3>1, <3>3
        <4>2. (i - 1) + 1 = i
          OBVIOUS
        <4>3. \A j \in ((i - 1) + 1)..Len(Tail(q)) : j + 1 \in (i + 1)..Len(q) /\ j \in 1..Len(Tail(q))
          BY <1>4, <4>1
        <4>4. t.events[i - 1] = Told(t, phase)
          BY <1>4, <1>5, <1>6, <3>1, <4>1, <4>2
        <4>5. \A j \in ((i - 1) + 1)..Len(t.events) : t.events[j] = Note
          BY <1>4, <1>5, <3>1, <4>3
        <4> QED
          BY <1>5, <4>1, <4>4, <4>5 DEF Follows
      <3> QED
        BY <3>2, <3>3
    <2>2. CASE (\A j \in 1..Len(q) : q[j] = Note) /\ flash = Held(stack, phase)
      <3>1. \A j \in 1..Len(t.events) : t.events[j] = Note
        <4>1. \A j \in 1..Len(Tail(q)) : j + 1 \in 1..Len(q)
          BY <1>4
        <4> QED
          BY <1>4, <1>5, <2>2, <4>1
      <3>2. base = flash
        BY <1>3, <1>4, <2>2 DEF Note
      <3> QED
        BY <1>6, <2>2, <3>1, <3>2 DEF Follows
    <2> QED
      BY <1>8, <2>1, <2>2 DEF Follows
  <1>10. FlashFollows'
    BY <1>3, <1>9 DEF FlashFollows, base
  <1>11. SafeToRestart'
    BY <1>3 DEF SafeToRestart, FlashIsBehind
  <1> QED
    BY <1>1, <1>3, <1>7, <1>10, <1>11 DEF RangeInv

(* The turn ends with flash up to date.                                    *)
LEMMA TurnKeepsRange ==
    ASSUME RangeInv, Transmitted \/ WriteCredentials \/ TurnOver
    PROVE  RangeInv'
  <1>1. OrderInv'
    BY LoopKeepsOrder DEF RangeInv
  <1>2. /\ stack' = stack /\ phase' = phase /\ accepted' = accepted /\ exposed' = exposed
        /\ uses' = uses /\ handled' = handled
    BY DEF Transmitted, WriteCredentials, TurnOver
  <1>3. Exceeds(stack, accepted, exposed)' /\ (\A u \in 1..UseBound : u > uses => accepted[u] = 0)'
    BY <1>2 DEF RangeInv
  <1>4. CASE Transmitted \/ WriteCredentials
    <2>1. stage' = "events" /\ stage # "receive"
      BY <1>4 DEF Transmitted, WriteCredentials, RangeInv
    <2>2. (IF saving' = {} THEN flash' ELSE saving') = (IF saving = {} THEN flash ELSE saving)
      BY <1>4 DEF Transmitted, WriteCredentials
    <2>3. FlashFollows'
      BY <1>2, <2>1, <2>2 DEF RangeInv, FlashFollows
    <2>4. SafeToRestart'
      BY <2>1 DEF SafeToRestart, FlashIsBehind
    <2> QED
      BY <1>1, <1>3, <2>1, <2>3, <2>4 DEF RangeInv
  <1>5. CASE TurnOver
    <2>1. /\ stage = "events" /\ stage' = "receive" /\ saving = {} /\ saving' = {}
          /\ flash' = flash /\ stack.events = <<>>
      BY <1>5 DEF TurnOver
    <2>2. Len(stack.events) = 0
      BY <2>1
    <2>3. flash = Held(stack, phase)
      BY <2>1, <2>2 DEF RangeInv, FlashFollows, Follows
    <2>4. FlashFollows'
      BY <1>2, <2>1, <2>2, <2>3 DEF FlashFollows, Follows
    <2>5. SafeToRestart'
      <3> SUFFICES ASSUME stack.counter <= stack.persisted,
                          NEW r \in flash, r.use \notin exposed
                   PROVE  accepted[r.use] <= r.counter
        <4>1. stack.counter \in Nat /\ stack.persisted \in Nat
          BY DEF RangeInv, OrderInv, Sound, StackOK, StackType
        <4> QED
          BY <1>2, <2>1, <4>1 DEF SafeToRestart, FlashIsBehind
      <3>1. r.use = stack.use /\ r.counter = stack.persisted
        BY <2>3 DEF Held
      <3>2. accepted[stack.use] <= stack.counter
        BY <3>1 DEF RangeInv, Exceeds
      <3>3. accepted[stack.use] \in Nat /\ stack.counter \in Nat /\ stack.persisted \in Nat
        BY DEF RangeInv, OrderInv, RestOK, Sound, StackOK, StackType
      <3> QED
        BY <3>1, <3>2, <3>3
    <2> QED
      BY <1>1, <1>3, <2>1, <2>4, <2>5 DEF RangeInv
  <1> QED
    BY <1>4, <1>5

(* What a boot makes of the record it finds.                               *)
LEMMA BootFields ==
    ASSUME NEW record, record \in Secured, record.use \in 1..uses, uses \in 1..UseBound,
           NEW acc \in [1..UseBound -> Nat], NEW exp,
           record.use \notin exp => acc[record.use] <= record.counter
    PROVE  /\ Exceeds(Restored(record), acc, exp)
           /\ \A base : Follows(Restored(record), "joined", base, 0)
  <1> DEFINE s == [Blank EXCEPT !.use = record.use, !.counter = record.counter,
                                !.persisted = record.counter]
             c == SendCommand(s)
             a == SendCommand(c)
  <1>1. /\ s \in StackType
        /\ s.use = record.use /\ s.counter = record.counter /\ s.persisted = record.counter
        /\ s.outbox = <<>> /\ s.events = <<>>
    <2>1. record.use \in 1..UseBound /\ record.counter \in Nat
      BY Capacities DEF Secured
    <2>2. Blank \in StackType
      BY Capacities DEF Blank, StackType
    <2>3. Blank.outbox = <<>> /\ Blank.events = <<>>
      BY DEF Blank
    <2> QED
      BY <2>1, <2>2, <2>3 DEF StackType
  <1>2. Len(s.outbox) = 0 /\ Len(s.events) = 0 /\ uses \in Nat /\ record.counter \in Nat
    BY <1>1, Capacities DEF Secured
  <1>3. StackOK(s, uses) /\ Exceeds(s, acc, exp)
    BY <1>1, <1>2, Capacities DEF StackOK, Exceeds
  <1> HIDE DEF s
  <1>4. StackOK(c, uses) /\ Exceeds(c, acc, exp)
        /\ c.counter = record.counter + 1 /\ c.persisted = record.counter
    BY <1>1, <1>2, <1>3, OperationsExceed, SendCommandFields
  <1> HIDE DEF c
  <1>5. StackOK(a, uses) /\ Exceeds(a, acc, exp)
        /\ a.counter = record.counter + 1 + 1 /\ a.persisted = record.counter
    BY <1>2, <1>4, OperationsExceed, SendCommandFields
  <1>6. a.counter >= c.persisted /\ SendApplication(c) = Remember(a)
    BY <1>2, <1>4, <1>5 DEF SendApplication
  <1> HIDE DEF a
  <1>7. Exceeds(Remember(a), acc, exp)
    BY <1>2, <1>5, OperationsExceed
  <1>8. \A base : Follows(Remember(a), "joined", base, 0)
    BY <1>2, <1>5, TellingFollows
  <1> QED
    BY <1>6, <1>7, <1>8 DEF Restored, s, c

LEMMA BootKeepsRange ==
    ASSUME RangeInv, PowerCut
    PROVE  RangeInv'
  <1>1. OrderInv'
    BY BootKeepsOrder DEF RangeInv
  <1>2. /\ uses \in 1..UseBound /\ flash \subseteq Records
        /\ accepted \in [1..UseBound -> Nat] /\ accepted' = accepted
        /\ flash' = flash /\ saving' = {} /\ stage' = "receive" /\ handled' = 0
        /\ exposed' = IF FlashIsBehind THEN exposed \cup {r.use : r \in flash} ELSE exposed
        /\ phase' = IF flash = {} THEN "out" ELSE "joined"
    BY DEF RangeInv, OrderInv, RestOK, PowerCut
  <1>3. \A r \in flash : r.use \notin exposed' => accepted[r.use] <= r.counter
    BY <1>2 DEF RangeInv, SafeToRestart
  <1>4. SafeToRestart'
    BY <1>2, <1>3 DEF SafeToRestart
  <1>5. CASE /\ flash = {} /\ uses < UseBound /\ uses' = uses + 1
             /\ stack' = [Blank EXCEPT !.use = uses + 1]
    <2>1. /\ stack'.use = uses + 1 /\ stack'.counter = 0
          /\ stack'.outbox = <<>> /\ stack'.events = <<>>
      BY <1>5 DEF Blank
    <2>2. Len(stack'.outbox) = 0 /\ Len(stack'.events) = 0
      BY <2>1
    <2>3. \A u \in 1..UseBound : u > uses => accepted[u] = 0
      BY DEF RangeInv
    <2>4. accepted[uses + 1] = 0 /\ \A u \in 1..UseBound : u > uses + 1 => accepted[u] = 0
      BY <1>2, <1>5, <2>3, Capacities
    <2>5. Exceeds(stack', accepted', exposed')
      BY <1>2, <2>1, <2>2, <2>4 DEF Exceeds
    <2>6. FlashFollows'
      BY <1>2, <1>5, <2>2 DEF FlashFollows, Follows, Held
    <2> QED
      BY <1>1, <1>2, <1>4, <1>5, <2>4, <2>5, <2>6 DEF RangeInv
  <1>6. CASE uses' = uses /\ \E record \in flash : stack' = Restored(record)
    <2>1. PICK record \in flash : stack' = Restored(record)
      BY <1>6
    <2>2. record \in Secured /\ record.use \in 1..uses /\ phase' = "joined"
      BY <1>2 DEF Records
    <2>3. Exceeds(stack', accepted', exposed')
      BY <1>2, <1>3, <2>1, <2>2, BootFields
    <2>4. Follows(stack', "joined", flash', 0)
      BY <1>2, <1>3, <2>1, <2>2, BootFields
    <2>5. FlashFollows'
      BY <1>2, <2>2, <2>4 DEF FlashFollows
    <2> QED
      BY <1>1, <1>2, <1>4, <1>6, <2>3, <2>5 DEF RangeInv
  <1> QED
    BY <1>5, <1>6 DEF PowerCut

LEMMA StartsInRange ==
    ASSUME Init
    PROVE  RangeInv
  <1>1. OrderInv
    BY StartsInOrder
  <1>2. Len(stack.outbox) = 0 /\ Len(stack.events) = 0 /\ stack.counter = 0 /\ stack.use = 1
    BY DEF Init, Blank
  <1>3. Exceeds(stack, accepted, exposed)
    BY <1>2, Capacities DEF Init, Exceeds
  <1> QED
    BY <1>1, <1>2, <1>3 DEF Init, RangeInv, FlashFollows, Follows, Held, SafeToRestart

LEMMA EveryStepKeepsRange ==
    ASSUME Burst < EventCapacity, RangeInv, [Next]_vars
    PROVE  RangeInv'
  <1>1. CASE UNCHANGED vars
    <2>1. OrderInv'
      BY <1>1, EveryStepKeepsOrder DEF RangeInv
    <2>2. /\ stack' = stack /\ phase' = phase /\ stage' = stage /\ handled' = handled
          /\ saving' = saving /\ flash' = flash /\ uses' = uses
          /\ accepted' = accepted /\ exposed' = exposed
      BY <1>1 DEF vars
    <2> QED
      BY <2>1, <2>2 DEF RangeInv, FlashFollows, SafeToRestart, FlashIsBehind
  <1> QED
    BY <1>1, HandlingKeepsRange, TransmitKeepsRange, EventKeepsRange, TurnKeepsRange,
       BootKeepsRange DEF Next

(* As long as one turn of the loop handles fewer frames than the event     *)
(* queue holds, a frame waiting to be sent exceeds every counter the       *)
(* network accepted under its use of the key, but for the uses a power cut *)
(* took up again from a record that was behind.                            *)
THEOREM TheRangeProtects ==
    ASSUME Burst < EventCapacity
    PROVE  Spec => []RangeProtects
  <1>1. RangeInv => RangeProtects
    <2> SUFFICES ASSUME RangeInv
                 PROVE  RangeProtects
      OBVIOUS
    <2>1. DOMAIN stack.outbox = 1..Len(stack.outbox)
      BY DEF RangeInv, OrderInv, Sound, StackOK, StackType
    <2> QED
      BY <2>1 DEF RangeInv, Exceeds, RangeProtects
  <1>2. RangeInv /\ [Next]_vars => RangeInv'
    BY EveryStepKeepsRange
  <1> QED
    BY <1>1, <1>2, StartsInRange, PTL DEF Spec

(* Under the same bound no event that changes flash is ever pushed out of  *)
(* the queue: between two turns flash holds exactly the range in use.      *)
THEOREM FlashKeepsUp ==
    ASSUME Burst < EventCapacity
    PROVE  Spec => []FlashHoldsTheRange
  <1>1. RangeInv => FlashHoldsTheRange
    <2> SUFFICES ASSUME RangeInv, stage = "receive", stack.events = <<>>
                 PROVE  flash = Held(stack, phase)
      BY DEF FlashHoldsTheRange, Held
    <2>1. Len(stack.events) = 0 /\ saving = {}
      BY DEF RangeInv
    <2> QED
      BY <2>1 DEF RangeInv, FlashFollows, Follows
  <1>2. RangeInv /\ [Next]_vars => RangeInv'
    BY EveryStepKeepsRange
  <1> QED
    BY <1>1, <1>2, StartsInRange, PTL DEF Spec
=============================================================================
