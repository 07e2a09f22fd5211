--------------------------- MODULE Delivery_proofs ---------------------------
(***************************************************************************)
(* In the whole of a delivery the two tables only ever make steps of their *)
(* own, so what Tables_proofs shows of each holds among repeats, losses,   *)
(* copies, key switches and restarts.  What a boot has acted on and what   *)
(* the duplicate table remembers go together, and with them what a sender  *)
(* may conclude from an answer, for every size, sender and modulus.        *)
(***************************************************************************)
EXTENDS Delivery, Tables_proofs

AirFrame == [source : Sources, key : Keys, counter : 0..CounterBound,
             aps : 0..(Modulus - 1), request : Nat]

(* Requests are pairs of a sender and a number.                            *)
RequestNames == Sources \X Nat

(* What senders, air and queue can look like.                              *)
EnvOK ==
    /\ stage \in {"receive", "transmit"}
    /\ rotation \in {"none", "handed out", "switching"}
    /\ inUse \in Keys /\ held \in BOOLEAN
    /\ asked \in [Sources -> Nat]
    /\ \A s \in Sources : asked[s] <= Requests[s]
    /\ aps \in [Sources -> 0..(Modulus - 1)]
    /\ nwk \in [Sources -> [key : Keys, counter : 0..CounterBound]]
    /\ waiting \in [Sources -> BOOLEAN]
    /\ \A s \in Sources : waiting[s] => asked[s] >= 1
    /\ air \subseteq AirFrame
    /\ \A f \in air : f.request \in 1..asked[f.source]
    /\ outbox \in Seq(Acks \cup {Report}) /\ Len(outbox) <= OutboxCapacity
    /\ answers \subseteq Acks

LEMMA Bounds ==
    /\ Modulus \in Nat /\ Modulus >= 1 /\ OutboxCapacity \in Nat /\ OutboxCapacity >= 1
    /\ CounterBound \in Nat /\ \A s \in Sources : Requests[s] \in Nat
    /\ \A n \in Elsewhere : n \in Nat
  BY DeliveryAssumption

-----------------------------------------------------------------------------
(* The queue of answers                                                    *)

(* A full queue gives up its oldest; nothing comes in but what is pushed.  *)
LEMMA PushedIs ==
    ASSUME EnvOK, NEW v \in Acks \cup {Report}
    PROVE  /\ Pushed(v) \in Seq(Acks \cup {Report})
           /\ Len(Pushed(v)) <= OutboxCapacity
           /\ \A i \in 1..Len(Pushed(v)) :
                 Pushed(v)[i] = v \/ \E j \in 1..Len(outbox) : Pushed(v)[i] = outbox[j]
  <1> DEFINE S == Acks \cup {Report}
             t == IF Len(outbox) = OutboxCapacity THEN Tail(outbox) ELSE outbox
  <1>1. /\ outbox \in Seq(S) /\ Len(outbox) \in Nat /\ Len(outbox) <= OutboxCapacity
        /\ OutboxCapacity \in Nat /\ OutboxCapacity >= 1
    <2>1. outbox \in Seq(S) /\ Len(outbox) <= OutboxCapacity
      BY DEF EnvOK
    <2> QED
      BY <2>1, Bounds
  <1>2. /\ t \in Seq(S) /\ Len(t) < OutboxCapacity
        /\ \A i \in 1..Len(t) : \E j \in 1..Len(outbox) : t[i] = outbox[j]
    <2>1. CASE Len(outbox) = OutboxCapacity
      <3>1. outbox # <<>>
        BY <1>1, <2>1
      <3>2. /\ Tail(outbox) \in Seq(S) /\ Len(Tail(outbox)) = Len(outbox) - 1
            /\ \A i \in 1..Len(Tail(outbox)) : Tail(outbox)[i] = outbox[i + 1]
        BY <1>1, <3>1, HeadTailProperties
      <3>3. \A i \in 1..Len(Tail(outbox)) : i + 1 \in 1..Len(outbox)
        BY <1>1, <3>2
      <3> QED
        BY <1>1, <2>1, <3>2, <3>3
    <2>2. CASE Len(outbox) # OutboxCapacity
      BY <1>1, <2>2
    <2> QED
      BY <2>1, <2>2
  <1> HIDE DEF t
  <1>3. v \in S /\ Pushed(v) = Append(t, v)
    BY DEF Pushed, t
  <1> HIDE DEF S
  <1>4. /\ Append(t, v) \in Seq(S) /\ Len(Append(t, v)) = Len(t) + 1 /\ Len(t) \in Nat
        /\ Append(t, v)[Len(t) + 1] = v
        /\ \A i \in 1..Len(t) : Append(t, v)[i] = t[i]
    BY <1>2, <1>3, AppendProperties
  <1>5. \A i \in 1..Len(Append(t, v)) : i = Len(t) + 1 \/ i \in 1..Len(t)
    BY <1>4
  <1>6. Len(Append(t, v)) <= OutboxCapacity
    BY <1>1, <1>2, <1>4
  <1> QED
    BY <1>2, <1>3, <1>4, <1>5, <1>6 DEF S

(* The head that is transmitted, and what stays behind it.                 *)
LEMMA OutboxTail ==
    ASSUME EnvOK, outbox # <<>>
    PROVE  /\ Head(outbox) = outbox[1] /\ 1 \in 1..Len(outbox)
           /\ Tail(outbox) \in Seq(Acks \cup {Report})
           /\ Len(Tail(outbox)) <= OutboxCapacity
           /\ \A i \in 1..Len(Tail(outbox)) :
                 i + 1 \in 1..Len(outbox) /\ Tail(outbox)[i] = outbox[i + 1]
  <1>1. /\ outbox \in Seq(Acks \cup {Report}) /\ Len(outbox) \in Nat
        /\ Len(outbox) <= OutboxCapacity /\ OutboxCapacity \in Nat
    <2>1. outbox \in Seq(Acks \cup {Report}) /\ Len(outbox) <= OutboxCapacity
      BY DEF EnvOK
    <2> QED
      BY <2>1, Bounds
  <1>2. /\ Head(outbox) = outbox[1]
        /\ Tail(outbox) \in Seq(Acks \cup {Report}) /\ Len(Tail(outbox)) = Len(outbox) - 1
        /\ \A i \in 1..Len(Tail(outbox)) : Tail(outbox)[i] = outbox[i + 1]
    BY <1>1, HeadTailProperties
  <1>3. Len(outbox) >= 1
    BY <1>1, EmptySeq
  <1> QED
    BY <1>1, <1>2, <1>3

-----------------------------------------------------------------------------
(* Every step, by what it leaves alone                                     *)

(* A frame the device reads is acknowledged by a pair the table may hold.  *)
LEMMA AckIsPair ==
    ASSUME EnvOK, NEW f \in air
    PROVE  /\ AckOf(f) \in Acks /\ AckOf(f) \in Pairs
           /\ f.source \in Sources /\ f.counter \in Counters
           /\ f.request \in Nat /\ f.request \in 1..asked[f.source]
           /\ <<f.source, f.request>> \in RequestNames
  <1>1. f \in AirFrame /\ f.request \in 1..asked[f.source]
    BY DEF EnvOK
  <1>2. AckOf(f) \in Acks
    BY <1>1 DEF AirFrame, AckOf, Acks
  <1>3. f.counter \in Counters
    BY <1>1, DeliveryAssumption DEF AirFrame
  <1> QED
    BY <1>1, <1>2, <1>3, DeliveryAssumption DEF AirFrame, RequestNames

LEMMA StartsWell ==
    ASSUME Init
    PROVE  EnvOK
  <1>1. asked \in [Sources -> Nat] /\ aps \in [Sources -> 0..(Modulus - 1)]
    BY Bounds DEF Init
  <1>2. nwk \in [Sources -> [key : Keys, counter : 0..CounterBound]]
    BY Bounds DEF Init, Keys
  <1>3. /\ \A s \in Sources : asked[s] <= Requests[s] /\ ~waiting[s]
        /\ waiting \in [Sources -> BOOLEAN]
    BY Bounds DEF Init
  <1>4. outbox \in Seq(Acks \cup {Report}) /\ Len(outbox) <= OutboxCapacity
    BY Bounds DEF Init
  <1> QED
    BY <1>1, <1>2, <1>3, <1>4 DEF Init, EnvOK, Keys

LEMMA SendersKeepEnv ==
    ASSUME EnvOK, Sender
    PROVE  EnvOK'
  <1>1. PICK s \in Sources : Ask(s) \/ Repeat(s) \/ Answered(s) \/ MoveToNextKey(s)
    BY DEF Sender
  <1> DEFINE Secured == [key : Keys, counter : 0..CounterBound]
  <1>2. /\ asked \in [Sources -> Nat] /\ aps \in [Sources -> 0..(Modulus - 1)]
        /\ nwk \in [Sources -> Secured] /\ waiting \in [Sources -> BOOLEAN]
        /\ \A t \in Sources : asked[t] <= Requests[t] /\ (waiting[t] => asked[t] >= 1)
        /\ air \subseteq AirFrame /\ \A f \in air : f.request \in 1..asked[f.source]
    BY DEF EnvOK
  <1>3. \A f \in air : f.source \in Sources
    BY <1>2 DEF AirFrame
  <1>4. ASSUME nwk[s].counter < CounterBound, nwk' = Advanced(s)
        PROVE  nwk' \in [Sources -> Secured]
    <2>1. nwk[s] \in Secured
      BY <1>2
    <2>2. [key |-> nwk[s].key, counter |-> nwk[s].counter + 1] \in Secured
      BY <1>4, <2>1, Bounds
    <2> HIDE DEF Secured
    <2> QED
      BY <1>2, <1>4, <2>2 DEF Advanced
  <1>5. CASE Ask(s)
    <2>1. PICK n \in Elsewhere : aps' = [aps EXCEPT ![s] = (@ + 1 + n) % Modulus]
      BY <1>5 DEF Ask
    <2>2. (aps[s] + 1 + n) % Modulus \in 0..(Modulus - 1)
      <3>1. aps[s] \in Nat /\ n \in Nat
        BY <1>2, Bounds
      <3> QED
        BY <3>1, Bounds
    <2>3. /\ asked' = [asked EXCEPT ![s] = @ + 1] /\ asked[s] < Requests[s]
          /\ nwk' = Advanced(s) /\ waiting' = [waiting EXCEPT ![s] = TRUE]
          /\ nwk[s].counter < CounterBound
          /\ air' = air \cup {Frame(s)'}
          /\ UNCHANGED <<stage, outbox, keyVars, answers>>
      BY <1>5 DEF Ask
    <2>4. /\ asked' \in [Sources -> Nat]
          /\ \A t \in Sources : asked'[t] = IF t = s THEN asked[s] + 1 ELSE asked[t]
      BY <1>2, <2>3
    <2>5. \A t \in Sources : asked'[t] <= Requests[t] /\ asked[t] <= asked'[t]
      BY <1>2, <2>3, <2>4, Bounds
    <2>6. aps' \in [Sources -> 0..(Modulus - 1)]
      BY <1>2, <2>1, <2>2
    <2>7. nwk' \in [Sources -> Secured]
      BY <1>4, <2>3
    <2>8. /\ waiting' \in [Sources -> BOOLEAN]
          /\ \A t \in Sources : waiting'[t] => t = s \/ waiting[t]
      BY <1>2, <2>3
    <2>9. \A t \in Sources : waiting'[t] => asked'[t] >= 1
      BY <1>2, <2>4, <2>8
    <2>10. Frame(s)' = [source |-> s, key |-> nwk'[s].key, counter |-> nwk'[s].counter,
                        aps |-> aps'[s], request |-> asked'[s]]
      BY DEF Frame
    <2>11. nwk'[s] \in Secured /\ aps'[s] \in 0..(Modulus - 1) /\ asked'[s] \in Nat
      BY <2>4, <2>6, <2>7
    <2>12. Frame(s)' \in AirFrame
      BY <2>10, <2>11 DEF AirFrame
    <2>13. Frame(s)'.source = s /\ Frame(s)'.request = asked'[s] /\ asked'[s] >= 1
      BY <1>2, <2>4, <2>10
    <2>14. air' \subseteq AirFrame
      BY <1>2, <2>3, <2>12
    <2>15. \A f \in air' : f.request \in 1..asked'[f.source]
      <3>1. \A f \in air : f.request \in 1..asked'[f.source]
        BY <1>2, <1>3, <2>4, <2>5
      <3> QED
        BY <2>3, <2>4, <2>13, <3>1
    <2> QED
      BY <2>3, <2>4, <2>5, <2>6, <2>7, <2>8, <2>9, <2>14, <2>15 DEF EnvOK, keyVars
  <1>6. CASE Repeat(s)
    <2> DEFINE again == [Frame(s) EXCEPT !.counter = @ + 1]
    <2>1. /\ waiting[s] /\ nwk[s].counter < CounterBound /\ nwk' = Advanced(s)
          /\ air' = air \cup {again}
          /\ UNCHANGED <<stage, outbox, keyVars, asked, aps, waiting, answers>>
      BY <1>6 DEF Repeat
    <2>2. nwk' \in [Sources -> Secured]
      BY <1>4, <2>1
    <2>3. nwk[s] \in Secured /\ aps[s] \in 0..(Modulus - 1) /\ asked[s] \in Nat /\ asked[s] >= 1
      BY <1>2, <2>1
    <2>4. again = [source |-> s, key |-> nwk[s].key, counter |-> nwk[s].counter + 1,
                   aps |-> aps[s], request |-> asked[s]]
      BY DEF Frame
    <2>5. again \in AirFrame /\ again.request \in 1..asked[s] /\ again.source = s
      BY <2>1, <2>3, <2>4, Bounds DEF AirFrame
    <2> HIDE DEF again
    <2> QED
      BY <2>1, <2>2, <2>5 DEF EnvOK, keyVars
  <1>7. CASE Answered(s)
    <2>1. PICK ack \in answers :
             /\ answers' = answers \ {ack}
             /\ waiting' = [waiting EXCEPT ![s] = @ /\ ack.counter # aps[s]]
      BY <1>7 DEF Answered
    <2>2. UNCHANGED <<stage, outbox, keyVars, asked, aps, nwk, air>>
      BY <1>7 DEF Answered
    <2>3. /\ waiting' \in [Sources -> BOOLEAN]
          /\ \A t \in Sources : waiting'[t] => waiting[t]
      <3> DEFINE still == waiting[s] /\ ack.counter # aps[s]
      <3>1. still \in BOOLEAN /\ (still => waiting[s]) /\ waiting' = [waiting EXCEPT ![s] = still]
        BY <2>1
      <3> HIDE DEF still
      <3> QED
        BY <1>2, <3>1
    <2> QED
      BY <2>1, <2>2, <2>3 DEF EnvOK, keyVars
  <1>8. CASE MoveToNextKey(s)
    <2>1. /\ nwk' = [nwk EXCEPT ![s] = [key |-> 2, counter |-> 0]]
          /\ UNCHANGED <<stage, outbox, keyVars, asked, aps, waiting, air, answers>>
      BY <1>8 DEF MoveToNextKey
    <2>2. [key |-> 2, counter |-> 0] \in Secured
      BY Bounds DEF Keys
    <2>3. nwk' \in [Sources -> Secured]
      BY <1>2, <2>1, <2>2
    <2> QED
      BY <2>1, <2>3 DEF EnvOK, keyVars
  <1> QED
    BY <1>1, <1>5, <1>6, <1>7, <1>8

LEMMA DeviceKeepsEnv ==
    ASSUME EnvOK, AnnounceSwitch \/ LoseFrame \/ LoseAnswer \/ Device \/ PowerCut
    PROVE  EnvOK'
  <1>1. CASE AnnounceSwitch \/ HoldKey \/ SwitchKey
    BY <1>1 DEF AnnounceSwitch, HoldKey, SwitchKey, EnvOK, Keys, keyVars, senderVars
  <1>2. CASE LoseFrame \/ LoseAnswer
    BY <1>2 DEF LoseFrame, LoseAnswer, EnvOK, keyVars, senderVars
  <1>3. CASE Receive
    <2>1. PICK f \in air : Deaf(f) \/ Replayed(f) \/ Repeated(f) \/ ActedOn(f)
      BY <1>3 DEF Receive
    <2>2. /\ UNCHANGED <<stage, keyVars, senderVars, answers>>
          /\ air' \subseteq air
          /\ outbox' = outbox \/ outbox' = Pushed(AckOf(f))
      BY <2>1 DEF Deaf, Replayed, Repeated, ActedOn, Takes, Arrives
    <2>3. /\ outbox' \in Seq(Acks \cup {Report}) /\ Len(outbox') <= OutboxCapacity
      BY <2>2, AckIsPair, PushedIs DEF EnvOK
    <2> QED
      BY <2>2, <2>3 DEF EnvOK, keyVars, senderVars
  <1>4. CASE Tick
    <2>1. /\ UNCHANGED <<keyVars, senderVars, air, answers>> /\ stage' = "transmit"
          /\ outbox' = outbox \/ outbox' = Pushed(Report)
      BY <1>4 DEF Tick
    <2>2. /\ outbox' \in Seq(Acks \cup {Report}) /\ Len(outbox') <= OutboxCapacity
      BY <2>1, PushedIs DEF EnvOK
    <2> QED
      BY <2>1, <2>2 DEF EnvOK, keyVars, senderVars
  <1>5. CASE Transmit
    <2>1. /\ UNCHANGED <<stage, keyVars, senderVars, air>> /\ outbox # <<>>
          /\ outbox' = Tail(outbox) /\ answers' \subseteq answers \cup Acks
      BY <1>5 DEF Transmit
    <2>2. /\ outbox' \in Seq(Acks \cup {Report}) /\ Len(outbox') <= OutboxCapacity
      BY <2>1, OutboxTail
    <2> QED
      BY <2>1, <2>2 DEF EnvOK, keyVars, senderVars
  <1>6. CASE Transmitted
    BY <1>6 DEF Transmitted, EnvOK, keyVars, senderVars
  <1>7. CASE PowerCut
    <2>1. /\ UNCHANGED <<rotation, inUse, senderVars, air, answers>>
          /\ outbox' = <<>> /\ stage' = "receive" /\ held' = FALSE
      BY <1>7 DEF PowerCut
    <2>2. outbox' \in Seq(Acks \cup {Report}) /\ Len(outbox') <= OutboxCapacity
      BY <2>1, Bounds
    <2> QED
      BY <2>1, <2>2 DEF EnvOK, senderVars
  <1> QED
    BY <1>1, <1>2, <1>3, <1>4, <1>5, <1>6, <1>7 DEF Device

LEMMA EveryStepKeepsEnv ==
    ASSUME EnvOK, [Next]_vars
    PROVE  EnvOK'
  <1>1. CASE UNCHANGED vars
    BY <1>1 DEF vars, EnvOK, keyVars, senderVars
  <1> QED
    BY <1>1, SendersKeepEnv, DeviceKeepsEnv DEF Next

(* Whatever happens, each table makes one of its own steps, or none.       *)
LEMMA EveryStepIsTheTables ==
    ASSUME EnvOK, [Next]_vars
    PROVE  [ReplaysNext]_replayVars /\ [DuplicatesNext]_duplicateVars
  <1>1. CASE UNCHANGED vars
    BY <1>1 DEF vars, tableVars
  <1>2. CASE Sender \/ AnnounceSwitch \/ LoseFrame \/ LoseAnswer
    BY <1>2 DEF Sender, Ask, Repeat, Answered, MoveToNextKey, AnnounceSwitch, LoseFrame,
                LoseAnswer, tableVars
  <1>3. CASE Receive
    <2>1. PICK f \in air : Deaf(f) \/ Replayed(f) \/ Repeated(f) \/ ActedOn(f)
      BY <1>3 DEF Receive
    <2>2. f.source \in Sources /\ f.counter \in Counters /\ AckOf(f) \in Pairs
      BY AckIsPair
    <2>3. UNCHANGED replayVars \/ ReplaySeen(f.source, f.counter)
      BY <2>1 DEF Deaf, Replayed, Repeated, ActedOn, Takes, tableVars
    <2>4. UNCHANGED duplicateVars \/ DuplicateSeen(AckOf(f))
      BY <2>1 DEF Deaf, Replayed, Repeated, ActedOn, DuplicateSeen, tableVars
    <2> QED
      BY <2>2, <2>3, <2>4 DEF ReplaysNext, DuplicatesNext
  <1>4. CASE HoldKey \/ Tick \/ Transmit \/ Transmitted
    BY <1>4 DEF HoldKey, Tick, Transmit, Transmitted, tableVars
  <1>5. CASE SwitchKey
    BY <1>5 DEF SwitchKey, ReplaysNext
  <1>6. CASE PowerCut
    BY <1>6 DEF PowerCut, ReplaysNext, DuplicatesNext
  <1> QED
    BY <1>1, <1>2, <1>3, <1>4, <1>5, <1>6 DEF Next, Device

-----------------------------------------------------------------------------
(* What the tables promise holds in delivery                               *)

(* In delivery the tables run as specified on their own.                   *)
THEOREM TablesRunAsSpecified == Spec => ReplaysSpec /\ DuplicatesSpec
  <1>1. Init => ReplaysInit /\ DuplicatesInit
    BY DEF Init
  <1> QED
    BY <1>1, StartsWell, EveryStepKeepsEnv, EveryStepIsTheTables, PTL
       DEF Spec, ReplaysSpec, DuplicatesSpec

(* Senders, queue, answers and tables keep their types, and the queue its  *)
(* bound, through every loss, copy, key switch and restart.                *)
THEOREM DeliveryInRange == Spec => []TypeOK
  <1>1. Spec => []DuplicatesTypeOK
    <2>1. DuplicatesInv => DuplicatesTypeOK
      BY DEF DuplicatesInv
    <2>2. DuplicatesSpec => []DuplicatesInv
      BY NoDuplicatesYet, EveryDuplicatesStep, PTL DEF DuplicatesSpec
    <2> QED
      BY <2>1, <2>2, TablesRunAsSpecified, PTL
  <1>2. Spec => []EnvOK
    BY StartsWell, EveryStepKeepsEnv, PTL DEF Spec
  <1>3. EnvOK /\ ReplaysTypeOK /\ DuplicatesTypeOK => TypeOK
    <2> SUFFICES ASSUME EnvOK
                 PROVE  /\ \A s \in Sources : asked[s] \in 0..Requests[s]
                        /\ \A s \in Sources : nwk[s].key \in Keys /\ nwk[s].counter \in Counters
      BY DEF EnvOK, TypeOK
    <2>1. \A s \in Sources : asked[s] \in 0..Requests[s]
      <3>1. asked \in [Sources -> Nat] /\ \A s \in Sources : asked[s] <= Requests[s]
        BY DEF EnvOK
      <3> QED
        BY <3>1, Bounds
    <2>2. \A s \in Sources : nwk[s] \in [key : Keys, counter : 0..CounterBound]
      BY DEF EnvOK
    <2> QED
      BY <2>1, <2>2, DeliveryAssumption
  <1> QED
    BY <1>1, <1>2, <1>3, TypeCorrect, TablesRunAsSpecified, PTL

(* Among all of this no sender is lost from the replay table early.        *)
THEOREM NoEarlyLossInDelivery == Spec => []NothingLostEarly
  BY NoEarlyLoss, TablesRunAsSpecified, PTL

(* With no more senders than slots the device refuses exactly the frames   *)
(* that do not exceed what it took since the last restart or key switch.   *)
THEOREM GuardInDelivery ==
    ASSUME IsFiniteSet(Sources), Cardinality(Sources) <= Size
    PROVE  Spec => ImplementsGuard
  BY PerfectGuard, TablesRunAsSpecified, PTL

(* The duplicate table stays the exact window of what was acted on.        *)
THEOREM WindowInDelivery == Spec => ImplementsWindow
  BY ExactWindow, TablesRunAsSpecified, PTL
-----------------------------------------------------------------------------
(* The requests behind the counters                                        *)

(* Which application counter each request of each sender carries.          *)
Numberings == [RequestNames -> 0..(Modulus - 1)]

Asked == {v \in RequestNames : v[2] \in 1..asked[v[1]]}

(* The pair a request is known by.                                         *)
Name(g, v) == [source |-> v[1], counter |-> g[v]]

(* The window w is the end of what was acted on, by the names under g.     *)
Trails(w, a, g) ==
    /\ w \in Seq(Pairs)
    /\ Len(w) = IF Len(a) < DuplicateSize THEN Len(a) ELSE DuplicateSize
    /\ \A k \in 1..Len(w) : w[k] = Name(g, a[(Len(a) - Len(w)) + k])

(* The requests acted on, none within a window of itself.                  *)
Spaced(a) ==
    \A i, j \in 1..Len(a) : i < j /\ a[i] = a[j] => j - i > DuplicateSize

(* One more request acted on moves the window by one.                      *)
LEMMA TrailsOn ==
    ASSUME NEW w, NEW a \in Seq(RequestNames), NEW g, Trails(w, a, g),
           NEW v \in RequestNames, Name(g, v) \in Pairs
    PROVE  Trails(Append(IF Len(w) = DuplicateSize THEN Tail(w) ELSE w, Name(g, v)),
                  Append(a, v), g)
  <1> DEFINE t == IF Len(w) = DuplicateSize THEN Tail(w) ELSE w
             d == IF Len(w) = DuplicateSize THEN 1 ELSE 0
             x == Append(t, Name(g, v))
             b == Append(a, v)
  <1>1. /\ DuplicateSize \in Nat /\ DuplicateSize >= 1
        /\ w \in Seq(Pairs) /\ Len(w) \in Nat /\ Len(a) \in Nat
        /\ Len(w) = IF Len(a) < DuplicateSize THEN Len(a) ELSE DuplicateSize
        /\ \A k \in 1..Len(w) : w[k] = Name(g, a[(Len(a) - Len(w)) + k])
    <2>1. /\ w \in Seq(Pairs)
          /\ Len(w) = IF Len(a) < DuplicateSize THEN Len(a) ELSE DuplicateSize
          /\ \A k \in 1..Len(w) : w[k] = Name(g, a[(Len(a) - Len(w)) + k])
      BY DEF Trails
    <2>2. DuplicateSize \in Nat /\ DuplicateSize >= 1
      BY DuplicatesAssumption
    <2>3. Len(w) \in Nat /\ Len(a) \in Nat
      BY <2>1
    <2> QED
      BY <2>1, <2>2, <2>3
  <1>2. /\ b \in Seq(RequestNames) /\ Len(b) = Len(a) + 1 /\ b[Len(a) + 1] = v
        /\ \A i \in 1..Len(a) : b[i] = a[i]
    BY AppendProperties
  <1>3. /\ t \in Seq(Pairs) /\ Len(t) = Len(w) - d
        /\ \A i \in 1..Len(t) : i + d \in 1..Len(w) /\ t[i] = w[i + d]
    <2>1. CASE Len(w) = DuplicateSize
      <3>1. w # <<>>
        BY <1>1, <2>1
      <3>2. /\ Tail(w) \in Seq(Pairs) /\ Len(Tail(w)) = Len(w) - 1
            /\ \A i \in 1..Len(Tail(w)) : Tail(w)[i] = w[i + 1]
        BY <1>1, <3>1, HeadTailProperties
      <3> QED
        BY <1>1, <2>1, <3>2
    <2>2. CASE Len(w) # DuplicateSize
      BY <1>1, <2>2
    <2> QED
      BY <2>1, <2>2
  <1>4. d \in {0, 1} /\ (d = 1 <=> Len(w) = DuplicateSize)
    OBVIOUS
  <1> HIDE DEF t, d
  <1>5. /\ x \in Seq(Pairs) /\ Len(x) = Len(t) + 1 /\ x[Len(t) + 1] = Name(g, v)
        /\ \A i \in 1..Len(t) : x[i] = t[i]
    BY <1>3, AppendProperties
  <1> HIDE DEF x, b
  <1>6. Len(x) = IF Len(b) < DuplicateSize THEN Len(b) ELSE DuplicateSize
    BY <1>1, <1>2, <1>3, <1>4, <1>5
  <1>7. ASSUME NEW k \in 1..Len(x)
        PROVE  x[k] = Name(g, b[(Len(b) - Len(x)) + k])
    <2>1. Len(t) \in Nat /\ Len(x) = Len(t) + 1
      BY <1>3, <1>5
    <2>2. CASE k = Len(t) + 1
      <3>1. (Len(b) - Len(x)) + k = Len(a) + 1
        BY <1>1, <1>2, <2>1, <2>2
      <3> QED
        BY <1>2, <1>5, <2>2, <3>1
    <2>3. CASE k # Len(t) + 1
      <3>1. k \in 1..Len(t)
        BY <2>1, <2>3
      <3>2. k + d \in 1..Len(w) /\ x[k] = w[k + d]
        BY <1>3, <1>5, <3>1
      <3>3. x[k] = Name(g, a[(Len(a) - Len(w)) + (k + d)])
        BY <1>1, <3>2
      <3>4. (Len(a) - Len(w)) + (k + d) = (Len(b) - Len(x)) + k
        BY <1>1, <1>2, <1>3, <1>4, <1>5
      <3>5. (Len(a) - Len(w)) + (k + d) \in 1..Len(a)
        BY <1>1, <3>2
      <3> QED
        BY <1>2, <3>3, <3>4, <3>5
    <2> QED
      BY <2>2, <2>3
  <1> QED
    BY <1>5, <1>6, <1>7 DEF Trails, x, b, t

(* What the window does not remember is far from its last time.            *)
LEMMA SpacedOn ==
    ASSUME NEW w, NEW a \in Seq(RequestNames), NEW g, Trails(w, a, g), Spaced(a),
           NEW v \in RequestNames, \A k \in 1..Len(w) : w[k] # Name(g, v)
    PROVE  Spaced(Append(a, v))
  <1> DEFINE b == Append(a, v)
  <1>1. /\ DuplicateSize \in Nat /\ DuplicateSize >= 1 /\ Len(w) \in Nat /\ Len(a) \in Nat
        /\ Len(w) = IF Len(a) < DuplicateSize THEN Len(a) ELSE DuplicateSize
        /\ \A k \in 1..Len(w) : w[k] = Name(g, a[(Len(a) - Len(w)) + k])
    <2>1. /\ w \in Seq(Pairs)
          /\ Len(w) = IF Len(a) < DuplicateSize THEN Len(a) ELSE DuplicateSize
          /\ \A k \in 1..Len(w) : w[k] = Name(g, a[(Len(a) - Len(w)) + k])
      BY DEF Trails
    <2>2. DuplicateSize \in Nat /\ DuplicateSize >= 1
      BY DuplicatesAssumption
    <2>3. Len(w) \in Nat /\ Len(a) \in Nat
      BY <2>1
    <2> QED
      BY <2>1, <2>2, <2>3
  <1>2. /\ Len(b) = Len(a) + 1 /\ b[Len(a) + 1] = v
        /\ \A i \in 1..Len(a) : b[i] = a[i]
    BY AppendProperties
  <1> HIDE DEF b
  <1>3. SUFFICES ASSUME NEW i \in 1..Len(b), NEW j \in 1..Len(b), i < j, b[i] = b[j]
                 PROVE  j - i > DuplicateSize
    BY DEF Spaced, b
  <1>4. CASE j \in 1..Len(a)
    <2>1. i \in 1..Len(a)
      BY <1>1, <1>3, <1>4
    <2>2. a[i] = a[j]
      BY <1>2, <1>3, <1>4, <2>1
    <2> QED
      BY <1>1, <1>3, <1>4, <2>1, <2>2 DEF Spaced
  <1>5. CASE j = Len(a) + 1
    <2> DEFINE k == i - (Len(a) - Len(w))
    <2>1. i \in 1..Len(a) /\ b[i] = a[i] /\ a[i] = v
      BY <1>1, <1>2, <1>3, <1>5
    <2>2. j - i = Len(a) + 1 - i /\ k = i - Len(a) + Len(w) /\ k \in Int
      BY <1>1, <1>5, <2>1
    <2>3. (Len(a) - Len(w)) + k = i
      BY <1>1, <2>1
    <2>4. k <= Len(w)
      BY <1>1, <2>1, <2>2
    <2>5. k < 1
      <3>1. k >= 1 => k \in 1..Len(w)
        BY <1>1, <2>2, <2>4
      <3>2. k \in 1..Len(w) => w[k] = Name(g, v)
        BY <1>1, <2>1, <2>3
      <3> QED
        BY <2>2, <3>1, <3>2
    <2>6. Len(w) = DuplicateSize
      BY <1>1, <2>1, <2>2, <2>5
    <2> QED
      BY <1>1, <2>1, <2>2, <2>5, <2>6
  <1> QED
    BY <1>1, <1>2, <1>4, <1>5

-----------------------------------------------------------------------------
(* What was asked, acted on, remembered and answered go together           *)

(* An answer of a request that was acted on.                               *)
Honest(ack, g) == \E v \in done : ack = Name(g, v)

Consistent(g) ==
    /\ g \in Numberings
    /\ \A s \in Sources : aps[s] = g[<<s, asked[s]>>]
    /\ \A f \in air : f.aps = g[<<f.source, f.request>>]
    /\ acts \in Seq(Asked)
    /\ Trails(Remembered, acts, g)
    /\ Spaced(acts)
    /\ done \subseteq Asked
    /\ \A i \in 1..Len(acts) : acts[i] \in done
    /\ \A ack \in answers : Honest(ack, g)
    /\ \A i \in 1..Len(outbox) : outbox[i] # Report => Honest(outbox[i], g)

BookInv == EnvOK /\ DuplicatesInv

LEMMA StartsConsistent ==
    ASSUME Init
    PROVE  BookInv /\ \E g : Consistent(g)
  <1> DEFINE g == [v \in RequestNames |-> 0]
  <1>1. EnvOK /\ DuplicatesInv /\ Recent!Init
    BY StartsWell, NoDuplicatesYet DEF Init
  <1>2. g \in Numberings
    BY Bounds DEF Numberings
  <1>3. /\ acts = <<>> /\ done = {} /\ answers = {} /\ air = {} /\ outbox = <<>>
        /\ Len(acts) = 0 /\ Len(outbox) = 0
    BY DEF Init
  <1>4. \A s \in Sources : aps[s] = g[<<s, asked[s]>>]
    BY DEF Init, RequestNames
  <1>5. Trails(Remembered, acts, g)
    <2>1. Remembered = <<>> /\ Len(Remembered) = 0
      BY <1>1 DEF Recent!Init
    <2> QED
      BY <1>3, <2>1, DuplicatesAssumption DEF Trails
  <1>6. Spaced(acts)
    BY <1>3 DEF Spaced
  <1> HIDE DEF g
  <1>7. Consistent(g)
    BY <1>2, <1>3, <1>4, <1>5, <1>6 DEF Consistent
  <1> QED
    BY <1>1, <1>7 DEF BookInv
(* A step that asks and does nothing new keeps the same numbering.         *)
LEMMA ConsistentStays ==
    ASSUME NEW g, Consistent(g), asked' = asked, aps' = aps,
           \A f \in air' : f \in air \/ f.aps = g[<<f.source, f.request>>],
           acts' = acts, done' = done, Remembered' = Remembered,
           \A ack \in answers' : Honest(ack, g),
           \A i \in 1..Len(outbox') : outbox'[i] # Report => Honest(outbox'[i], g)
    PROVE  Consistent(g)'
  <1>1. Asked' = Asked /\ \A ack : Honest(ack, g)' <=> Honest(ack, g)
    BY DEF Asked, Honest
  <1> QED
    BY <1>1 DEF Consistent

(* An answer queued.                                                       *)
LEMMA PushedIsHonest ==
    ASSUME EnvOK, NEW g, Consistent(g), NEW v \in Acks \cup {Report},
           v # Report => Honest(v, g)
    PROVE  \A i \in 1..Len(Pushed(v)) : Pushed(v)[i] # Report => Honest(Pushed(v)[i], g)
  <1>1. \A i \in 1..Len(Pushed(v)) :
           Pushed(v)[i] = v \/ \E j \in 1..Len(outbox) : Pushed(v)[i] = outbox[j]
    BY PushedIs
  <1>2. \A j \in 1..Len(outbox) : outbox[j] # Report => Honest(outbox[j], g)
    BY DEF Consistent
  <1> QED
    BY <1>1, <1>2

(* A new request has a number no frame, answer or act refers to yet.       *)
LEMMA AskingStaysConsistent ==
    ASSUME EnvOK, NEW g, Consistent(g), NEW s \in Sources, Ask(s)
    PROVE  \E h : /\ Consistent(h)'
                  /\ \A t \in Sources : \A r \in 0..asked[t] : h[<<t, r>>] = g[<<t, r>>]
  <1> DEFINE v == <<s, asked[s] + 1>>
  <1>0. PICK h : h = [g EXCEPT ![v] = aps'[s]]
    OBVIOUS
  <1>1. /\ EnvOK' /\ asked' = [asked EXCEPT ![s] = @ + 1]
        /\ air' = air \cup {Frame(s)'}
        /\ UNCHANGED <<stage, outbox, keyVars, answers, historyVars, troubles, tableVars>>
        /\ \A t \in Sources : t # s => aps'[t] = aps[t]
    <2>1. Sender
      BY DEF Sender
    <2>2. EnvOK'
      BY <2>1, SendersKeepEnv
    <2> QED
      BY <2>2 DEF Ask, EnvOK
  <1>2. /\ asked \in [Sources -> Nat] /\ asked' \in [Sources -> Nat]
        /\ \A t \in Sources : asked'[t] = IF t = s THEN asked[s] + 1 ELSE asked[t]
        /\ aps' \in [Sources -> 0..(Modulus - 1)]
        /\ \A f \in air : f.source \in Sources /\ f.request \in 1..asked[f.source]
    BY <1>1 DEF EnvOK, AirFrame
  <1>3. v \in RequestNames /\ g \in Numberings
    BY <1>2 DEF RequestNames, Consistent
  <1>4. /\ h \in Numberings /\ h[v] = aps'[s]
        /\ \A w \in RequestNames : w # v => h[w] = g[w]
    BY <1>0, <1>2, <1>3 DEF Numberings
  <1>5. \A t \in Sources : \A r \in 0..asked[t] :
           <<t, r>> \in RequestNames /\ <<t, r>> # v /\ h[<<t, r>>] = g[<<t, r>>]
    <2>1. \A t \in Sources : \A r \in 0..asked[t] : <<t, r>> \in RequestNames
      BY <1>2 DEF RequestNames
    <2>2. \A t \in Sources : \A r \in 0..asked[t] : t = s => r # asked[s] + 1
      BY <1>2
    <2> QED
      BY <1>4, <2>1, <2>2
  <1>6. \A w \in Asked : w # v /\ h[w] = g[w] /\ w \in RequestNames /\ Name(h, w) = Name(g, w)
    <2>1. \A w \in Asked : w \in RequestNames /\ w[2] \in 1..asked[w[1]] /\ w[1] \in Sources
      BY DEF Asked, RequestNames
    <2>2. v[1] = s /\ v[2] = asked[s] + 1
      OBVIOUS
    <2>3. \A w \in Asked : w # v
      BY <1>2, <2>1, <2>2
    <2> QED
      BY <1>4, <2>1, <2>3 DEF Name
  <1>7. Asked \subseteq Asked'
    <2> SUFFICES ASSUME NEW w \in Asked
                 PROVE  w[2] \in 1..asked'[w[1]] /\ w \in RequestNames
      BY DEF Asked
    <2>1. w \in RequestNames /\ w[2] \in 1..asked[w[1]] /\ w[1] \in Sources
      BY DEF Asked, RequestNames
    <2> QED
      BY <1>2, <2>1
  <1>8. \A t \in Sources : aps'[t] = h[<<t, asked'[t]>>]
    <2> SUFFICES ASSUME NEW t \in Sources
                 PROVE  aps'[t] = h[<<t, asked'[t]>>]
      OBVIOUS
    <2>1. CASE t = s
      BY <1>2, <1>4, <2>1
    <2>2. CASE t # s
      <3>1. asked[t] \in 0..asked[t] /\ asked'[t] = asked[t] /\ aps'[t] = aps[t]
        BY <1>1, <1>2, <2>2
      <3> QED
        BY <1>5, <3>1 DEF Consistent
    <2> QED
      BY <2>1, <2>2
  <1>9. \A f \in air' : f.aps = h[<<f.source, f.request>>]
    <2>1. \A f \in air : f.aps = h[<<f.source, f.request>>]
      <3>1. \A f \in air : f.request \in 0..asked[f.source]
        BY <1>2
      <3>2. \A f \in air : f.aps = g[<<f.source, f.request>>]
        BY DEF Consistent
      <3> QED
        BY <1>2, <1>5, <3>1, <3>2
    <2>2. Frame(s)'.aps = aps'[s] /\ Frame(s)'.source = s /\ Frame(s)'.request = asked[s] + 1
      BY <1>2 DEF Frame
    <2> QED
      BY <1>1, <1>4, <2>1, <2>2
  <1>10. /\ acts' = acts /\ done' = done /\ answers' = answers /\ outbox' = outbox
         /\ Remembered' = Remembered
    BY <1>1 DEF historyVars, tableVars, duplicateVars, Remembered
  <1>11. acts \in Seq(Asked') /\ \A i \in 1..Len(acts) : acts[i] \in Asked
    BY <1>7 DEF Consistent
  <1>12. Trails(Remembered, acts, h)
    <2>1. Trails(Remembered, acts, g)
      BY DEF Consistent
    <2>2. \A k \in 1..Len(Remembered) : (Len(acts) - Len(Remembered)) + k \in 1..Len(acts)
      <3>1. /\ Remembered \in Seq(Pairs) /\ acts \in Seq(Asked)
            /\ Len(Remembered) = IF Len(acts) < DuplicateSize THEN Len(acts) ELSE DuplicateSize
        BY <2>1 DEF Trails, Consistent
      <3>2. Len(acts) \in Nat /\ DuplicateSize \in Nat
        BY <3>1, DuplicatesAssumption
      <3> QED
        BY <3>1, <3>2
    <2> QED
      BY <1>6, <1>11, <2>1, <2>2 DEF Trails
  <1>13. \A ack : Honest(ack, g) => Honest(ack, h)'
    <2>1. done \subseteq Asked
      BY DEF Consistent
    <2> QED
      BY <1>6, <1>10, <2>1 DEF Honest
  <1>14. Consistent(h)'
    <2>1. /\ Spaced(acts) /\ done \subseteq Asked'
          /\ \A i \in 1..Len(acts) : acts[i] \in done
          /\ \A ack \in answers : Honest(ack, g)
          /\ \A i \in 1..Len(outbox) : outbox[i] # Report => Honest(outbox[i], g)
      BY <1>7 DEF Consistent
    <2>2. /\ \A ack \in answers' : Honest(ack, h)'
          /\ (\A i \in 1..Len(outbox) : outbox[i] # Report => Honest(outbox[i], h))'
      BY <1>10, <1>13, <2>1
    <2>3. Trails(Remembered, acts, h)' /\ Spaced(acts)' /\ (acts \in Seq(Asked))'
      BY <1>10, <1>11, <1>12, <2>1
    <2>4. (\A i \in 1..Len(acts) : acts[i] \in done)' /\ (done \subseteq Asked)'
      BY <1>10, <2>1
    <2> QED
      BY <1>4, <1>8, <1>9, <2>2, <2>3, <2>4 DEF Consistent
  <1> QED
    BY <1>5, <1>14

(* The other steps of the senders and of the air.                          *)
LEMMA SendersStayConsistent ==
    ASSUME EnvOK, NEW g, Consistent(g),
           \/ \E s \in Sources : Repeat(s) \/ Answered(s) \/ MoveToNextKey(s)
           \/ AnnounceSwitch \/ LoseFrame \/ LoseAnswer
    PROVE  Consistent(g)'
  <1>1. /\ asked' = asked /\ aps' = aps /\ outbox' = outbox /\ answers' \subseteq answers
        /\ UNCHANGED <<historyVars, tableVars>>
    BY DEF Repeat, Answered, MoveToNextKey, AnnounceSwitch, LoseFrame, LoseAnswer, senderVars
  <1>2. acts' = acts /\ done' = done /\ Remembered' = Remembered
    BY <1>1 DEF historyVars, tableVars, duplicateVars, Remembered
  <1>3. \A f \in air' : f \in air \/ f.aps = g[<<f.source, f.request>>]
    <2>1. ASSUME NEW s \in Sources, Repeat(s)
          PROVE  \A f \in air' : f \in air \/ f.aps = g[<<f.source, f.request>>]
      <3>1. air' = air \cup {[Frame(s) EXCEPT !.counter = @ + 1]}
        BY <2>1 DEF Repeat
      <3>2. /\ [Frame(s) EXCEPT !.counter = @ + 1].aps = aps[s]
            /\ [Frame(s) EXCEPT !.counter = @ + 1].source = s
            /\ [Frame(s) EXCEPT !.counter = @ + 1].request = asked[s]
        BY DEF Frame
      <3> QED
        BY <3>1, <3>2 DEF Consistent
    <2>2. CASE ~\E s \in Sources : Repeat(s)
      BY <2>2 DEF Answered, MoveToNextKey, AnnounceSwitch, LoseFrame, LoseAnswer
    <2> QED
      BY <2>1, <2>2
  <1>4. /\ \A ack \in answers' : Honest(ack, g)
        /\ \A i \in 1..Len(outbox') : outbox'[i] # Report => Honest(outbox'[i], g)
    BY <1>1 DEF Consistent
  <1> QED
    BY <1>1, <1>2, <1>3, <1>4, ConsistentStays

(* A request acted on is one the window did not remember.                  *)
LEMMA ActingStaysConsistent ==
    ASSUME BookInv, NEW g, Consistent(g), NEW f \in air, ActedOn(f)
    PROVE  Consistent(g)'
  <1> DEFINE v == <<f.source, f.request>>
  <1>1. /\ asked' = asked /\ aps' = aps /\ answers' = answers /\ air' \subseteq air
        /\ outbox' = Pushed(AckOf(f)) /\ SeenFirst(AckOf(f))
        /\ acts' = Append(acts, v) /\ done' = done \cup {v}
    BY DEF ActedOn, Takes, Arrives, senderVars
  <1>2. /\ AckOf(f) \in Acks /\ AckOf(f) \in Pairs /\ v \in Asked /\ v \in RequestNames
    BY AckIsPair DEF BookInv, Asked
  <1>3. AckOf(f) = Name(g, v)
    BY DEF AckOf, Name, Consistent
  <1>4. Recent!Fresh(AckOf(f))
    BY <1>1, <1>2, FirstIsFresh DEF BookInv
  <1>5. /\ acts \in Seq(Asked) /\ acts \in Seq(RequestNames)
        /\ Trails(Remembered, acts, g) /\ Spaced(acts)
    BY DEF Consistent, Asked
  <1>6. Remembered' = Append(IF Len(Remembered) = DuplicateSize THEN Tail(Remembered)
                             ELSE Remembered, Name(g, v))
    BY <1>3, <1>4 DEF Recent!Fresh
  <1> HIDE DEF v
  <1>7. Trails(Remembered', acts', g)
    BY <1>1, <1>2, <1>3, <1>5, <1>6, TrailsOn
  <1>8. Spaced(acts')
    <2>1. Remembered \in Seq(Pairs)
      BY <1>5 DEF Trails
    <2>2. \A k \in 1..Len(Remembered) : Remembered[k] # Name(g, v)
      BY <1>3, <1>4, <2>1 DEF Recent!Fresh, Recent!Remembered
    <2> QED
      BY <1>1, <1>2, <1>5, <2>2, SpacedOn
  <1>9. /\ acts' \in Seq(Asked) /\ Len(acts') = Len(acts) + 1 /\ Len(acts) \in Nat
        /\ acts'[Len(acts) + 1] = v /\ \A i \in 1..Len(acts) : acts'[i] = acts[i]
    BY <1>1, <1>2, <1>5, AppendProperties
  <1>10. \A i \in 1..Len(acts') : acts'[i] \in done'
    <2>1. \A i \in 1..Len(acts') : i \in 1..Len(acts) \/ i = Len(acts) + 1
      BY <1>9
    <2> QED
      BY <1>1, <1>9, <2>1 DEF Consistent
  <1>11. Asked' = Asked /\ \A ack : Honest(ack, g) \/ ack = AckOf(f) => Honest(ack, g)'
    BY <1>1, <1>3 DEF Asked, Honest
  <1>12. (\A i \in 1..Len(outbox) : outbox[i] # Report => Honest(outbox[i], g))'
    <2>1. \A i \in 1..Len(Pushed(AckOf(f))) : Pushed(AckOf(f))[i] = AckOf(f)
             \/ \E j \in 1..Len(outbox) : Pushed(AckOf(f))[i] = outbox[j]
      BY <1>2, PushedIs DEF BookInv
    <2>2. \A j \in 1..Len(outbox) : outbox[j] # Report => Honest(outbox[j], g)
      BY DEF Consistent
    <2> QED
      BY <1>1, <1>11, <2>1, <2>2
  <1>13. \A ack \in answers' : Honest(ack, g)'
    BY <1>1, <1>11 DEF Consistent
  <1>14. \A x \in air' : x.aps = g[<<x.source, x.request>>]
    BY <1>1 DEF Consistent
  <1>15. done' \subseteq Asked'
    BY <1>1, <1>2, <1>11 DEF Consistent
  <1>16. g \in Numberings /\ \A s \in Sources : aps'[s] = g[<<s, asked'[s]>>]
    BY <1>1 DEF Consistent
  <1>17. acts' \in Seq(Asked')
    BY <1>9, <1>11
  <1> QED
    BY <1>7, <1>8, <1>10, <1>12, <1>13, <1>14, <1>15, <1>16, <1>17 DEF Consistent

(* A repeat is acknowledged as what was acted on before.                   *)
LEMMA RepeatingStaysConsistent ==
    ASSUME BookInv, NEW g, Consistent(g), NEW f \in air, Repeated(f)
    PROVE  Consistent(g)'
  <1>1. /\ asked' = asked /\ aps' = aps /\ answers' = answers /\ air' \subseteq air
        /\ outbox' = Pushed(AckOf(f)) /\ SeenBefore(AckOf(f))
        /\ acts' = acts /\ done' = done
    BY DEF Repeated, Takes, Arrives, senderVars
  <1>2. AckOf(f) \in Acks /\ AckOf(f) \in Pairs
    BY AckIsPair DEF BookInv
  <1>3. Recent!Repeat(AckOf(f))
    BY <1>1, <1>2, BeforeIsRepeat DEF BookInv
  <1>4. Honest(AckOf(f), g)
    <2>1. /\ Remembered \in Seq(Pairs) /\ acts \in Seq(Asked)
          /\ Len(Remembered) = IF Len(acts) < DuplicateSize THEN Len(acts) ELSE DuplicateSize
          /\ \A k \in 1..Len(Remembered) :
                Remembered[k] = Name(g, acts[(Len(acts) - Len(Remembered)) + k])
      BY DEF Consistent, Trails
    <2>2. PICK k \in 1..Len(Remembered) : Remembered[k] = AckOf(f)
      BY <1>3, <2>1 DEF Recent!Repeat, Recent!Remembered
    <2>3. (Len(acts) - Len(Remembered)) + k \in 1..Len(acts)
      <3>1. Len(acts) \in Nat /\ DuplicateSize \in Nat
        BY <2>1, DuplicatesAssumption
      <3> QED
        BY <2>1, <3>1
    <2>4. acts[(Len(acts) - Len(Remembered)) + k] \in done
      BY <2>3 DEF Consistent
    <2> QED
      BY <2>1, <2>2, <2>4 DEF Honest
  <1>5. \A i \in 1..Len(outbox') : outbox'[i] # Report => Honest(outbox'[i], g)
    BY <1>1, <1>2, <1>4, PushedIsHonest DEF BookInv
  <1>6. \A ack \in answers' : Honest(ack, g)
    BY <1>1 DEF Consistent
  <1>7. Remembered' = Remembered
    BY <1>3 DEF Recent!Repeat
  <1>8. \A x \in air' : x \in air
    BY <1>1
  <1> QED
    BY <1>1, <1>5, <1>6, <1>7, <1>8, ConsistentStays
(* What is transmitted becomes an answer on its way.                       *)
LEMMA TransmittingStaysConsistent ==
    ASSUME BookInv, NEW g, Consistent(g), Transmit
    PROVE  Consistent(g)'
  <1>1. /\ asked' = asked /\ aps' = aps /\ air' = air /\ outbox # <<>>
        /\ outbox' = Tail(outbox)
        /\ acts' = acts /\ done' = done /\ Remembered' = Remembered
        /\ answers' = answers \cup ({Head(outbox)} \cap Acks) \/ answers' = answers
    BY DEF Transmit, senderVars, historyVars, duplicateVars, Remembered
  <1>2. /\ Head(outbox) = outbox[1] /\ 1 \in 1..Len(outbox)
        /\ \A i \in 1..Len(Tail(outbox)) :
              i + 1 \in 1..Len(outbox) /\ Tail(outbox)[i] = outbox[i + 1]
    BY <1>1, OutboxTail DEF BookInv
  <1>3. /\ \A i \in 1..Len(outbox) : outbox[i] # Report => Honest(outbox[i], g)
        /\ \A ack \in answers : Honest(ack, g)
    BY DEF Consistent
  <1>4. \A ack \in answers' : Honest(ack, g)
    BY <1>1, <1>2, <1>3, DeliveryAssumption
  <1>5. \A i \in 1..Len(outbox') : outbox'[i] # Report => Honest(outbox'[i], g)
    BY <1>1, <1>2, <1>3
  <1> QED
    BY <1>1, <1>4, <1>5, ConsistentStays

(* A restart forgets what was remembered and what it acted on, together.   *)
LEMMA RestartingStaysConsistent ==
    ASSUME BookInv, NEW g, Consistent(g), PowerCut
    PROVE  Consistent(g)'
  <1>1. /\ asked' = asked /\ aps' = aps /\ air' = air /\ answers' = answers
        /\ done' = done /\ acts' = <<>> /\ outbox' = <<>> /\ ForgetFrames
    BY DEF PowerCut, senderVars
  <1>2. Remembered' = <<>>
    BY <1>1, ForgettingClears DEF BookInv, Recent!Clear
  <1>3. Asked' = Asked /\ \A ack : Honest(ack, g)' <=> Honest(ack, g)
    BY <1>1 DEF Asked, Honest
  <1>4. Len(acts') = 0 /\ Len(outbox') = 0 /\ Len(Remembered') = 0
    BY <1>1, <1>2
  <1>5. Trails(Remembered, acts, g)' /\ Spaced(acts)' /\ (acts \in Seq(Asked))'
    <2>1. acts' \in Seq(Asked') /\ Remembered' \in Seq(Pairs)
      BY <1>1, <1>2
    <2> QED
      BY <1>4, <2>1, DuplicatesAssumption DEF Trails, Spaced
  <1>6. /\ \A s \in Sources : aps[s] = g[<<s, asked[s]>>]
        /\ \A f \in air : f.aps = g[<<f.source, f.request>>]
        /\ g \in Numberings /\ done \subseteq Asked
        /\ \A ack \in answers : Honest(ack, g)
    BY DEF Consistent
  <1>7. /\ \A i \in 1..Len(acts') : acts'[i] \in done'
        /\ (\A i \in 1..Len(outbox) : outbox[i] # Report => Honest(outbox[i], g))'
    BY <1>4
  <1> QED
    BY <1>1, <1>3, <1>5, <1>6, <1>7 DEF Consistent

(* What the device does keeps every numbering of the requests.             *)
LEMMA DeviceStaysConsistent ==
    ASSUME BookInv, NEW g, Consistent(g), Device \/ PowerCut \/ UNCHANGED vars
    PROVE  Consistent(g)'
  <1>0. /\ \A f \in air : f.aps = g[<<f.source, f.request>>]
        /\ \A ack \in answers : Honest(ack, g)
        /\ \A i \in 1..Len(outbox) : outbox[i] # Report => Honest(outbox[i], g)
    BY DEF Consistent
  <1>1. CASE Receive
    <2>1. PICK f \in air : Deaf(f) \/ Replayed(f) \/ Repeated(f) \/ ActedOn(f)
      BY <1>1 DEF Receive
    <2>2. CASE Deaf(f) \/ Replayed(f)
      <3>1. /\ asked' = asked /\ aps' = aps /\ air' \subseteq air /\ outbox' = outbox
            /\ answers' = answers /\ acts' = acts /\ done' = done
            /\ Remembered' = Remembered
        BY <2>2 DEF Deaf, Replayed, Arrives, senderVars, historyVars, tableVars,
                    duplicateVars, Remembered
      <3> QED
        BY <1>0, <3>1, ConsistentStays
    <2> QED
      BY <2>1, <2>2, RepeatingStaysConsistent, ActingStaysConsistent
  <1>2. CASE HoldKey \/ SwitchKey \/ Transmitted \/ UNCHANGED vars
    <2>1. /\ asked' = asked /\ aps' = aps /\ air' = air /\ outbox' = outbox
          /\ answers' = answers /\ acts' = acts /\ done' = done
          /\ Remembered' = Remembered
      BY <1>2 DEF HoldKey, SwitchKey, Transmitted, vars, senderVars, historyVars, tableVars,
                  duplicateVars, Remembered, keyVars
    <2> QED
      BY <1>0, <2>1, ConsistentStays
  <1>3. CASE Tick
    <2>1. /\ asked' = asked /\ aps' = aps /\ air' = air /\ answers' = answers
          /\ acts' = acts /\ done' = done /\ Remembered' = Remembered
          /\ outbox' = outbox \/ outbox' = Pushed(Report)
      BY <1>3 DEF Tick, senderVars, historyVars, tableVars, duplicateVars, Remembered
    <2>2. \A i \in 1..Len(outbox') : outbox'[i] # Report => Honest(outbox'[i], g)
      BY <1>0, <2>1, PushedIsHonest DEF BookInv
    <2> QED
      BY <1>0, <2>1, <2>2, ConsistentStays
  <1> QED
    BY <1>1, <1>2, <1>3, TransmittingStaysConsistent, RestartingStaysConsistent DEF Device

(* Every step keeps a numbering of the requests, or adds the latest to it. *)
LEMMA EveryStepStaysConsistent ==
    ASSUME BookInv, NEW g, Consistent(g), [Next]_vars
    PROVE  /\ BookInv'
           /\ \E h : Consistent(h)'
  <1>1. BookInv'
    BY EveryStepKeepsEnv, EveryStepIsTheTables, EveryDuplicatesStep DEF BookInv
  <1> SUFFICES \E h : Consistent(h)'
    BY <1>1
  <1>2. CASE Sender \/ AnnounceSwitch \/ LoseFrame \/ LoseAnswer
    <2>1. CASE \E s \in Sources : Ask(s)
      BY <2>1, AskingStaysConsistent DEF BookInv
    <2>2. CASE ~\E s \in Sources : Ask(s)
      BY <1>2, <2>2, SendersStayConsistent DEF BookInv, Sender
    <2> QED
      BY <2>1, <2>2
  <1>3. CASE Device \/ PowerCut \/ UNCHANGED vars
    BY <1>3, DeviceStaysConsistent
  <1> QED
    BY <1>1, <1>2, <1>3 DEF Next

(* The same frame twice, however repeated, copied and reordered, moves the *)
(* light once: a boot acts on a request again only once DuplicateSize      *)
(* others were acted on since.  For every number of senders, size, modulus *)
(* and number of losses, and though the counters wrap.                     *)
THEOREM OnceInAWindow == Spec => []NotTwiceInAWindow
  <1>1. Init => BookInv /\ \E g : Consistent(g)
    BY StartsConsistent
  <1>2. BookInv /\ (\E g : Consistent(g)) /\ [Next]_vars
        => BookInv' /\ (\E g : Consistent(g))'
    BY EveryStepStaysConsistent
  <1>3. (\E g : Consistent(g)) => NotTwiceInAWindow
    <2> SUFFICES ASSUME NEW g, Consistent(g)
                 PROVE  NotTwiceInAWindow
      OBVIOUS
    <2>1. Spaced(acts) /\ DOMAIN acts = 1..Len(acts)
      BY DEF Consistent
    <2> QED
      BY <2>1 DEF Spaced, NotTwiceInAWindow
  <1> QED
    BY <1>1, <1>2, <1>3, PTL DEF Spec
-----------------------------------------------------------------------------
(* What a sender may conclude from an answer                               *)

(* The requests of a sender have rising numbers.                           *)
Rising(g) ==
    \A s \in Sources : \A q, r \in 0..asked[s] : q < r => g[<<s, q>>] < g[<<s, r>>]

(* A sender spends at most m + 1 numbers on a request.                     *)
Spent(m) == \A s \in Sources : aps[s] <= asked[s] * (m + 1)

(* One more request stays below the modulus, so its number is a new one.   *)
LEMMA NoWrap ==
    ASSUME NEW m \in Nat, NEW a \in Nat, NEW r \in Nat, NEW x \in Nat, NEW n \in 0..m,
           NEW M \in Nat, x <= a * (m + 1), a < r, r * (m + 1) < M
    PROVE  /\ (x + 1 + n) % M = x + 1 + n
           /\ x + 1 + n <= (a + 1) * (m + 1)
  <1>1. PICK d \in Nat : r = (a + 1) + d
    <2>1. r - (a + 1) \in Nat /\ r = (a + 1) + (r - (a + 1))
      OBVIOUS
    <2> QED
      BY <2>1
  <1>2. r * (m + 1) = (a + 1) * (m + 1) + d * (m + 1) /\ d * (m + 1) \in Nat
    BY <1>1
  <1>3. (a + 1) * (m + 1) = a * (m + 1) + (m + 1) /\ a * (m + 1) \in Nat
    OBVIOUS
  <1>4. x + 1 + n <= (a + 1) * (m + 1) /\ x + 1 + n < M /\ x + 1 + n \in Nat
    <2> DEFINE A == a * (m + 1)
               B == (a + 1) * (m + 1)
               C == d * (m + 1)
               D == r * (m + 1)
    <2>1. /\ A \in Nat /\ C \in Nat /\ B = A + (m + 1) /\ D = B + C /\ D < M /\ x <= A
      BY <1>2, <1>3
    <2> HIDE DEF A, B, C, D
    <2>2. x + 1 + n <= B /\ x + 1 + n < M /\ x + 1 + n \in Nat
      BY <2>1
    <2> QED
      BY <2>2 DEF B
  <1> QED
    BY <1>4

(* While no counter wraps, the number of a new request exceeds them all.   *)
LEMMA AskingRises ==
    ASSUME NEW m \in Nat, Elsewhere \subseteq 0..m,
           \A s \in Sources : Requests[s] * (m + 1) < Modulus,
           EnvOK, NEW s \in Sources, Ask(s), Spent(m)
    PROVE  Spent(m)' /\ aps[s] < aps'[s]
  <1>1. PICK n \in Elsewhere : aps' = [aps EXCEPT ![s] = (@ + 1 + n) % Modulus]
    BY DEF Ask
  <1>2. /\ asked' = [asked EXCEPT ![s] = @ + 1] /\ asked[s] < Requests[s]
        /\ asked \in [Sources -> Nat] /\ aps \in [Sources -> 0..(Modulus - 1)]
    BY DEF Ask, EnvOK
  <1>3. /\ asked[s] \in Nat /\ Requests[s] \in Nat /\ aps[s] \in Nat /\ n \in 0..m
        /\ Modulus \in Nat /\ aps[s] <= asked[s] * (m + 1) /\ Requests[s] * (m + 1) < Modulus
    BY <1>1, <1>2, Bounds DEF Spent
  <1>4. /\ (aps[s] + 1 + n) % Modulus = aps[s] + 1 + n
        /\ aps[s] + 1 + n <= (asked[s] + 1) * (m + 1)
    BY <1>2, <1>3, NoWrap
  <1>5. /\ aps'[s] = aps[s] + 1 + n /\ asked'[s] = asked[s] + 1
        /\ \A t \in Sources : t # s => aps'[t] = aps[t] /\ asked'[t] = asked[t]
    BY <1>1, <1>2, <1>4
  <1>6. aps'[s] <= asked'[s] * (m + 1)
    BY <1>4, <1>5
  <1>7. \A t \in Sources : t # s => aps'[t] <= asked'[t] * (m + 1)
    BY <1>5 DEF Spent
  <1> QED
    BY <1>3, <1>5, <1>6, <1>7 DEF Spent

LEMMA RisingOn ==
    ASSUME EnvOK, NEW g, NEW h, Consistent(g), Consistent(h)', Rising(g),
           NEW s \in Sources, Ask(s), aps[s] < aps'[s],
           \A t \in Sources : \A r \in 0..asked[t] : h[<<t, r>>] = g[<<t, r>>]
    PROVE  Rising(h)'
  <1>1. /\ asked \in [Sources -> Nat]
        /\ \A t \in Sources : asked'[t] = IF t = s THEN asked[s] + 1 ELSE asked[t]
    BY DEF Ask, EnvOK
  <1>2. /\ aps[s] = g[<<s, asked[s]>>] /\ aps'[s] = h[<<s, asked[s] + 1>>]
        /\ g \in [RequestNames -> 0..(Modulus - 1)] /\ h \in [RequestNames -> 0..(Modulus - 1)]
    BY <1>1 DEF Consistent, Numberings
  <1> SUFFICES ASSUME NEW t \in Sources, NEW q \in 0..asked'[t], NEW r \in 0..asked'[t], q < r
               PROVE  h[<<t, q>>] < h[<<t, r>>]
    BY DEF Rising
  <1>3. asked[t] \in Nat /\ q \in Nat /\ r \in Nat /\ q \in 0..asked[t]
    BY <1>1
  <1>4. CASE r \in 0..asked[t]
    BY <1>3, <1>4 DEF Rising
  <1>5. CASE r \notin 0..asked[t]
    <2>1. t = s /\ r = asked[s] + 1
      BY <1>1, <1>3, <1>5
    <2>2. h[<<s, q>>] = g[<<s, q>>] /\ h[<<s, r>>] = aps'[s]
      BY <1>2, <1>3, <2>1
    <2>3. g[<<s, q>>] <= g[<<s, asked[s]>>]
      <3>1. <<s, q>> \in RequestNames /\ <<s, asked[s]>> \in RequestNames
        BY <1>3, <2>1 DEF RequestNames
      <3>2. g[<<s, q>>] \in 0..(Modulus - 1) /\ g[<<s, asked[s]>>] \in 0..(Modulus - 1)
        BY <1>2, <3>1
      <3>3. CASE q = asked[s]
        BY <3>2, <3>3, Bounds
      <3>4. CASE q < asked[s]
        BY <1>3, <2>1, <3>2, <3>4, Bounds DEF Rising
      <3> QED
        BY <1>3, <2>1, <3>3, <3>4
    <2>4. aps[s] \in Int /\ aps'[s] \in Int /\ g[<<s, q>>] \in Int
      <3>1. /\ <<s, q>> \in RequestNames /\ <<s, asked[s]>> \in RequestNames
            /\ <<s, asked[s] + 1>> \in RequestNames
        BY <1>3, <2>1 DEF RequestNames
      <3> QED
        BY <1>2, <3>1, Bounds
    <2> QED
      BY <1>2, <2>1, <2>2, <2>3, <2>4
  <1> QED
    BY <1>4, <1>5

Answerable(m) ==
    /\ BookInv /\ Spent(m) /\ AnsweredWasDone
    /\ \E g : Consistent(g) /\ Rising(g)

(* An answer to the latest request can only be of the latest request.      *)
LEMMA AnswersAreTrue ==
    ASSUME NEW m \in Nat, Answerable(m), NEW s \in Sources, Answered(s)
    PROVE  AnsweredWasDone'
  <1>1. PICK ack \in answers :
           /\ ack.source = s
           /\ waiting' = [waiting EXCEPT ![s] = @ /\ ack.counter # aps[s]]
    BY DEF Answered
  <1>2. PICK g : Consistent(g) /\ Rising(g)
    BY DEF Answerable
  <1>3. /\ asked' = asked /\ done' = done
        /\ asked \in [Sources -> Nat] /\ waiting \in [Sources -> BOOLEAN]
    BY DEF Answered, historyVars, Answerable, BookInv, EnvOK
  <1>4. \A t \in Sources : t # s => waiting'[t] = waiting[t]
    BY <1>1, <1>3
  <1>5. ~waiting'[s] => ~waiting[s] \/ ack.counter = aps[s]
    BY <1>1, <1>3
  <1>6. ack.counter = aps[s] => <<s, asked[s]>> \in done
    <2> SUFFICES ASSUME ack.counter = aps[s]
                 PROVE  <<s, asked[s]>> \in done
      OBVIOUS
    <2>1. PICK v \in done : ack = Name(g, v)
      BY <1>2 DEF Consistent, Honest
    <2>2. v \in RequestNames /\ v[2] \in 1..asked[v[1]]
      BY <1>2, <2>1 DEF Consistent, Asked
    <2>3. v[1] = s /\ g[v] = aps[s] /\ aps[s] = g[<<s, asked[s]>>] /\ v = <<s, v[2]>>
      BY <1>1, <1>2, <2>1, <2>2 DEF Name, RequestNames, Consistent
    <2>4. g[<<s, v[2]>>] = g[<<s, asked[s]>>] /\ v[2] \in 0..asked[s] /\ asked[s] \in Nat
      BY <1>3, <2>2, <2>3
    <2>5. v[2] < asked[s] => g[<<s, v[2]>>] < g[<<s, asked[s]>>]
      BY <1>2, <2>4 DEF Rising
    <2>6. g[<<s, asked[s]>>] \in Int
      BY <1>2, <2>2, <2>3, <2>4, Bounds DEF Consistent, Numberings
    <2>7. v[2] = asked[s]
      BY <2>4, <2>5, <2>6
    <2> QED
      BY <2>1, <2>3, <2>7
  <1>7. AnsweredWasDone
    BY DEF Answerable
  <1> SUFFICES ASSUME NEW t \in Sources, NEW r \in 1..Requests[t],
                      r < asked[t] \/ (r = asked[t] /\ ~waiting'[t])
               PROVE  <<t, r>> \in done
    BY <1>3 DEF AnsweredWasDone
  <1>8. CASE t # s \/ r < asked[t] \/ ~waiting[t]
    BY <1>4, <1>7, <1>8 DEF AnsweredWasDone
  <1>9. CASE t = s /\ r = asked[s] /\ waiting[s]
    BY <1>5, <1>6, <1>9
  <1> QED
    BY <1>8, <1>9

LEMMA EveryStepStaysAnswerable ==
    ASSUME NEW m \in Nat, Elsewhere \subseteq 0..m,
           \A s \in Sources : Requests[s] * (m + 1) < Modulus,
           Answerable(m), [Next]_vars
    PROVE  Answerable(m)'
  <1>1. PICK g : Consistent(g) /\ Rising(g)
    BY DEF Answerable
  <1>2. BookInv /\ EnvOK /\ Spent(m) /\ AnsweredWasDone
    BY DEF Answerable, BookInv
  <1>3. BookInv'
    BY <1>1, <1>2, EveryStepStaysConsistent
  <1>4. ASSUME NEW s \in Sources, Ask(s)
        PROVE  Answerable(m)'
    <2>1. PICK h : /\ Consistent(h)'
                   /\ \A t \in Sources : \A r \in 0..asked[t] : h[<<t, r>>] = g[<<t, r>>]
      BY <1>1, <1>2, <1>4, AskingStaysConsistent
    <2>2. Spent(m)' /\ aps[s] < aps'[s]
      BY <1>2, <1>4, AskingRises
    <2>3. Rising(h)'
      BY <1>1, <1>2, <1>4, <2>1, <2>2, RisingOn
    <2>4. AnsweredWasDone'
      <3>1. /\ ~waiting[s] /\ done' = done /\ waiting \in [Sources -> BOOLEAN]
            /\ asked \in [Sources -> Nat]
            /\ asked' = [asked EXCEPT ![s] = @ + 1] /\ waiting' = [waiting EXCEPT ![s] = TRUE]
        BY <1>2, <1>4 DEF Ask, historyVars, EnvOK
      <3>2. /\ asked'[s] = asked[s] + 1 /\ asked[s] \in Nat /\ waiting'[s]
            /\ \A t \in Sources : t # s => asked'[t] = asked[t] /\ waiting'[t] = waiting[t]
        BY <3>1
      <3> SUFFICES ASSUME NEW t \in Sources, NEW r \in 1..Requests[t],
                          r < asked'[t] \/ (r = asked'[t] /\ ~waiting'[t])
                   PROVE  <<t, r>> \in done
        BY <3>1 DEF AnsweredWasDone
      <3>3. r < asked[t] \/ (r = asked[t] /\ ~waiting[t])
        <4>1. r \in Nat
          OBVIOUS
        <4> QED
          BY <3>1, <3>2, <4>1
      <3> QED
        BY <1>2, <3>3 DEF AnsweredWasDone
    <2> QED
      BY <1>3, <2>1, <2>2, <2>3, <2>4 DEF Answerable
  <1>5. CASE ~\E s \in Sources : Ask(s)
    <2>1. asked' = asked /\ aps' = aps
      BY <1>5 DEF Next, Sender, Repeat, Answered, MoveToNextKey, AnnounceSwitch, LoseFrame,
                  LoseAnswer, Device, Receive, Deaf, Replayed, Repeated, ActedOn, Takes,
                  HoldKey, SwitchKey, Tick, Transmit, Transmitted, PowerCut, vars, senderVars
    <2>2. Consistent(g)'
      <3>1. \/ \E s \in Sources : Repeat(s) \/ Answered(s) \/ MoveToNextKey(s)
            \/ AnnounceSwitch \/ LoseFrame \/ LoseAnswer
            \/ Device \/ PowerCut \/ UNCHANGED vars
        BY <1>5 DEF Next, Sender
      <3> QED
        BY <1>1, <1>2, <3>1, SendersStayConsistent, DeviceStaysConsistent
    <2>3. Spent(m)' /\ Rising(g)'
      BY <1>1, <1>2, <2>1 DEF Spent, Rising
    <2>4. AnsweredWasDone'
      <3>1. CASE \E s \in Sources : Answered(s)
        BY <3>1, AnswersAreTrue
      <3>2. CASE ~\E s \in Sources : Answered(s)
        <4>1. waiting' = waiting
          BY <1>5, <3>2 DEF Next, Sender, Repeat, MoveToNextKey, AnnounceSwitch, LoseFrame,
                  LoseAnswer, Device, Receive, Deaf, Replayed, Repeated, ActedOn, Takes,
                  HoldKey, SwitchKey, Tick, Transmit, Transmitted, PowerCut, vars, senderVars
        <4>2. done \subseteq done'
          BY <1>5, <3>2 DEF Next, Sender, Repeat, MoveToNextKey, AnnounceSwitch, LoseFrame,
                  LoseAnswer, Device, Receive, Deaf, Replayed, Repeated, ActedOn, Takes,
                  HoldKey, SwitchKey, Tick, Transmit, Transmitted, PowerCut, vars, historyVars
        <4> QED
          BY <1>2, <2>1, <4>1, <4>2 DEF AnsweredWasDone
      <3> QED
        BY <3>1, <3>2
    <2> QED
      BY <1>3, <2>2, <2>3, <2>4 DEF Answerable
  <1> QED
    BY <1>4, <1>5

(* A sender that has been told its request arrived has been told the       *)
(* truth, for every number of senders, losses, copies and restarts, as     *)
(* long as no sender's application counter comes round: m bounds the       *)
(* frames it sends others between two requests.                            *)
THEOREM AnswersTellTheTruth ==
    ASSUME NEW m \in Nat, Elsewhere \subseteq 0..m,
           \A s \in Sources : Requests[s] * (m + 1) < Modulus
    PROVE  Spec => []AnsweredWasDone
  <1>1. Init => Answerable(m)
    <2> SUFFICES ASSUME Init
                 PROVE  Answerable(m)
      OBVIOUS
    <2>1. BookInv /\ \E g : Consistent(g)
      BY StartsConsistent
    <2>2. \A s \in Sources : asked[s] = 0 /\ aps[s] = 0
      BY DEF Init
    <2>3. \A g : Rising(g)
      BY <2>2 DEF Rising
    <2>4. Spent(m)
      BY <2>2 DEF Spent
    <2>5. AnsweredWasDone
      BY <2>2 DEF AnsweredWasDone
    <2> QED
      BY <2>1, <2>3, <2>4, <2>5 DEF Answerable
  <1>2. Answerable(m) /\ [Next]_vars => Answerable(m)'
    BY EveryStepStaysAnswerable
  <1>3. Answerable(m) => AnsweredWasDone
    BY DEF Answerable
  <1> QED
    BY <1>1, <1>2, <1>3, PTL DEF Spec
=============================================================================
