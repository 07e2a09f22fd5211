---------------------------- MODULE Tables_proofs ----------------------------
(***************************************************************************)
(* The device's two tables.  The replay table is a perfect guard for as    *)
(* many senders as it has slots, and the duplicate table is the window of  *)
(* the last DuplicateSize frames acted on, for every size and every set of *)
(* senders and counters.                                                   *)
(***************************************************************************)
EXTENDS Replays, Duplicates, FiniteSetTheorems, SequenceTheorems, TLAPS

-----------------------------------------------------------------------------
(* The replay table                                                        *)

(* The slots fill from the first on, and `oldest` points past the last one *)
(* filled until there is none left: the strengthening that makes           *)
(* NothingLostEarly inductive.                                             *)
FilledInOrder ==
    \/ \A i \in Slots : highest[i] # Never
    \/ \A i \in Slots : highest[i] = Never <=> i >= oldest

OneSlotEach ==
    \A i, j \in Slots :
        highest[i] # Never /\ highest[j] # Never
            /\ highest[i].source = highest[j].source => i = j

ReplaysInv == ReplaysTypeOK /\ OneSlotEach /\ FilledInOrder

(* The pointer that `(oldest + 1) % REPLAY_TABLE_SIZE` moves to.           *)
LEMMA NextSlot ==
    ASSUME NEW o \in Slots
    PROVE  /\ (o + 1) % Size \in Slots
           /\ o + 1 < Size => (o + 1) % Size = o + 1
           /\ o + 1 = Size => (o + 1) % Size = 0
  BY ReplaysAssumption DEF Slots

(* An entry is not an empty slot.                                          *)
LEMMA EntryIsNotNever ==
    ASSUME NEW s \in Sources, NEW c \in Counters
    PROVE  /\ [source |-> s, counter |-> c] \in Entry
           /\ [source |-> s, counter |-> c] # Never
  BY ReplaysAssumption DEF Entry

(* A sender the table does not hold fills the next slot and moves on.      *)
LEMMA UnknownKeeps ==
    ASSUME ReplaysInv, NEW s \in Sources, NEW c \in Counters, Unknown(s, c)
    PROVE  ReplaysInv'
  <1> DEFINE entry == [source |-> s, counter |-> c]
  <1>0. /\ oldest \in Slots
        /\ highest \in [Slots -> Entry \cup {Never}]
        /\ entry \in Entry
        /\ entry # Never
        /\ entry.source = s
        /\ highest' = [highest EXCEPT ![oldest] = entry]
        /\ oldest' = (oldest + 1) % Size
    BY EntryIsNotNever DEF ReplaysInv, ReplaysTypeOK, Unknown
  <1> HIDE DEF entry
  <1>1. /\ highest'[oldest] = entry
        /\ \A i \in Slots \ {oldest} : highest'[i] = highest[i]
    BY <1>0
  <1>2. ReplaysTypeOK'
    <2>1. highest' \in [Slots -> Entry \cup {Never}]
      BY <1>0
    <2>2. oldest' \in Slots
      BY <1>0, NextSlot
    <2>3. replayed' \in BOOLEAN
      BY DEF Unknown
    <2> QED
      BY <2>1, <2>2, <2>3 DEF ReplaysTypeOK
  <1>3. OneSlotEach'
    <2> SUFFICES ASSUME NEW i \in Slots, NEW j \in Slots,
                        highest'[i] # Never, highest'[j] # Never,
                        highest'[i].source = highest'[j].source
                 PROVE  i = j
      BY DEF OneSlotEach
    <2>1. \A k \in Slots : highest[k] # Never => highest[k].source # s
      BY DEF Unknown, HeldBy
    <2> QED
      BY <1>0, <1>1, <2>1 DEF ReplaysInv, OneSlotEach
  <1>4. FilledInOrder'
    <2>1. CASE \A i \in Slots : highest[i] # Never
      BY <1>0, <1>1, <2>1 DEF FilledInOrder
    <2>2. CASE \A i \in Slots : highest[i] = Never <=> i >= oldest
      <3>1. CASE oldest + 1 < Size
        BY <1>0, <1>1, <2>2, <3>1, NextSlot, ReplaysAssumption
           DEF FilledInOrder, Slots
      <3>2. CASE oldest + 1 = Size
        BY <1>0, <1>1, <2>2, <3>2, ReplaysAssumption DEF FilledInOrder, Slots
      <3> QED
        BY <1>0, <3>1, <3>2, ReplaysAssumption DEF Slots
    <2> QED
      BY <2>1, <2>2 DEF ReplaysInv, FilledInOrder
  <1> QED
    BY <1>2, <1>3, <1>4 DEF ReplaysInv

(* A sender the table holds changes at most the counter of its own slot.   *)
LEMMA KnownKeeps ==
    ASSUME ReplaysInv, NEW s \in Sources, NEW c \in Counters, NEW k \in Slots,
           Known(s, c, k)
    PROVE  /\ ReplaysInv'
           /\ \A i \in Slots : /\ highest'[i] = Never <=> highest[i] = Never
                               /\ highest[i] # Never =>
                                      highest'[i].source = highest[i].source
  <1>1. /\ highest \in [Slots -> Entry \cup {Never}]
        /\ highest[k] \in Entry
        /\ highest[k].source = s
        /\ oldest' = oldest
    BY DEF ReplaysInv, ReplaysTypeOK, Known, HeldBy
  <1>2. CASE highest' = highest
    <2>1. replayed' \in BOOLEAN
      BY DEF Known
    <2>2. ReplaysInv'
      BY <1>1, <1>2, <2>1 DEF ReplaysInv, ReplaysTypeOK, OneSlotEach, FilledInOrder, Known
    <2> QED
      BY <1>2, <2>2
  <1>3. CASE highest' = [highest EXCEPT ![k] = [source |-> s, counter |-> c]]
    <2> DEFINE entry == [source |-> s, counter |-> c]
    <2>1. highest' = [highest EXCEPT ![k] = entry]
      BY <1>3
    <2>2. entry \in Entry /\ entry # Never /\ entry.source = s
      BY EntryIsNotNever
    <2> HIDE DEF entry
    <2>3. /\ highest' \in [Slots -> Entry \cup {Never}]
          /\ highest'[k] = entry
          /\ \A i \in Slots \ {k} : highest'[i] = highest[i]
      BY <1>1, <2>1, <2>2
    <2>4. \A i \in Slots : /\ highest'[i] = Never <=> highest[i] = Never
                           /\ highest[i] # Never =>
                                  highest'[i].source = highest[i].source
      BY <1>1, <2>2, <2>3, ReplaysAssumption DEF Entry
    <2>5. ReplaysTypeOK'
      BY <1>1, <2>3 DEF ReplaysInv, ReplaysTypeOK, Known
    <2>6. OneSlotEach'
      <3> SUFFICES ASSUME NEW i \in Slots, NEW j \in Slots,
                          highest'[i] # Never, highest'[j] # Never,
                          highest'[i].source = highest'[j].source
                   PROVE  i = j
        BY DEF OneSlotEach
      <3> QED
        BY <2>4 DEF ReplaysInv, OneSlotEach
    <2>7. FilledInOrder'
      <3>1. CASE \A i \in Slots : highest[i] # Never
        BY <2>4, <3>1 DEF FilledInOrder
      <3>2. CASE \A i \in Slots : highest[i] = Never <=> i >= oldest
        BY <1>1, <2>4, <3>2 DEF FilledInOrder
      <3> QED
        BY <3>1, <3>2 DEF ReplaysInv, FilledInOrder
    <2> QED
      BY <2>4, <2>5, <2>6, <2>7 DEF ReplaysInv
  <1> QED
    BY <1>2, <1>3 DEF Known

(* The inductive invariant.                                                *)
THEOREM TableInvariant == ReplaysSpec => []ReplaysInv
  <1>1. ReplaysInit => ReplaysInv
    <2> SUFFICES ASSUME ReplaysInit
                 PROVE  ReplaysInv
      OBVIOUS
    <2>1. \A i \in Slots : highest[i] = Never /\ i >= oldest
      BY ReplaysAssumption DEF ReplaysInit, Slots
    <2>2. ReplaysTypeOK
      <3>1. oldest \in Slots
        BY ReplaysAssumption DEF ReplaysInit, Slots
      <3>2. highest \in [Slots -> Entry \cup {Never}]
        BY DEF ReplaysInit
      <3> QED
        BY <3>1, <3>2 DEF ReplaysInit, ReplaysTypeOK
    <2> QED
      BY <2>1, <2>2 DEF ReplaysInv, OneSlotEach, FilledInOrder
  <1>2. ASSUME ReplaysInv, [ReplaysNext]_replayVars
        PROVE  ReplaysInv'
    <2>1. CASE \E s \in Sources, c \in Counters : Unknown(s, c)
      BY <1>2, <2>1, UnknownKeeps
    <2>2. CASE \E s \in Sources, c \in Counters, i \in Slots : Known(s, c, i)
      BY <1>2, <2>2, KnownKeeps
    <2>3. CASE ForgetSenders
      BY <1>2, <2>3, ReplaysAssumption
         DEF ForgetSenders, ReplaysInv, ReplaysTypeOK, OneSlotEach, FilledInOrder, Slots
    <2>4. CASE UNCHANGED replayVars
      BY <1>2, <2>4 DEF replayVars, ReplaysInv, ReplaysTypeOK, OneSlotEach, FilledInOrder
    <2> QED
      BY <1>2, <2>1, <2>2, <2>3, <2>4 DEF ReplaysNext, ReplaySeen
  <1> QED
    BY <1>1, <1>2, PTL DEF ReplaysSpec

(* `Replays::seen` keeps its slots and its pointer in range.               *)
THEOREM TypeCorrect == ReplaysSpec => []ReplaysTypeOK
  BY TableInvariant, PTL DEF ReplaysInv

(* Nothing is lost before it has to be: no sender fills two slots, and the *)
(* slot `Replays::seen` takes over is free unless the whole table is full. *)
THEOREM NoEarlyLoss == ReplaysSpec => []NothingLostEarly
  <1>1. ReplaysInv => NothingLostEarly
    BY ReplaysAssumption
       DEF ReplaysInv, ReplaysTypeOK, OneSlotEach, FilledInOrder, NothingLostEarly, Slots
  <1> QED
    BY <1>1, TableInvariant, PTL

-----------------------------------------------------------------------------
(* The guarantee, for no more senders than slots                           *)

(* What the table knows of a sender is in the one slot it holds.           *)
LEMMA BestOfHolder ==
    ASSUME ReplaysInv, NEW s \in Sources, NEW i \in HeldBy(s)
    PROVE  Best[s] = highest[i].counter
  <1>1. \A j \in HeldBy(s) : j = i
    BY DEF ReplaysInv, OneSlotEach, HeldBy
  <1>2. (CHOOSE j \in HeldBy(s) : TRUE) = i
    BY <1>1
  <1>3. HeldBy(s) # {}
    OBVIOUS
  <1> QED
    BY <1>2, <1>3 DEF Best

(* A full table holds as many senders as it has slots, so when there are   *)
(* no more than that it holds every one.                                   *)
LEMMA FullTableHoldsAll ==
    ASSUME ReplaysInv, IsFiniteSet(Sources), Cardinality(Sources) <= Size,
           \A i \in Slots : highest[i] # Never,
           NEW s \in Sources
    PROVE  HeldBy(s) # {}
  <1> SUFFICES ASSUME HeldBy(s) = {}
               PROVE  FALSE
    OBVIOUS
  <1> DEFINE others == Sources \ {s}
             holder == [i \in Slots |-> highest[i].source]
  <1>1. \A i \in Slots : highest[i] \in Entry
    BY DEF ReplaysInv, ReplaysTypeOK
  <1>2. \A i \in Slots : highest[i].source \in others
    BY <1>1 DEF HeldBy, Entry
  <1>3. holder \in Injection(Slots, others)
    <2>1. holder \in [Slots -> others]
      BY <1>2
    <2>2. \A i, j \in Slots : holder[i] = holder[j] => i = j
      BY DEF ReplaysInv, OneSlotEach
    <2> QED
      BY <2>1, <2>2 DEF Injection, IsInjective
  <1>4. /\ IsFiniteSet(others)
        /\ Cardinality(others) = Cardinality(Sources) - 1
    BY FS_RemoveElement
  <1>5. Cardinality(Slots) <= Cardinality(others)
    <2> HIDE DEF holder, others
    <2> QED
      BY <1>3, <1>4, FS_Injection
  <1>6. Cardinality(Slots) = Size
    BY FS_Interval, ReplaysAssumption DEF Slots
  <1>7. Cardinality(Sources) \in Nat
    BY FS_CardinalityType
  <1> QED
    BY <1>4, <1>5, <1>6, <1>7, ReplaysAssumption

(* What a frame does to what the table knows, sender by sender.            *)
LEMMA StepOfBest ==
    ASSUME ReplaysInv, NEW s \in Sources, NEW i \in Slots,
           highest'[i] = [source |-> s, counter |-> highest'[i].counter],
           \A j \in Slots \ {i} : highest'[j] = highest[j],
           highest[i] = Never \/ highest[i].source = s,
           highest'[i] # Never, ReplaysInv'
    PROVE  Best' = [Best EXCEPT ![s] = highest'[i].counter]
  <1>1. i \in HeldBy(s)'
    BY DEF HeldBy
  <1>2. Best'[s] = highest'[i].counter
    <2>1. \A j \in HeldBy(s)' : j = i
      BY <1>1 DEF ReplaysInv, OneSlotEach, HeldBy
    <2>2. (CHOOSE j \in HeldBy(s)' : TRUE) = i
      BY <1>1, <2>1
    <2> QED
      BY <1>1, <2>2 DEF Best
  <1>3. ASSUME NEW t \in Sources \ {s}
        PROVE  Best'[t] = Best[t]
    <2>1. HeldBy(t)' = HeldBy(t)
      BY <1>3 DEF HeldBy
    <2>2. CASE HeldBy(t) = {}
      BY <2>1, <2>2 DEF Best
    <2>3. CASE HeldBy(t) # {}
      <3>1. PICK j \in HeldBy(t) : j = CHOOSE k \in HeldBy(t) : TRUE
        BY <2>3
      <3>2. j \in Slots \ {i}
        BY <1>3, <2>1 DEF HeldBy
      <3> QED
        BY <2>1, <2>3, <3>1, <3>2 DEF Best
    <2> QED
      BY <2>2, <2>3
  <1>4. /\ Best = [t \in Sources |-> Best[t]]
        /\ Best' = [t \in Sources |-> Best'[t]]
    BY DEF Best
  <1> QED
    BY <1>2, <1>3, <1>4

(* A frame from a sender the table does not hold is taken.                 *)
LEMMA UnknownTakes ==
    ASSUME ReplaysInv, IsFiniteSet(Sources), Cardinality(Sources) <= Size,
           NEW s \in Sources, NEW c \in Counters, Unknown(s, c)
    PROVE  Guard!Take(s, c)
  <1> DEFINE entry == [source |-> s, counter |-> c]
  <1>1. /\ oldest \in Slots
        /\ highest' = [highest EXCEPT ![oldest] = entry]
        /\ HeldBy(s) = {}
        /\ entry # Never
        /\ entry = [source |-> s, counter |-> entry.counter]
        /\ entry.counter = c
    BY EntryIsNotNever DEF ReplaysInv, ReplaysTypeOK, Unknown
  <1> HIDE DEF entry
  <1>2. highest[oldest] = Never
    <2>1. ~ \A i \in Slots : highest[i] # Never
      BY <1>1, FullTableHoldsAll
    <2> QED
      BY <1>1, <2>1, ReplaysAssumption DEF ReplaysInv, FilledInOrder, Slots
  <1>3. /\ highest'[oldest] = entry
        /\ \A j \in Slots \ {oldest} : highest'[j] = highest[j]
    BY <1>1 DEF ReplaysInv, ReplaysTypeOK
  <1>4. ReplaysInv'
    BY UnknownKeeps
  <1>5. Best' = [Best EXCEPT ![s] = c]
    BY <1>1, <1>2, <1>3, <1>4, StepOfBest
  <1>6. Best[s] = Never
    BY <1>1 DEF Best
  <1> QED
    BY <1>5, <1>6 DEF Guard!Take, Unknown

(* A frame from a sender the table holds is taken or refused by comparison *)
(* with the last one taken.                                                *)
LEMMA KnownTakesOrRefuses ==
    ASSUME ReplaysInv, NEW s \in Sources, NEW c \in Counters, NEW i \in Slots,
           Known(s, c, i)
    PROVE  Guard!Take(s, c) \/ Guard!Refuse(s, c)
  <1>1. /\ i \in HeldBy(s)
        /\ highest[i] \in Entry
        /\ highest[i].source = s
        /\ highest[i].counter \in Nat
    BY ReplaysAssumption DEF ReplaysInv, ReplaysTypeOK, Known, HeldBy, Entry
  <1>2. Best[s] = highest[i].counter
    BY <1>1, BestOfHolder
  <1>3. Best[s] # Never
    BY <1>1, <1>2, ReplaysAssumption
  <1>4. CASE c <= highest[i].counter
    <2>1. highest' = highest /\ replayed' = TRUE
      BY <1>1, <1>4, ReplaysAssumption DEF Known
    <2>2. Best' = Best
      BY <2>1 DEF Best, HeldBy
    <2> QED
      BY <1>2, <1>3, <1>4, <2>1, <2>2 DEF Guard!Refuse
  <1>5. CASE c > highest[i].counter
    <2> DEFINE entry == [source |-> s, counter |-> c]
    <2>1. /\ highest' = [highest EXCEPT ![i] = entry]
          /\ entry # Never
          /\ entry = [source |-> s, counter |-> entry.counter]
          /\ entry.counter = c
      BY <1>1, <1>5, EntryIsNotNever, ReplaysAssumption DEF Known
    <2>2. replayed' = FALSE
      BY <1>1, <1>5, ReplaysAssumption DEF Known
    <2> HIDE DEF entry
    <2>3. /\ highest'[i] = entry
          /\ \A j \in Slots \ {i} : highest'[j] = highest[j]
      BY <2>1 DEF ReplaysInv, ReplaysTypeOK
    <2>4. Best' = [Best EXCEPT ![s] = c]
      BY <1>1, <2>1, <2>3, KnownKeeps, StepOfBest
    <2>5. c > Best[s]
      BY <1>2, <1>5
    <2> QED
      BY <2>2, <2>4, <2>5 DEF Guard!Take
  <1> QED
    BY <1>4, <1>5 DEF Known

(* With no more senders than slots, `Replays` takes of each sender exactly *)
(* the frames whose counter exceeds that of every frame taken before.      *)
THEOREM PerfectGuard ==
    ASSUME IsFiniteSet(Sources), Cardinality(Sources) <= Size
    PROVE  ReplaysSpec => ImplementsGuard
  <1>1. ReplaysInit => Guard!Init
    <2> SUFFICES ASSUME ReplaysInit
                 PROVE  Guard!Init
      OBVIOUS
    <2>1. \A s \in Sources : HeldBy(s) = {}
      BY DEF ReplaysInit, HeldBy
    <2> QED
      BY <2>1 DEF ReplaysInit, Guard!Init, Best
  <1>2. ASSUME ReplaysInv, [ReplaysNext]_replayVars
        PROVE  [Guard!Next]_(Guard!vars)
    <2>1. ASSUME NEW s \in Sources, NEW c \in Counters, Unknown(s, c)
          PROVE  Guard!Next
      BY <1>2, <2>1, UnknownTakes DEF Guard!Next
    <2>2. ASSUME NEW s \in Sources, NEW c \in Counters, NEW i \in Slots,
                 Known(s, c, i)
          PROVE  Guard!Next
      BY <1>2, <2>2, KnownTakesOrRefuses DEF Guard!Next
    <2>3. CASE ForgetSenders
      <3>1. \A s \in Sources : HeldBy(s)' = {}
        BY <2>3 DEF ForgetSenders, HeldBy
      <3>2. Best' = [s \in Sources |-> Never]
        BY <3>1 DEF Best
      <3> QED
        BY <2>3, <3>2 DEF ForgetSenders, Guard!Next, Guard!Forget
    <2>4. CASE UNCHANGED replayVars
      BY <2>4 DEF replayVars, Guard!vars, Best, HeldBy
    <2> QED
      BY <1>2, <2>1, <2>2, <2>3, <2>4 DEF ReplaysNext, ReplaySeen
  <1> QED
    BY <1>1, <1>2, TableInvariant, PTL DEF ReplaysSpec, ImplementsGuard, Guard!Spec

-----------------------------------------------------------------------------
(* The duplicate table                                                     *)

Tables == [DuplicateSlots -> Pairs \cup {Vacant}]

Filled(r) == \A i \in DuplicateSlots : r[i] \in Pairs

(* Until the table is full, the slots in use are those below the pointer.  *)
FilledBelow(r, o) ==
    \A i \in DuplicateSlots : /\ i < o => r[i] \in Pairs
                              /\ i >= o => r[i] = Vacant

(* A table `seen` can leave behind.                                        *)
WellFilled(r, o) ==
    /\ r \in Tables
    /\ o \in DuplicateSlots
    /\ Filled(r) \/ FilledBelow(r, o)

DuplicatesInv == DuplicatesTypeOK /\ WellFilled(recent, oldestRecent)

Turn(o, k) == (o + k) % DuplicateSize

(* `% DUPLICATE_TABLE_SIZE` wraps at most once.                            *)
LEMMA TurnWraps ==
    ASSUME NEW o \in DuplicateSlots, NEW k \in 0..DuplicateSize
    PROVE  /\ o + k < DuplicateSize => Turn(o, k) = o + k
           /\ o + k >= DuplicateSize => Turn(o, k) = o + k - DuplicateSize
           /\ Turn(o, k) \in DuplicateSlots
  <1>1. /\ DuplicateSize \in Nat /\ DuplicateSize > 0
        /\ o \in Nat /\ o < DuplicateSize
        /\ k \in Nat /\ k <= DuplicateSize
    BY DuplicatesAssumption DEF DuplicateSlots
  <1>2. CASE o + k < DuplicateSize
    <2>1. (o + k) % DuplicateSize = o + k
      BY <1>1, <1>2
    <2> QED
      BY <1>1, <1>2, <2>1 DEF Turn, DuplicateSlots
  <1>3. CASE o + k >= DuplicateSize
    <2>1. (o + k) % DuplicateSize = o + k - DuplicateSize
      BY <1>1, <1>3
    <2> QED
      BY <1>1, <1>3, <2>1 DEF Turn, DuplicateSlots
  <1> QED
    BY <1>1, <1>2, <1>3

(* Remembered, of the table r with its pointer at o.                       *)
Window(r, o) ==
    IF r[o] = Vacant
    THEN [i \in 1..o |-> r[i - 1]]
    ELSE [i \in 1..DuplicateSize |-> r[Turn(o, i - 1)]]

(* The window of a full table: every slot, from the pointer round.         *)
LEMMA WindowOfFull ==
    ASSUME NEW r \in Tables, NEW o \in DuplicateSlots, Filled(r)
    PROVE  /\ Window(r, o) \in Seq(Pairs)
           /\ Len(Window(r, o)) = DuplicateSize
           /\ \A i \in 1..DuplicateSize : Window(r, o)[i] = r[Turn(o, i - 1)]
  <1>1. r[o] # Vacant
    BY DuplicatesAssumption DEF Filled
  <1>2. Window(r, o) = [i \in 1..DuplicateSize |-> r[Turn(o, i - 1)]]
    BY <1>1 DEF Window
  <1>3. \A i \in 1..DuplicateSize : r[Turn(o, i - 1)] \in Pairs
    <2> SUFFICES ASSUME NEW i \in 1..DuplicateSize
                 PROVE  r[Turn(o, i - 1)] \in Pairs
      OBVIOUS
    <2>1. i - 1 \in 0..DuplicateSize
      BY DuplicatesAssumption
    <2> QED
      BY <2>1, TurnWraps DEF Filled
  <1> QED
    BY <1>2, <1>3, DuplicatesAssumption

(* The window of a table with room: the slots below the pointer.           *)
LEMMA WindowOfFilling ==
    ASSUME NEW r \in Tables, NEW o \in DuplicateSlots, FilledBelow(r, o)
    PROVE  /\ Window(r, o) \in Seq(Pairs)
           /\ Len(Window(r, o)) = o
           /\ \A i \in 1..o : Window(r, o)[i] = r[i - 1]
  <1>1. o \in Nat /\ o < DuplicateSize
    BY DuplicatesAssumption DEF DuplicateSlots
  <1>2. r[o] = Vacant
    BY <1>1 DEF FilledBelow
  <1>3. Window(r, o) = [i \in 1..o |-> r[i - 1]]
    BY <1>2 DEF Window
  <1>4. \A i \in 1..o : r[i - 1] \in Pairs
    BY <1>1, DuplicatesAssumption DEF FilledBelow, DuplicateSlots
  <1> QED
    BY <1>1, <1>3, <1>4

(* What the table contains is what the window remembers.                   *)
LEMMA ContainedIsRemembered ==
    ASSUME DuplicatesInv, NEW f \in Pairs
    PROVE  Contained(f) <=> f \in Recent!Remembered
  <1>0. /\ Remembered = Window(recent, oldestRecent)
        /\ recent \in Tables /\ oldestRecent \in DuplicateSlots
    BY DEF DuplicatesInv, WellFilled, Remembered, Window, Turn
  <1>1. CASE Filled(recent)
    <2>1. /\ Remembered \in Seq(Pairs)
          /\ Len(Remembered) = DuplicateSize
          /\ \A i \in 1..DuplicateSize :
                Remembered[i] = recent[Turn(oldestRecent, i - 1)]
      BY <1>0, <1>1, WindowOfFull
    <2>2. /\ DuplicateSize \in Nat /\ oldestRecent \in DuplicateSlots
          /\ oldestRecent \in Nat /\ oldestRecent < DuplicateSize
      BY <1>0, DuplicatesAssumption DEF DuplicateSlots
    <2>3. DOMAIN Remembered = 1..DuplicateSize
      BY <2>1
    <2>4. ASSUME NEW i \in 1..DuplicateSize
          PROVE  Turn(oldestRecent, i - 1) \in DuplicateSlots
      <3>1. i - 1 \in 0..DuplicateSize
        BY <2>2
      <3> QED
        BY <2>2, <3>1, TurnWraps
    <2>5. ASSUME NEW j \in DuplicateSlots
          PROVE  \E i \in 1..DuplicateSize : Turn(oldestRecent, i - 1) = j
      <3> DEFINE k == IF j >= oldestRecent THEN j - oldestRecent
                      ELSE j - oldestRecent + DuplicateSize
      <3>1. j \in Nat /\ j < DuplicateSize
        BY <2>2 DEF DuplicateSlots
      <3>2. /\ k \in 0..DuplicateSize /\ k + 1 \in 1..DuplicateSize
            /\ (k + 1) - 1 = k
        BY <2>2, <3>1
      <3>3. CASE j >= oldestRecent
        <4>1. k = j - oldestRecent /\ oldestRecent + k < DuplicateSize
          BY <2>2, <3>1, <3>3
        <4>2. Turn(oldestRecent, k) = oldestRecent + k
          BY <2>2, <3>2, <4>1, TurnWraps
        <4> QED
          BY <2>2, <3>1, <3>2, <4>1, <4>2
      <3>4. CASE j < oldestRecent
        <4>1. /\ k = j - oldestRecent + DuplicateSize
              /\ oldestRecent + k >= DuplicateSize
          BY <2>2, <3>1, <3>4
        <4>2. Turn(oldestRecent, k) = oldestRecent + k - DuplicateSize
          BY <2>2, <3>2, <4>1, TurnWraps
        <4> QED
          BY <2>2, <3>1, <3>2, <4>1, <4>2
      <3> QED
        BY <2>2, <3>1, <3>3, <3>4
    <2>6. Recent!Remembered = {Remembered[i] : i \in 1..DuplicateSize}
      BY <2>3 DEF Recent!Remembered
    <2>7. ASSUME Contained(f)
          PROVE  f \in Recent!Remembered
      <3>1. PICK j \in DuplicateSlots : recent[j] = f
        BY <2>7 DEF Contained
      <3>2. PICK i \in 1..DuplicateSize : Turn(oldestRecent, i - 1) = j
        BY <2>5
      <3>3. Remembered[i] = f
        BY <2>1, <3>1, <3>2
      <3> QED
        BY <2>6, <3>3
    <2>8. ASSUME f \in Recent!Remembered
          PROVE  Contained(f)
      <3>1. PICK i \in 1..DuplicateSize : Remembered[i] = f
        BY <2>6, <2>8
      <3>2. recent[Turn(oldestRecent, i - 1)] = f
        BY <2>1, <3>1
      <3> QED
        BY <2>4, <3>2 DEF Contained
    <2> QED
      BY <2>7, <2>8
  <1>2. CASE FilledBelow(recent, oldestRecent)
    <2>1. /\ Remembered \in Seq(Pairs)
          /\ Len(Remembered) = oldestRecent
          /\ \A i \in 1..oldestRecent : Remembered[i] = recent[i - 1]
      BY <1>0, <1>2, WindowOfFilling
    <2>2. oldestRecent \in Nat /\ oldestRecent < DuplicateSize /\ DuplicateSize \in Nat
      BY <1>0, DuplicatesAssumption DEF DuplicateSlots
    <2>3. DOMAIN Remembered = 1..oldestRecent
      BY <2>1
    <2>4. ASSUME NEW j \in DuplicateSlots, recent[j] = f
          PROVE  /\ j + 1 \in 1..oldestRecent
                 /\ Remembered[j + 1] = f
      <3>1. j < oldestRecent /\ j \in Nat
        BY <1>2, <2>2, <2>4, DuplicatesAssumption DEF FilledBelow, DuplicateSlots
      <3>2. j + 1 \in 1..oldestRecent /\ (j + 1) - 1 = j
        BY <2>2, <3>1
      <3> QED
        BY <2>1, <2>4, <3>2
    <2>5. ASSUME NEW i \in 1..oldestRecent
          PROVE  i - 1 \in DuplicateSlots
      BY <2>2 DEF DuplicateSlots
    <2> QED
      BY <2>1, <2>3, <2>4, <2>5 DEF Contained, Recent!Remembered
  <1> QED
    BY <1>1, <1>2 DEF DuplicatesInv, WellFilled

(* A new frame takes the next slot of a table with room, at the end of the *)
(* window; of a full one it takes the oldest's.                            *)
LEMMA WritingSlides ==
    ASSUME NEW r, NEW o, WellFilled(r, o), NEW f \in Pairs
    PROVE  LET w == [r EXCEPT ![o] = f]
               n == Turn(o, 1)
               q == Window(r, o)
           IN  /\ WellFilled(w, n)
               /\ Window(w, n) = Append(IF Len(q) = DuplicateSize THEN Tail(q) ELSE q, f)
  <1> DEFINE w == [r EXCEPT ![o] = f]
             n == Turn(o, 1)
             q == Window(r, o)
             p == Window(w, n)
  <1>1. /\ r \in Tables /\ o \in DuplicateSlots
        /\ DuplicateSize \in Nat /\ DuplicateSize > 0
        /\ o \in Nat /\ o < DuplicateSize
        /\ 1 \in 0..DuplicateSize
    BY DuplicatesAssumption DEF WellFilled, DuplicateSlots
  <1>2. /\ o + 1 < DuplicateSize => n = o + 1
        /\ o + 1 >= DuplicateSize => n = 0
        /\ n \in DuplicateSlots
    BY <1>1, TurnWraps
  <1>3. w \in Tables /\ w[o] = f /\ \A i \in DuplicateSlots \ {o} : w[i] = r[i]
    BY <1>1 DEF Tables
  <1> HIDE DEF w, n
  <1>4. CASE Filled(r)
    <2>1. Filled(w)
      BY <1>3, <1>4 DEF Filled
    <2>2. /\ q \in Seq(Pairs) /\ Len(q) = DuplicateSize
          /\ \A i \in 1..DuplicateSize : q[i] = r[Turn(o, i - 1)]
      BY <1>1, <1>4, WindowOfFull
    <2>3. /\ p \in Seq(Pairs) /\ Len(p) = DuplicateSize
          /\ \A i \in 1..DuplicateSize : p[i] = w[Turn(n, i - 1)]
      BY <1>2, <1>3, <2>1, WindowOfFull
    <2> HIDE DEF p, q
    <2>4. /\ Tail(q) \in Seq(Pairs) /\ Len(Tail(q)) = DuplicateSize - 1
          /\ \A i \in 1..(DuplicateSize - 1) : Tail(q)[i] = q[i + 1]
      BY <1>1, <2>2, HeadTailProperties, EmptySeq
    <2>5. /\ Append(Tail(q), f) \in Seq(Pairs)
          /\ Len(Append(Tail(q), f)) = DuplicateSize
          /\ \A i \in 1..(DuplicateSize - 1) : Append(Tail(q), f)[i] = q[i + 1]
          /\ Append(Tail(q), f)[DuplicateSize] = f
      BY <1>1, <2>4, AppendProperties
    <2>6. ASSUME NEW i \in 1..DuplicateSize
          PROVE  p[i] = Append(Tail(q), f)[i]
      <3>1. /\ n \in Nat /\ n < DuplicateSize /\ i \in 0..DuplicateSize
            /\ i - 1 \in 0..DuplicateSize
        BY <1>1, <1>2 DEF DuplicateSlots
      <3>2. /\ n + (i - 1) < DuplicateSize => Turn(n, i - 1) = n + (i - 1)
            /\ n + (i - 1) >= DuplicateSize =>
                  Turn(n, i - 1) = n + (i - 1) - DuplicateSize
        BY <1>2, <3>1, TurnWraps
      <3>3. CASE i = DuplicateSize
        <4>1. Turn(n, i - 1) = o
          BY <1>1, <1>2, <3>1, <3>2, <3>3
        <4> QED
          BY <1>3, <2>3, <2>5, <3>3, <4>1
      <3>4. CASE i # DuplicateSize
        <4>1. i \in 1..(DuplicateSize - 1) /\ i + 1 \in 1..DuplicateSize /\ (i + 1) - 1 = i
          BY <1>1, <3>4
        <4>2. /\ o + i < DuplicateSize => Turn(o, i) = o + i
              /\ o + i >= DuplicateSize => Turn(o, i) = o + i - DuplicateSize
              /\ Turn(o, i) \in DuplicateSlots
          BY <1>1, <3>1, TurnWraps
        <4>3. Turn(n, i - 1) = Turn(o, i) /\ Turn(o, i) # o
          BY <1>1, <1>2, <3>1, <3>2, <4>1, <4>2
        <4> QED
          BY <1>3, <2>2, <2>3, <2>5, <4>1, <4>2, <4>3
      <3> QED
        BY <3>3, <3>4
    <2>7. p = Append(Tail(q), f)
      BY <2>3, <2>5, <2>6, SeqEqual
    <2>8. WellFilled(w, n)
      BY <1>2, <1>3, <2>1 DEF WellFilled
    <2> QED
      BY <2>2, <2>7, <2>8 DEF p, q, w, n
  <1>5. CASE FilledBelow(r, o)
    <2>1. /\ q \in Seq(Pairs) /\ Len(q) = o
          /\ \A i \in 1..o : q[i] = r[i - 1]
      BY <1>1, <1>5, WindowOfFilling
    <2>2. /\ WellFilled(w, n)
          /\ p \in Seq(Pairs) /\ Len(p) = o + 1
          /\ \A i \in 1..(o + 1) : p[i] = w[i - 1]
      <3>1. CASE o + 1 < DuplicateSize
        <4>1. FilledBelow(w, n)
          BY <1>1, <1>2, <1>3, <1>5, <3>1 DEF FilledBelow, DuplicateSlots
        <4>2. /\ p \in Seq(Pairs) /\ Len(p) = n
              /\ \A i \in 1..n : p[i] = w[i - 1]
          BY <1>2, <1>3, <4>1, WindowOfFilling
        <4> QED
          BY <1>2, <1>3, <3>1, <4>1, <4>2 DEF WellFilled
      <3>2. CASE o + 1 = DuplicateSize
        <4>1. Filled(w)
          BY <1>1, <1>3, <1>5, <3>2 DEF Filled, FilledBelow, DuplicateSlots
        <4>2. /\ p \in Seq(Pairs) /\ Len(p) = DuplicateSize
              /\ \A i \in 1..DuplicateSize : p[i] = w[Turn(n, i - 1)]
          BY <1>2, <1>3, <4>1, WindowOfFull
        <4>3. \A i \in 1..DuplicateSize : Turn(n, i - 1) = i - 1
          <5> SUFFICES ASSUME NEW i \in 1..DuplicateSize
                       PROVE  Turn(n, i - 1) = i - 1
            OBVIOUS
          <5>1. i - 1 \in 0..DuplicateSize /\ n = 0 /\ n + (i - 1) < DuplicateSize
            BY <1>1, <1>2, <3>2
          <5> QED
            BY <1>2, <5>1, TurnWraps
        <4> QED
          BY <1>2, <1>3, <3>2, <4>1, <4>2, <4>3 DEF WellFilled
      <3> QED
        BY <1>1, <3>1, <3>2
    <2> HIDE DEF p, q
    <2>3. /\ Append(q, f) \in Seq(Pairs)
          /\ Len(Append(q, f)) = o + 1
          /\ \A i \in 1..o : Append(q, f)[i] = q[i]
          /\ Append(q, f)[o + 1] = f
      BY <2>1, AppendProperties
    <2>4. ASSUME NEW i \in 1..(o + 1)
          PROVE  p[i] = Append(q, f)[i]
      <3>1. CASE i = o + 1
        <4>1. i - 1 = o
          BY <1>1, <3>1
        <4> QED
          BY <1>3, <2>2, <2>3, <3>1, <4>1
      <3>2. CASE i # o + 1
        <4>1. i \in 1..o /\ i - 1 \in DuplicateSlots \ {o}
          BY <1>1, <3>2 DEF DuplicateSlots
        <4> QED
          BY <1>3, <2>1, <2>2, <2>3, <4>1
      <3> QED
        BY <3>1, <3>2
    <2>5. p = Append(q, f)
      BY <2>2, <2>3, <2>4, SeqEqual
    <2>6. Len(q) # DuplicateSize
      BY <1>1, <2>1
    <2> QED
      BY <2>2, <2>5, <2>6 DEF p, q, w, n
  <1> QED
    BY <1>4, <1>5 DEF WellFilled

(* A frame seen first is one more at the end of the window.                *)
LEMMA FirstIsFresh ==
    ASSUME DuplicatesInv, NEW f \in Pairs, SeenFirst(f)
    PROVE  DuplicatesInv' /\ Recent!Fresh(f)
  <1>1. /\ WellFilled(recent, oldestRecent)
        /\ recent' = [recent EXCEPT ![oldestRecent] = f]
        /\ oldestRecent' = Turn(oldestRecent, 1)
        /\ repeated' = FALSE
    BY DEF DuplicatesInv, SeenFirst, Turn
  <1>2. /\ WellFilled(recent', oldestRecent')
        /\ Window(recent', oldestRecent') =
              Append(IF Len(Window(recent, oldestRecent)) = DuplicateSize
                     THEN Tail(Window(recent, oldestRecent))
                     ELSE Window(recent, oldestRecent), f)
    BY <1>1, WritingSlides
  <1>3. /\ Remembered = Window(recent, oldestRecent)
        /\ Remembered' = Window(recent', oldestRecent')
    BY DEF Remembered, Window, Turn
  <1>4. f \notin Recent!Remembered
    BY ContainedIsRemembered DEF SeenFirst
  <1>5. DuplicatesInv'
    BY <1>1, <1>2 DEF DuplicatesInv, WellFilled, DuplicatesTypeOK, Tables
  <1> QED
    BY <1>1, <1>2, <1>3, <1>4, <1>5 DEF Recent!Fresh

(* A frame seen before leaves the window as it is.                         *)
LEMMA BeforeIsRepeat ==
    ASSUME DuplicatesInv, NEW f \in Pairs, SeenBefore(f)
    PROVE  DuplicatesInv' /\ Recent!Repeat(f)
  <1>1. DuplicatesInv' /\ Remembered' = Remembered /\ repeated' = TRUE
    BY DEF SeenBefore, DuplicatesInv, DuplicatesTypeOK, WellFilled, Filled,
           FilledBelow, Remembered
  <1>2. f \in Recent!Remembered
    BY ContainedIsRemembered DEF SeenBefore
  <1> QED
    BY <1>1, <1>2 DEF Recent!Repeat

(* A restart empties it.                                                   *)
LEMMA ForgettingClears ==
    ASSUME DuplicatesInv, ForgetFrames
    PROVE  DuplicatesInv' /\ Recent!Clear
  <1>1. /\ recent' = [i \in DuplicateSlots |-> Vacant]
        /\ oldestRecent' = 0 /\ 0 \in DuplicateSlots
        /\ repeated' = repeated
    BY DuplicatesAssumption DEF ForgetFrames, DuplicateSlots
  <1>2. recent' \in Tables
    BY <1>1 DEF Tables
  <1>3. FilledBelow(recent', oldestRecent')
    BY <1>1 DEF FilledBelow, DuplicateSlots
  <1>4. DuplicatesInv'
    BY <1>1, <1>2, <1>3 DEF DuplicatesInv, WellFilled, DuplicatesTypeOK, Tables
  <1>5. Remembered' = <<>>
    BY <1>1 DEF Remembered
  <1> QED
    BY <1>1, <1>4, <1>5 DEF Recent!Clear

(* Each step of the table keeps it well filled and is a step of the window.*)
LEMMA EveryDuplicatesStep ==
    ASSUME DuplicatesInv, [DuplicatesNext]_duplicateVars
    PROVE  DuplicatesInv' /\ [Recent!Next]_(Recent!vars)
  <1>1. CASE UNCHANGED duplicateVars
    BY <1>1 DEF duplicateVars, DuplicatesInv, DuplicatesTypeOK, WellFilled, Filled,
                FilledBelow, Remembered, Recent!vars
  <1> QED
    BY <1>1, FirstIsFresh, BeforeIsRepeat, ForgettingClears
       DEF DuplicatesNext, DuplicateSeen, Recent!Next

(* At boot the table is empty, and so is the window.                       *)
LEMMA NoDuplicatesYet ==
    ASSUME DuplicatesInit
    PROVE  DuplicatesInv /\ Recent!Init
  <1>1. /\ recent = [i \in DuplicateSlots |-> Vacant]
        /\ oldestRecent = 0 /\ 0 \in DuplicateSlots
        /\ repeated = FALSE
    BY DuplicatesAssumption DEF DuplicatesInit, DuplicateSlots
  <1>2. recent \in Tables /\ FilledBelow(recent, oldestRecent)
    BY <1>1 DEF Tables, FilledBelow, DuplicateSlots
  <1>3. Remembered = <<>>
    BY <1>1 DEF Remembered
  <1> QED
    BY <1>1, <1>2, <1>3 DEF DuplicatesInv, WellFilled, DuplicatesTypeOK, Tables, Recent!Init

(* `Duplicates::seen` calls a frame a repeat exactly when it is one of the *)
(* last DUPLICATE_TABLE_SIZE frames that were not, for every size.         *)
THEOREM ExactWindow == DuplicatesSpec => ImplementsWindow
  BY NoDuplicatesYet, EveryDuplicatesStep, PTL DEF DuplicatesSpec, ImplementsWindow, Recent!Spec
=============================================================================
