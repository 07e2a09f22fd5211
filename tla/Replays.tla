------------------------------ MODULE Replays ------------------------------
(***************************************************************************)
(* `Replays` of zigbee/src/nwk.rs: a table of Size senders and the highest *)
(* counter each has used.  A sender the table does not hold takes over the *)
(* slot `oldest` points at, whoever is in it, so the table is exact only   *)
(* while there are no more senders than slots.                             *)
(***************************************************************************)
EXTENDS Integers, FiniteSets

CONSTANTS Sources,   \* the extended addresses that secure frames to the device
          Counters,  \* frame counters: 0..2^32-1
          Size,      \* REPLAY_TABLE_SIZE
          Never      \* an empty slot

ASSUME ReplaysAssumption ==
    /\ Size \in Nat \ {0}
    /\ Counters \subseteq Nat
    /\ Never \notin Nat \cup [source : Sources, counter : Counters]

VARIABLES highest,   \* the slots: Never, or [source, counter]
          oldest,    \* the slot a new sender takes over
          replayed    \* what the latest `seen` answered

replayVars == <<highest, oldest, replayed>>

Slots == 0..(Size - 1)
Entry == [source : Sources, counter : Counters]

(* The slots that hold a sender.                                           *)
HeldBy(s) == {i \in Slots : highest[i] # Never /\ highest[i].source = s}

ReplaysTypeOK ==
    /\ highest \in [Slots -> Entry \cup {Never}]
    /\ oldest \in Slots
    /\ replayed \in BOOLEAN

ReplaysInit ==
    /\ highest = [i \in Slots |-> Never]
    /\ oldest = 0
    /\ replayed = FALSE

(* A counter equal to the highest passes as new.                           *)
KnownOffByOne(s, c, i) ==
    /\ i \in HeldBy(s)
    /\ \/ /\ c < highest[i].counter
          /\ replayed' = TRUE
          /\ UNCHANGED highest
       \/ /\ c >= highest[i].counter
          /\ replayed' = FALSE
          /\ highest' = [highest EXCEPT ![i] = [source |-> s, counter |-> c]]
    /\ UNCHANGED oldest

(* A sender the table holds: a counter that does not exceed the highest is *)
(* a replay, any other becomes the highest.                                *)
Known(s, c, i) ==
    /\ i \in HeldBy(s)
    /\ \/ /\ c <= highest[i].counter
          /\ replayed' = TRUE
          /\ UNCHANGED highest
       \/ /\ c > highest[i].counter
          /\ replayed' = FALSE
          /\ highest' = [highest EXCEPT ![i] = [source |-> s, counter |-> c]]
    /\ UNCHANGED oldest

(* The slot moves on before it is filled, so it reaches past the table's   *)
(* first gap and an older sender is lost early.                            *)
UnknownSkipsAhead(s, c) ==
    /\ HeldBy(s) = {}
    /\ oldest' = (oldest + 1) % Size
    /\ highest' = [highest EXCEPT ![(oldest * 2) % Size] = [source |-> s, counter |-> c]]
    /\ replayed' = FALSE

(* The slot to take over walks off the end of the table.                   *)
UnknownNeverWraps(s, c) ==
    /\ HeldBy(s) = {}
    /\ highest' = [highest EXCEPT ![oldest] = [source |-> s, counter |-> c]]
    /\ oldest' = oldest + 1
    /\ replayed' = FALSE

(* A sender the table does not hold takes over the oldest slot.            *)
Unknown(s, c) ==
    /\ HeldBy(s) = {}
    /\ highest' = [highest EXCEPT ![oldest] = [source |-> s, counter |-> c]]
    /\ oldest' = (oldest + 1) % Size
    /\ replayed' = FALSE

(* `seen`                                                                  *)
ReplaySeen(s, c) == Unknown(s, c) \/ \E i \in Slots : Known(s, c, i)

(* `Replays::default()`, on leaving and on a key switch.                   *)
ForgetSenders ==
    /\ highest' = [i \in Slots |-> Never]
    /\ oldest' = 0
    /\ UNCHANGED replayed

ReplaysNext ==
    \/ \E s \in Sources, c \in Counters : ReplaySeen(s, c)
    \/ ForgetSenders

ReplaysSpec == ReplaysInit /\ [][ReplaysNext]_replayVars

-----------------------------------------------------------------------------
(* Properties                                                              *)

(* The next slot to take over is free unless the table is full, and then   *)
(* no sender holds two slots: nothing is lost before it has to be.         *)
NothingLostEarly ==
    /\ \A i, j \in Slots :
          highest[i] # Never /\ highest[j] # Never
              /\ highest[i].source = highest[j].source => i = j
    /\ highest[oldest] # Never => \A i \in Slots : highest[i] # Never

(* Per sender, the highest counter taken, as the table knows it.           *)
Best == [s \in Sources |->
            IF HeldBy(s) = {} THEN Never
            ELSE highest[CHOOSE i \in HeldBy(s) : TRUE].counter]

Guard == INSTANCE ReplayGuard WITH best <- Best, verdict <- replayed

(* While no more than Size senders secure frames to the device, the table  *)
(* is a perfect guard: of each sender exactly the frames that exceed every *)
(* one taken before are taken, so no frame is handled twice and no fresh   *)
(* one is refused.                                                         *)
ImplementsGuard == Guard!Spec
=============================================================================
