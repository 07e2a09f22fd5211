----------------------------- MODULE Duplicates -----------------------------
(***************************************************************************)
(* `Duplicates` of zigbee/src/aps.rs: a table of the last DuplicateSize    *)
(* application frames acted on, each a sender's short address and its      *)
(* application counter.  The specification implements RecentWindow.        *)
(***************************************************************************)
EXTENDS Integers, Sequences

CONSTANTS Pairs,          \* (source, counter): short addresses with octets
          DuplicateSize,  \* DUPLICATE_TABLE_SIZE
          Vacant          \* an empty slot

ASSUME DuplicatesAssumption ==
    /\ DuplicateSize \in Nat \ {0}
    /\ Vacant \notin Pairs

VARIABLES recent,         \* the slots: Vacant, or a pair
          oldestRecent,   \* the slot the next new frame takes
          repeated        \* what the latest `seen` answered

duplicateVars == <<recent, oldestRecent, repeated>>

DuplicateSlots == 0..(DuplicateSize - 1)

DuplicatesTypeOK ==
    /\ recent \in [DuplicateSlots -> Pairs \cup {Vacant}]
    /\ oldestRecent \in DuplicateSlots
    /\ repeated \in BOOLEAN

DuplicatesInit ==
    /\ recent = [i \in DuplicateSlots |-> Vacant]
    /\ oldestRecent = 0
    /\ repeated = FALSE

(* A table that looks for the counter alone.                               *)
ContainedByCounter(f) ==
    \E i \in DuplicateSlots : recent[i] # Vacant /\ recent[i].counter = f.counter

Contained(f) == \E i \in DuplicateSlots : recent[i] = f

SeenBefore(f) ==
    /\ Contained(f)
    /\ repeated' = TRUE
    /\ UNCHANGED <<recent, oldestRecent>>

(* A new frame that takes the slot after the one it should.                *)
SeenFirstSkips(f) ==
    /\ ~Contained(f)
    /\ recent' = [recent EXCEPT ![(oldestRecent * 2 + 1) % DuplicateSize] = f]
    /\ oldestRecent' = (oldestRecent + 1) % DuplicateSize
    /\ repeated' = FALSE

SeenFirst(f) ==
    /\ ~Contained(f)
    /\ recent' = [recent EXCEPT ![oldestRecent] = f]
    /\ oldestRecent' = (oldestRecent + 1) % DuplicateSize
    /\ repeated' = FALSE

(* `seen`                                                                  *)
DuplicateSeen(f) == SeenBefore(f) \/ SeenFirst(f)

(* `Duplicates::default()`, at boot only: leaving a network keeps it.      *)
ForgetFrames ==
    /\ recent' = [i \in DuplicateSlots |-> Vacant]
    /\ oldestRecent' = 0
    /\ UNCHANGED repeated

DuplicatesNext ==
    \/ \E f \in Pairs : DuplicateSeen(f)
    \/ ForgetFrames

DuplicatesSpec == DuplicatesInit /\ [][DuplicatesNext]_duplicateVars

-----------------------------------------------------------------------------
(* The frames remembered, oldest first: from the slot to be taken next     *)
(* once every slot is in use, from the first one until then.               *)
Remembered ==
    IF recent[oldestRecent] = Vacant
    THEN [i \in 1..oldestRecent |-> recent[i - 1]]
    ELSE [i \in 1..DuplicateSize |-> recent[(oldestRecent + i - 1) % DuplicateSize]]

Recent == INSTANCE RecentWindow
            WITH window <- Remembered, verdict <- repeated,
                 Frames <- Pairs, Size <- DuplicateSize

(* The table calls a frame a repeat exactly when it is one of the last     *)
(* DuplicateSize frames that were acted on, wherever the ring has wrapped. *)
ImplementsWindow == Recent!Spec
=============================================================================
