---------------------------- MODULE RecentWindow ----------------------------
(***************************************************************************)
(* What a duplicate table promises: a frame is called a repeat exactly when*)
(* it is one of the last Size frames that were not.                        *)
(***************************************************************************)
EXTENDS Sequences, Naturals

CONSTANTS Frames,    \* what tells one application frame from another
          Size       \* how many frames the window remembers

VARIABLES window,    \* the frames remembered, oldest first
          verdict    \* of the latest frame: whether it was called a repeat

vars == <<window, verdict>>

Remembered == {window[i] : i \in DOMAIN window}

Init ==
    /\ window = <<>>
    /\ verdict = FALSE

Fresh(f) ==
    /\ f \notin Remembered
    /\ window' = Append(IF Len(window) = Size THEN Tail(window) ELSE window, f)
    /\ verdict' = FALSE

Repeat(f) ==
    /\ f \in Remembered
    /\ verdict' = TRUE
    /\ UNCHANGED window

(* A restart: the window is not kept anywhere.                             *)
Clear ==
    /\ window' = <<>>
    /\ UNCHANGED verdict

Next ==
    \/ \E f \in Frames : Fresh(f) \/ Repeat(f)
    \/ Clear

Spec == Init /\ [][Next]_vars
=============================================================================
