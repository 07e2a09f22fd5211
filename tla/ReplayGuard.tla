---------------------------- MODULE ReplayGuard ----------------------------
(***************************************************************************)
(* What a replay table promises: of each sender, a secured frame is taken  *)
(* exactly when its counter exceeds that of every frame taken before.      *)
(***************************************************************************)
EXTENDS Naturals

CONSTANTS Sources,   \* the extended addresses that secure frames to the device
          Counters,  \* frame counters
          Never      \* no frame of that sender was taken yet

VARIABLES best,      \* per sender, the counter of the last frame taken
          verdict    \* of the latest frame: whether it was refused as seen

vars == <<best, verdict>>

Init ==
    /\ best = [s \in Sources |-> Never]
    /\ verdict = FALSE

Take(s, c) ==
    /\ best[s] = Never \/ c > best[s]
    /\ best' = [best EXCEPT ![s] = c]
    /\ verdict' = FALSE

Refuse(s, c) ==
    /\ best[s] # Never
    /\ c <= best[s]
    /\ verdict' = TRUE
    /\ UNCHANGED best

(* A new key, or no network any more: every sender starts again.           *)
Forget ==
    /\ best' = [s \in Sources |-> Never]
    /\ UNCHANGED verdict

Next ==
    \/ \E s \in Sources, c \in Counters : Take(s, c) \/ Refuse(s, c)
    \/ Forget

Spec == Init /\ [][Next]_vars
=============================================================================
