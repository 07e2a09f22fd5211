------------------------------ MODULE Delivery ------------------------------
(***************************************************************************)
(* An application request from a sender to its effect on the light and the *)
(* acknowledgement back.  The sender repeats a request until it hears of   *)
(* it; the network loses, copies and reorders; the device refuses replayed *)
(* frames (Replays), acknowledges, and acts on what is no duplicate        *)
(* (Duplicates), and its answers wait in a queue that gives up the oldest  *)
(* until the main loop transmits.  Meanwhile the trust centre moves the    *)
(* network to its next key, and the power may fail.                        *)
(*                                                                         *)
(* The device's half is zigbee/src/device.rs, on_network_frame down to     *)
(* on_application_data; the senders and the air are its environment.       *)
(***************************************************************************)
EXTENDS Replays, Duplicates

CONSTANTS
    Modulus,      \* the application counter is an octet: 256
    Elsewhere,    \* how many frames a sender may send others between two requests
    Report,       \* a frame the device queues of its own accord
    OutboxCapacity, \* OUTBOX_CAPACITY
    Requests,     \* bound: how many requests each sender has
    CounterBound, \* bound: a sender's frame counter
    Troubles      \* bound: losses, copies, hasty repeats, reports and power cuts

Keys == {1, 2}    \* the network key in use at the start, and the next one

VARIABLES
    stage,     \* the main loop: "receive", "transmit"
    outbox,    \* the device's queued frames, oldest first
    rotation,  \* what the trust centre has said of the next key, if anything
    inUse,     \* the device's network key
    held,      \* whether it holds the next one: next_network_key
    asked,     \* per sender: the number of its latest request
    aps,       \* per sender: its application counter
    nwk,       \* per sender: [key, counter] of its latest secured frame
    waiting,   \* per sender: whether the latest request is unanswered
    air,       \* frames on their way to the device
    answers,   \* acknowledgements on their way back
    acts,      \* history: the requests this boot acted on, in order
    done,      \* history: the requests any boot acted on
    taken,     \* history: per sender and key, the highest counter this boot took
    troubles   \* history: losses, copies, hasty repeats, reports, power cuts

senderVars == <<asked, aps, nwk, waiting>>
keyVars == <<rotation, inUse, held>>
historyVars == <<acts, done, taken>>
tableVars == <<replayVars, duplicateVars>>
vars == <<stage, outbox, keyVars, senderVars, air, answers, historyVars, troubles, tableVars>>

Acks == [source : Sources, counter : 0..(Modulus - 1)]

ASSUME DeliveryAssumption ==
    /\ Modulus \in Nat \ {0} /\ Elsewhere \subseteq Nat
    /\ OutboxCapacity \in Nat \ {0}
    /\ Report \notin Acks /\ Acks \subseteq Pairs
    /\ Requests \in [Sources -> Nat]
    /\ CounterBound \in Nat /\ 0..CounterBound \subseteq Counters
    /\ Troubles \in Nat

Frame(s) == [source |-> s, key |-> nwk[s].key, counter |-> nwk[s].counter,
             aps |-> aps[s], request |-> asked[s]]
AckOf(f) == [source |-> f.source, counter |-> f.aps]

(* The sender's next secured frame.                                        *)
Advanced(s) == [nwk EXCEPT ![s] = [key |-> @.key, counter |-> @.counter + 1]]

NothingOnItsWay(s) ==
    /\ \A f \in air : f.source # s
    /\ \A ack \in answers : ack.source # s
    /\ \A i \in DOMAIN outbox : outbox[i] # Report => outbox[i].source # s

Pushed(frame) ==
    Append(IF Len(outbox) = OutboxCapacity THEN Tail(outbox) ELSE outbox, frame)

Trouble ==
    /\ troubles < Troubles
    /\ troubles' = troubles + 1

-----------------------------------------------------------------------------
TypeOK ==
    /\ ReplaysTypeOK /\ DuplicatesTypeOK
    /\ stage \in {"receive", "transmit"}
    /\ rotation \in {"none", "handed out", "switching"}
    /\ inUse \in Keys /\ held \in BOOLEAN
    /\ \A s \in Sources : asked[s] \in 0..Requests[s]
    /\ aps \in [Sources -> 0..(Modulus - 1)]
    /\ \A s \in Sources : nwk[s].key \in Keys /\ nwk[s].counter \in Counters
    /\ waiting \in [Sources -> BOOLEAN]
    /\ Len(outbox) <= OutboxCapacity
    /\ answers \subseteq Acks

Init ==
    /\ ReplaysInit /\ DuplicatesInit
    /\ stage = "receive"
    /\ outbox = <<>>
    /\ rotation = "none"
    /\ inUse = 1
    /\ held = FALSE
    /\ asked = [s \in Sources |-> 0]
    /\ aps = [s \in Sources |-> 0]
    /\ nwk = [s \in Sources |-> [key |-> 1, counter |-> 0]]
    /\ waiting = [s \in Sources |-> FALSE]
    /\ air = {}
    /\ answers = {}
    /\ acts = <<>>
    /\ done = {}
    /\ taken = [s \in Sources |-> [k \in Keys |-> -1]]
    /\ troubles = 0

-----------------------------------------------------------------------------
(* The senders                                                             *)

Ask(s) ==
    /\ ~waiting[s] /\ asked[s] < Requests[s]
    /\ nwk[s].counter < CounterBound
    /\ asked' = [asked EXCEPT ![s] = @ + 1]
    /\ \E n \in Elsewhere : aps' = [aps EXCEPT ![s] = (@ + 1 + n) % Modulus]
    /\ nwk' = Advanced(s)
    /\ waiting' = [waiting EXCEPT ![s] = TRUE]
    /\ air' = air \cup {Frame(s)'}
    /\ UNCHANGED <<stage, outbox, keyVars, answers, historyVars, troubles, tableVars>>

(* The same request in a new secured frame, once its answer is overdue.    *)
Repeat(s) ==
    /\ waiting[s]
    /\ \/ NothingOnItsWay(s) /\ UNCHANGED troubles
       \/ ~NothingOnItsWay(s) /\ Trouble
    /\ nwk[s].counter < CounterBound
    /\ nwk' = Advanced(s)
    /\ air' = air \cup {[Frame(s) EXCEPT !.counter = @ + 1]}
    /\ UNCHANGED <<stage, outbox, keyVars, asked, aps, waiting, answers, historyVars, tableVars>>

Answered(s) ==
    /\ \E ack \in answers :
          /\ ack.source = s
          /\ answers' = answers \ {ack}
          /\ waiting' = [waiting EXCEPT ![s] = @ /\ ack.counter # aps[s]]
    /\ UNCHANGED <<stage, outbox, keyVars, asked, aps, nwk, air, historyVars, troubles, tableVars>>

(* A sender moves to the next key and starts its counter over under it.    *)
MoveToNextKey(s) ==
    /\ rotation = "switching" /\ nwk[s].key = 1
    /\ nwk' = [nwk EXCEPT ![s] = [key |-> 2, counter |-> 0]]
    /\ UNCHANGED <<stage, outbox, keyVars, asked, aps, waiting, air, answers,
                   historyVars, troubles, tableVars>>

-----------------------------------------------------------------------------
(* The air                                                                 *)

LoseFrame ==
    /\ Trouble
    /\ \E f \in air : air' = air \ {f}
    /\ UNCHANGED <<stage, outbox, keyVars, senderVars, answers, historyVars, tableVars>>

LoseAnswer ==
    /\ Trouble
    /\ \E ack \in answers : answers' = answers \ {ack}
    /\ UNCHANGED <<stage, outbox, keyVars, senderVars, air, historyVars, tableVars>>

(* What arrives is gone, unless the air keeps a copy of it.                *)
Arrives(f) ==
    \/ air' = air \ {f} /\ UNCHANGED troubles
    \/ UNCHANGED air /\ Trouble

-----------------------------------------------------------------------------
(* The device                                                              *)

(* The key in use, and the held one until the switch.                      *)
Readable(f) == f.key = inUse \/ (held /\ f.key = 2)

Deaf(f) ==
    /\ stage = "receive"
    /\ ~Readable(f)
    /\ air' = air \ {f}
    /\ UNCHANGED <<stage, outbox, keyVars, senderVars, answers, historyVars, troubles, tableVars>>

Replayed(f) ==
    /\ stage = "receive"
    /\ Readable(f)
    /\ ReplaySeen(f.source, f.counter)
    /\ replayed'
    /\ Arrives(f)
    /\ UNCHANGED <<stage, keyVars, senderVars, answers, historyVars,
                   duplicateVars, outbox>>

(* The frame is new to the replay table.                                   *)
Takes(f) ==
    /\ stage = "receive"
    /\ Readable(f)
    /\ ReplaySeen(f.source, f.counter)
    /\ ~replayed'
    /\ taken' = [taken EXCEPT ![f.source][f.key] = f.counter]
    /\ Arrives(f)
    /\ UNCHANGED <<stage, keyVars, senderVars, answers>>

(* `on_application_data` that answers only what it acts on.                *)
RepeatedInSilence(f) ==
    /\ Takes(f)
    /\ SeenBefore(AckOf(f))
    /\ UNCHANGED <<outbox, acts, done>>

(* A repeat is acknowledged again and not acted on.                        *)
Repeated(f) ==
    /\ Takes(f)
    /\ outbox' = Pushed(AckOf(f))
    /\ SeenBefore(AckOf(f))
    /\ UNCHANGED <<acts, done>>

(* `on_application_data` that forgets to note what it acts on.             *)
ActedOnUnnoted(f) ==
    /\ Takes(f)
    /\ outbox' = Pushed(AckOf(f))
    /\ ~Contained(AckOf(f))
    /\ acts' = Append(acts, <<f.source, f.request>>)
    /\ done' = done \cup {<<f.source, f.request>>}
    /\ UNCHANGED duplicateVars

ActedOn(f) ==
    /\ Takes(f)
    /\ outbox' = Pushed(AckOf(f))
    /\ SeenFirst(AckOf(f))
    /\ acts' = Append(acts, <<f.source, f.request>>)
    /\ done' = done \cup {<<f.source, f.request>>}

Receive == \E f \in air : Deaf(f) \/ Replayed(f) \/ Repeated(f) \/ ActedOn(f)

(* The trust centre hands out the next key, and the device holds it.       *)
HoldKey ==
    /\ stage = "receive" /\ rotation = "none"
    /\ rotation' = "handed out"
    /\ held' = TRUE
    /\ UNCHANGED <<stage, outbox, inUse, senderVars, air, answers, historyVars, troubles,
                   tableVars>>

AnnounceSwitch ==
    /\ rotation = "handed out"
    /\ rotation' = "switching"
    /\ UNCHANGED <<stage, outbox, inUse, held, senderVars, air, answers, historyVars,
                   troubles, tableVars>>

(* The switch command: the held key is the one in use from now on.         *)
SwitchKey ==
    /\ stage = "receive" /\ rotation = "switching" /\ held
    /\ inUse' = 2
    /\ held' = FALSE
    /\ ForgetSenders
    /\ UNCHANGED <<stage, rotation, senderVars, air, answers, historyVars, troubles,
                   duplicateVars, outbox>>

(* The tick, which may queue a report, closes the drain.                   *)
Tick ==
    /\ stage = "receive"
    /\ stage' = "transmit"
    /\ \/ outbox' = Pushed(Report) /\ Trouble
       \/ UNCHANGED <<outbox, troubles>>
    /\ UNCHANGED <<keyVars, senderVars, air, answers, historyVars, tableVars>>

Transmit ==
    /\ stage = "transmit"
    /\ outbox # <<>>
    /\ outbox' = Tail(outbox)
    /\ \/ answers' = answers \cup ({Head(outbox)} \cap Acks) /\ UNCHANGED troubles
       \/ Head(outbox) \in Acks /\ Trouble /\ UNCHANGED answers
    /\ UNCHANGED <<stage, keyVars, senderVars, air, historyVars,
                   replayVars, duplicateVars>>

Transmitted ==
    /\ stage = "transmit"
    /\ outbox = <<>>
    /\ stage' = "receive"
    /\ UNCHANGED <<outbox, keyVars, senderVars, air, answers, historyVars, troubles,
                   replayVars, duplicateVars>>

(* The power fails and comes back: of all this only the key in use is in   *)
(* flash, and a boot starts with empty tables and no next key.             *)
PowerCut ==
    /\ Trouble
    /\ ForgetSenders /\ ForgetFrames
    /\ outbox' = <<>>
    /\ stage' = "receive"
    /\ acts' = <<>>
    /\ taken' = [s \in Sources |-> [k \in Keys |-> -1]]
    /\ held' = FALSE
    /\ UNCHANGED <<rotation, inUse, senderVars, air, answers, done>>

-----------------------------------------------------------------------------
Sender == \E s \in Sources : Ask(s) \/ Repeat(s) \/ Answered(s) \/ MoveToNextKey(s)
Device == Receive \/ HoldKey \/ SwitchKey \/ Tick \/ Transmit \/ Transmitted

Next == Sender \/ AnnounceSwitch \/ LoseFrame \/ LoseAnswer \/ Device \/ PowerCut

(* The air loses only so many, a sender repeats what is overdue and moves  *)
(* to a key that was announced, what is on the way arrives, the switch     *)
(* command is repeated until heard, and the main loop keeps turning.       *)
Fairness ==
    /\ \A s \in Sources : WF_vars(Repeat(s) /\ NothingOnItsWay(s))
                          /\ WF_vars(Answered(s)) /\ WF_vars(MoveToNextKey(s))
    /\ SF_vars(Receive)
    /\ WF_vars(Tick) /\ WF_vars(Transmit) /\ WF_vars(Transmitted)
    /\ SF_vars(SwitchKey)

Spec == Init /\ [][Next]_vars /\ Fairness

-----------------------------------------------------------------------------
(* Properties                                                              *)

(* zigbee/tests/duplicates.rs: "the same frame twice moves the brightness  *)
(* once".  However its frames are repeated, copied and reordered, and      *)
(* across a change of key, a request is acted on again only by another     *)
(* boot, or once DuplicateSize others were acted on since.                 *)
NotTwiceInAWindow ==
    \A i, j \in DOMAIN acts : i < j /\ acts[i] = acts[j] => j - i > DuplicateSize

(* A sender that has been told its request arrived has been told the truth:*)
(* some boot of the light acted on it.                                     *)
AnsweredWasDone ==
    \A s \in Sources : \A r \in 1..Requests[s] :
        r < asked[s] \/ (r = asked[s] /\ ~waiting[s]) => <<s, r>> \in done

(* The next key is not in flash, so a restart between the key and the      *)
(* switch leaves the device on a key the network gives up.                 *)
LeftBehind == rotation = "switching" /\ inUse = 1 /\ ~held

(* zigbee/tests/duplicates.rs: "a repeat is acknowledged again because the *)
(* first answer was lost".  A sender that keeps asking is answered in the  *)
(* end, through losses, full queues, a change of key and a restart, unless *)
(* a restart in the middle of a rotation has left the device behind.       *)
AnsweredInTheEnd == \A s \in Sources : waiting[s] ~> ~waiting[s] \/ LeftBehind

(* zigbee/README.md:84-86: "both keys are live in between and frames sent  *)
(* under either are still read".  A frame the device holds the key of is   *)
(* refused only if a later one of its sender was taken under that key.     *)
FreshIsRead ==
    [][ \A f \in air : Replayed(f) => taken[f.source][f.key] >= f.counter ]_vars
=============================================================================
