----------------------------- MODULE Reporting -----------------------------
(***************************************************************************)
(* One attribute the coordinator asked to hear about (`Reportable` of      *)
(* zigbee/src/zcl.rs), on its whole way out: `honour_reporting` puts a     *)
(* report in the outbox, the ring of RingQueue, and clears its mark; the   *)
(* loop of firmware/src/main.rs takes the frames out one by one; and       *)
(* firmware/src/radio.rs offers each to the driver, up to Attempts times,  *)
(* and waits for the driver's callbacks, which may come late.              *)
(*                                                                         *)
(* A frame that carries a report is the value it carries; everything else  *)
(* the device sends is Other.  RingQueue's answer is the frame in the      *)
(* radio's hand.  A time is the seconds since it, modulo the clock.        *)
(***************************************************************************)
EXTENDS RingQueue

CONSTANTS
    Settings,     \* values of the attribute
    Other,        \* any other frame
    Intervals,    \* pairs of least and greatest interval, 0 for no greatest
    Wrap,         \* the clock counts modulo this
    MaxElapsed,   \* bound: seconds from one tick to the next
    Attempts,     \* TRANSMIT_ATTEMPTS
    Failures,     \* FAILURES_BEFORE_REJOIN
    Burst         \* bound: other frames one turn puts in the outbox

ASSUME ReportingAssumption ==
    /\ Other \notin Settings /\ Values = Settings \cup {Other}
    /\ {Wrap, Attempts, Failures} \subseteq Nat \ {0}
    /\ {MaxElapsed, Burst} \subseteq Nat
    /\ Intervals \subseteq [min : 0..(Wrap - 1), max : 0..(Wrap - 1)]

VARIABLES
    value,      \* the attribute
    reporting,  \* what was asked: none, or one
    pending,    \* a change not yet reported
    quiet,      \* time since last_at
    joined,     \* Device::joined
    failures,   \* consecutive_failures
    stage,      \* of the loop: "receive", closed by the tick, or "send"
    pushed,     \* other frames of this turn
    attempt,    \* at the frame in hand, or 0 once it is dealt with
    air,        \* the frame whose outcome the driver still owes, or Nothing
    done, failed, \* TRANSMIT_DONE, TRANSMIT_FAILED
    straggler,  \* a frame overtaken by the next may still be reported on
    heard,      \* history: the value the coordinator heard last
    lost        \* history: the latest report was lost, or its listener

vars == <<ringVars, value, reporting, pending, quiet, joined, failures, stage,
          pushed, attempt, air, done, failed, straggler, heard, lost>>

attributeVars == <<value, reporting, pending, quiet>>
radioVars == <<attempt, air, done, failed, straggler>>
networkVars == <<joined, failures>>

-----------------------------------------------------------------------------
(* The outbox                                                              *)

Waiting == {Contents[i] : i \in 1..len}

(* A report let go is lost unless a later one is on its way.               *)
Losing(frame, later) ==
    lost' = (lost \/ (frame \in Settings /\ later \cap Settings = {}))

(* A frame the coordinator may have heard all the same.                    *)
LosingUnheard(frame, later) == Losing(IF frame = heard' THEN Nothing ELSE frame, later)

PushReport ==
    /\ Push(value)
    /\ lost' = FALSE

(* A frame that is no report may cost the oldest frame its place.          *)
PushOther ==
    /\ Push(Other)
    /\ UNCHANGED heard
    /\ Losing(IF len = Capacity THEN slots[head] ELSE Nothing, Waiting')

-----------------------------------------------------------------------------
(* The attribute                                                           *)

(* `publish_change` that marks what somebody asked for.                    *)
ChangeMarksIfAsked ==
    /\ stage = "receive"
    /\ value' \in Settings \ {value}
    /\ pending' = (pending \/ reporting # {})
    /\ UNCHANGED <<ringVars, reporting, quiet, networkVars, stage, pushed, radioVars,
                   heard, lost>>

(* A change that starts the interval again.                                *)
ChangeStartsInterval ==
    /\ stage = "receive"
    /\ value' \in Settings \ {value}
    /\ pending' = TRUE
    /\ quiet' = 0
    /\ UNCHANGED <<ringVars, reporting, networkVars, stage, pushed, radioVars, heard, lost>>

(* A command, the button or a ramp changes the attribute.                  *)
Change ==
    /\ stage = "receive"
    /\ value' \in Settings \ {value}
    /\ pending' = TRUE
    /\ UNCHANGED <<ringVars, reporting, quiet, networkVars, stage, pushed, radioVars,
                   heard, lost>>

ConfigureReporting ==
    /\ stage = "receive"
    /\ reporting' \in {{r} : r \in Intervals}
    /\ UNCHANGED <<ringVars, value, pending, quiet, networkVars, stage, pushed, radioVars,
                   heard, lost>>

(* `due`: the greatest interval is over, or a change has waited for the    *)
(* least one.                                                              *)
Due(age) ==
    \E r \in reporting :
        \/ r.max # 0 /\ age >= r.max
        \/ pending /\ age >= r.min

(* `honour_reporting`, on a network only.                                  *)
Tick(elapsed) ==
    /\ stage = "receive"
    /\ stage' = "send"
    /\ LET age == (quiet + elapsed) % Wrap
       IN  IF joined /\ Due(age)
           THEN PushReport /\ pending' = FALSE /\ quiet' = 0
           ELSE quiet' = age /\ UNCHANGED <<ringVars, pending, lost>>
    /\ UNCHANGED <<value, reporting, networkVars, pushed, radioVars, heard>>

(* A reply to a command, or another frame of the tick.                     *)
Traffic ==
    /\ answer = Nothing /\ pushed < Burst
    /\ PushOther
    /\ pushed' = pushed + 1
    /\ UNCHANGED <<attributeVars, networkVars, stage, radioVars>>

-----------------------------------------------------------------------------
(* Networks                                                                *)

(* The device is told to leave, or gives up a rejoin: whoever listens next *)
(* was told nothing.                                                       *)
Leave ==
    /\ stage = "receive" /\ joined
    /\ joined' = FALSE
    /\ lost' = TRUE
    /\ UNCHANGED <<ringVars, attributeVars, failures, stage, pushed, radioVars, heard>>

Join ==
    /\ stage = "receive" /\ ~joined
    /\ joined' = TRUE
    /\ UNCHANGED <<ringVars, attributeVars, failures, stage, pushed, radioVars, heard, lost>>

-----------------------------------------------------------------------------
(* The loop over the outbox                                                *)

(* `offer`: the flags are cleared and the driver gets the frame, whatever  *)
(* it still had in hand.                                                   *)
Offer(frame, n) ==
    /\ attempt' = n
    /\ done' = FALSE /\ failed' = FALSE
    /\ air' = frame
    /\ straggler' \in {straggler, straggler \/ air # Nothing}
    /\ heard' \in {heard} \cup ({air} \cap Settings)
    /\ LosingUnheard(air, Waiting' \cup {frame})

(* `next_transmission` and the first attempt at its frame.                 *)
TakeFrame ==
    /\ stage = "send" /\ attempt = 0
    /\ PopOldest
    /\ Offer(slots[head], 1)
    /\ UNCHANGED <<attributeVars, networkVars, stage, pushed>>

OutboxEmpty ==
    /\ stage = "send" /\ attempt = 0
    /\ PopNone
    /\ stage' = "receive"
    /\ pushed' = 0
    /\ UNCHANGED <<attributeVars, networkVars, radioVars, heard, lost>>

(* Refused before the last attempt: back off and offer it again.           *)
OfferAgain ==
    /\ done /\ failed /\ attempt \in 1..(Attempts - 1)
    /\ UNCHANGED ringVars
    /\ Offer(answer, attempt + 1)
    /\ UNCHANGED <<attributeVars, networkVars, stage, pushed>>

(* Delivered, or not answered in time, which counts as delivered too:      *)
(* `transmission_delivered`.                                               *)
Delivered ==
    /\ attempt > 0 /\ ~(done /\ failed)
    /\ attempt' = 0
    /\ failures' = 0
    /\ UNCHANGED <<ringVars, attributeVars, joined, stage, pushed, air, done, failed,
                   straggler, heard, lost>>

(* Refused for the last time: `transmission_failed`, and a run of failures *)
(* starts a rejoin.                                                        *)
GiveUp ==
    /\ done /\ failed /\ attempt = Attempts
    /\ attempt' = 0
    /\ UNCHANGED heard
    /\ LosingUnheard(answer, Waiting \cup {air})
    /\ IF ~joined THEN UNCHANGED networkVars
       ELSE /\ failures' = (failures + 1) % Failures
            /\ joined' = (failures' # 0)
    /\ UNCHANGED <<ringVars, attributeVars, stage, pushed, air, done, failed, straggler>>

-----------------------------------------------------------------------------
(* The driver                                                              *)

(* The frame went out: the parent has it.                                  *)
TransmitDone ==
    /\ air # Nothing
    /\ done' = TRUE
    /\ heard' = IF air \in Settings THEN air ELSE heard
    /\ air' = Nothing
    /\ UNCHANGED <<ringVars, attributeVars, networkVars, stage, pushed, attempt, failed,
                   straggler, lost>>

(* The channel was busy, or the frame or its acknowledgement was lost.     *)
TransmitFailed ==
    /\ air # Nothing
    /\ done' = TRUE /\ failed' = TRUE
    /\ heard' \in {heard} \cup ({air} \cap Settings)
    /\ air' = Nothing
    /\ LosingUnheard(air, Waiting \cup (IF attempt > 0 THEN {answer} ELSE {}))
    /\ UNCHANGED <<ringVars, attributeVars, networkVars, stage, pushed, attempt, straggler>>

(* The report on a frame overtaken by the next is taken for the next one's.*)
LateReport ==
    /\ straggler
    /\ straggler' = FALSE
    /\ done' = TRUE
    /\ failed' \in {failed, TRUE}
    /\ UNCHANGED <<ringVars, attributeVars, networkVars, stage, pushed, attempt, air,
                   heard, lost>>

-----------------------------------------------------------------------------
(* The power fails and comes back.                                         *)
Restart ==
    /\ Clear
    /\ value' \in Settings
    /\ reporting' = {} /\ pending' = FALSE /\ quiet' = 0
    /\ joined' \in BOOLEAN /\ failures' = 0
    /\ stage' = "receive" /\ pushed' = 0
    /\ attempt' = 0 /\ air' = Nothing
    /\ done' = FALSE /\ failed' = FALSE /\ straggler' = FALSE
    /\ lost' = TRUE
    /\ UNCHANGED heard

Init ==
    /\ RingInit
    /\ value \in Settings /\ heard = value
    /\ reporting = {} /\ pending = FALSE /\ quiet = 0
    /\ joined \in BOOLEAN /\ failures = 0
    /\ stage = "receive" /\ pushed = 0
    /\ attempt = 0 /\ air = Nothing
    /\ done = FALSE /\ failed = FALSE /\ straggler = FALSE
    /\ lost = FALSE

TickPasses == \E elapsed \in 1..MaxElapsed : Tick(elapsed)

Drain == TakeFrame \/ OutboxEmpty \/ OfferAgain \/ Delivered \/ GiveUp

Next ==
    \/ Change \/ ConfigureReporting \/ Tick(0) \/ TickPasses \/ Traffic
    \/ Leave \/ Join
    \/ Drain
    \/ TransmitDone \/ TransmitFailed \/ LateReport
    \/ Restart

Spec == Init /\ [][Next]_vars

(* The loop turns for ever: the radio's wait ends at its timeout at the    *)
(* latest.  A turn may be shorter than the clock can tell, but the clock   *)
(* moves on between turns again and again.                                 *)
FairSpec == Spec /\ WF_vars(Drain) /\ SF_vars(TickPasses)

-----------------------------------------------------------------------------
(* Properties                                                              *)

TypeOK ==
    /\ RingOK
    /\ {value, heard} \subseteq Settings
    /\ reporting \subseteq Intervals
    /\ quiet \in 0..(Wrap - 1)
    /\ failures \in 0..(Failures - 1)
    /\ stage \in {"receive", "send"} /\ pushed \in 0..Burst
    /\ attempt \in 0..Attempts
    /\ air \in Values \cup {Nothing}
    /\ {pending, joined, done, failed, straggler, lost} \subseteq BOOLEAN

InFlight == Waiting \cup {air} \cup (IF attempt > 0 THEN {answer} ELSE {})

(* A coordinator that has not heard the value of the attribute is owed a   *)
(* report, or one that carries this value is on its way, through changes   *)
(* behind a report, retries, late callbacks and time off the network,      *)
(* unless the latest report was lost: to a full outbox, to the radio, or   *)
(* with the network or the power.                                          *)
ReportedOrLost == value # heard => pending \/ lost \/ value \in InFlight

(* Reports go out: a change is not put off for ever by the ones after it,  *)
(* nor by a clock that wraps while a quiet attribute waits.                *)
ReportsGoOut == (pending /\ joined /\ reporting # {}) ~> (~pending \/ ~joined)
=============================================================================
