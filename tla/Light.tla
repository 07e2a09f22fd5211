------------------------------- MODULE Light -------------------------------
(***************************************************************************)
(* The switch and the brightness of the light (zigbee/src/zcl.rs `State`,  *)
(* its On/Off, Level Control and Identify commands), the local controls of *)
(* zigbee/src/device.rs, and what a tick does to them: a ramp under way is *)
(* carried forward, changes are marked for reporting, a mark is cleared by *)
(* a report (when it is due is Reporting's subject).                       *)
(*                                                                         *)
(* Only differences of instants matter to this code, so a past instant is  *)
(* its age and a deadline the time left to it, both modulo the clock.      *)
(***************************************************************************)
EXTENDS Integers

CONSTANTS
    MaxLevel,    \* MAX_LEVEL
    Second,      \* clock units in a second
    Wrap,        \* the clock counts modulo this: 2^32 milliseconds
    Rates,       \* rates of a move, RATE_UNSTATED already replaced
    Sizes,       \* sizes of a step
    Seconds,     \* how long the light is asked to identify itself
    MaxElapsed   \* bound: clock units from one tick to the next

ASSUME LightAssumption ==
    /\ MaxLevel \in Nat \ {0} /\ Second \in Nat \ {0} /\ Wrap \in Nat \ {0}
    /\ Rates \subseteq Nat \ {0} /\ Sizes \subseteq Nat
    /\ Seconds \subseteq Nat /\ MaxElapsed \in Nat

VARIABLES
    on, level,    \* the attributes
    ramp,         \* the move under way: none, or one
    pending,      \* the attributes marked for a report
    identify,     \* time left to identify_until: none, or one, however stale
    identifying,  \* what the last tick made of it
    told,         \* history: what the coordinator was last told
    held,         \* history: the brightness was last set locally
    recalled,     \* history: a scene was recalled since the ramp began
    wanted,       \* history: the coordinator asked the light to identify itself
    busy          \* history: the latest step was a command or a local change

vars == <<on, level, ramp, pending, identify, identifying,
          told, held, recalled, wanted, busy>>

rampVars == <<ramp, held, recalled>>
identifyVars == <<identify, identifying, wanted>>

Attributes == {"on_off", "level"}
Levels == 0..MaxLevel
Ages == 0..(Wrap - 1)
Ramps == [up : BOOLEAN, rate : Nat \ {0}, withOnOff : BOOLEAN, age : Ages, from : Levels]

Least(a, b) == IF a < b THEN a ELSE b
Greatest(a, b) == IF a > b THEN a ELSE b

-----------------------------------------------------------------------------
(* Settling on a brightness                                                *)

(* `publish_change`: what changed is marked for the next report.           *)
Publish(changed) == pending' = pending \cup changed

(* `settle` that marks the switch only when it went on.                    *)
SettleMarksOnlyOn(to, withOnOff) ==
    LET lit == IF withOnOff THEN to > 0 ELSE on
    IN  /\ level' = Least(to, MaxLevel)
        /\ on' = lit
        /\ Publish({a \in Attributes : \/ a = "level" /\ level' # level
                                       \/ a = "on_off" /\ lit /\ ~on})

(* `settle` that takes the brightness as it comes.                         *)
SettleUnclamped(to, withOnOff) ==
    LET lit == IF withOnOff THEN to > 0 ELSE on
    IN  /\ level' = to
        /\ on' = lit
        /\ Publish({a \in Attributes : \/ a = "level" /\ level' # level
                                       \/ a = "on_off" /\ lit # on})

(* `settle`: with the on/off variant zero switches the light off and any   *)
(* other brightness switches it on.                                        *)
Settle(to, withOnOff) ==
    LET lit == IF withOnOff THEN to > 0 ELSE on
    IN  /\ level' = Least(to, MaxLevel)
        /\ on' = lit
        /\ Publish({a \in Attributes : \/ a = "level" /\ level' # level
                                       \/ a = "on_off" /\ lit # on})

StepTo(up, size) == IF up THEN level + size ELSE Greatest(level - size, 0)

(* Where a ramp should be by now, from its starting point.                 *)
RampTo(r) ==
    LET travelled == (r.rate * r.age) \div Second
    IN  IF r.up THEN Least(r.from + travelled, MaxLevel)
        ELSE Greatest(r.from - travelled, 0)

-----------------------------------------------------------------------------
Init ==
    /\ on \in BOOLEAN
    /\ level = MaxLevel
    /\ ramp = {}
    /\ pending = {}
    /\ identify = {}
    /\ identifying = FALSE
    /\ told = [on |-> on, level |-> level]
    /\ held = FALSE
    /\ recalled = FALSE
    /\ wanted = FALSE
    /\ busy = FALSE

-----------------------------------------------------------------------------
(* Commands                                                                *)

Commanded == busy' = TRUE /\ UNCHANGED told

(* OFF, ON and TOGGLE leave the brightness and a ramp alone.               *)
Switch ==
    /\ Commanded
    /\ on' \in BOOLEAN
    /\ Publish(IF on' # on THEN {"on_off"} ELSE {})
    /\ UNCHANGED <<level, rampVars, identifyVars>>

MoveToLevel ==
    /\ Commanded
    /\ \E to \in 0..(MaxLevel + 1), withOnOff \in BOOLEAN : Settle(to, withOnOff)
    /\ ramp' = {}
    /\ held' = FALSE
    /\ UNCHANGED <<recalled, identifyVars>>

(* A step that leaves the ramp going.                                      *)
StepLevelKeepsRamp ==
    /\ Commanded
    /\ \E up, withOnOff \in BOOLEAN, size \in Sizes : Settle(StepTo(up, size), withOnOff)
    /\ held' = FALSE
    /\ UNCHANGED <<ramp, recalled, identifyVars>>

StepLevel ==
    /\ Commanded
    /\ \E up, withOnOff \in BOOLEAN, size \in Sizes : Settle(StepTo(up, size), withOnOff)
    /\ ramp' = {}
    /\ held' = FALSE
    /\ UNCHANGED <<recalled, identifyVars>>

Move ==
    /\ Commanded
    /\ ramp' \in {{[up |-> up, rate |-> rate, withOnOff |-> w, age |-> 0, from |-> level]} :
                     up \in BOOLEAN, w \in BOOLEAN, rate \in Rates}
    /\ held' = FALSE
    /\ recalled' = FALSE
    /\ UNCHANGED <<on, level, pending, identifyVars>>

Stop ==
    /\ Commanded
    /\ ramp' = {}
    /\ UNCHANGED <<on, level, pending, held, recalled, identifyVars>>

(* A scene is recalled: it lands on its brightness and its switch, and does*)
(* not stop a ramp.                                                        *)
Recall ==
    /\ Commanded
    /\ level' \in Levels
    /\ on' \in BOOLEAN
    /\ Publish({a \in Attributes : \/ a = "level" /\ level' # level
                                   \/ a = "on_off" /\ on' # on})
    /\ held' = FALSE
    /\ recalled' = TRUE
    /\ UNCHANGED <<ramp, identifyVars>>

(* The Identify command, an effect, or a write of the attribute.           *)
IdentifyFor ==
    /\ Commanded
    /\ \E seconds \in Seconds :
          /\ identify' = IF seconds > 0 THEN {(seconds * Second) % Wrap} ELSE {}
          /\ wanted' = (seconds > 0)
    /\ UNCHANGED <<on, level, pending, rampVars, identifying>>

-----------------------------------------------------------------------------
(* Local decisions                                                         *)

(* `set_on_off`, by the button or the caller.                              *)
SetOnOff ==
    /\ Commanded
    /\ on' = ~on
    /\ pending' = pending \cup {"on_off"}
    /\ UNCHANGED <<level, rampVars, identifyVars>>

(* `set_level` that returns before it abandons the ramp.                   *)
SetLevelReturnsEarly ==
    /\ Commanded
    /\ level' \in Levels
    /\ ramp' = IF level' = level THEN ramp ELSE {}
    /\ pending' = IF level' = level THEN pending ELSE pending \cup {"level"}
    /\ held' = TRUE
    /\ UNCHANGED <<on, recalled, identifyVars>>

(* `set_level`: a ramp is abandoned even when the brightness stays.        *)
SetLevel ==
    /\ Commanded
    /\ level' \in Levels
    /\ ramp' = {}
    /\ pending' = IF level' = level THEN pending ELSE pending \cup {"level"}
    /\ held' = TRUE
    /\ UNCHANGED <<on, recalled, identifyVars>>

-----------------------------------------------------------------------------
(* tick                                                                    *)

(* `reached`: a deadline is past for half the range of the clock.          *)
Reached(left) == (Wrap - left) % Wrap < (Wrap - 1) \div 2

Remaining(deadlines) ==
    IF \E left \in deadlines : ~Reached(left)
    THEN (CHOOSE left \in deadlines : TRUE) \div Second
    ELSE 0

Aged(r, elapsed) == [r EXCEPT !.age = (@ + elapsed) % Wrap]

(* `advance` that does not look whether an end was reached.                *)
AdvanceForEver(elapsed) ==
    IF ramp = {} THEN UNCHANGED <<on, level, ramp, pending>>
    ELSE \E r \in ramp :
            /\ Settle(RampTo(Aged(r, elapsed)), r.withOnOff)
            /\ ramp' = {Aged(r, elapsed)}

(* `advance`: a ramp is over once the brightness is at either end.         *)
Advance(elapsed) ==
    IF ramp = {} THEN UNCHANGED <<on, level, ramp, pending>>
    ELSE \E r \in ramp :
            /\ Settle(RampTo(Aged(r, elapsed)), r.withOnOff)
            /\ ramp' = IF level' \in {0, MaxLevel} THEN {} ELSE {Aged(r, elapsed)}

(* Identifying that is switched on by a tick and never off.                *)
IdentifyStaysOn(elapsed) ==
    /\ identify' = {(left - elapsed) % Wrap : left \in identify}
    /\ identifying' = (identifying \/ Remaining(identify') > 0)
    /\ UNCHANGED wanted

(* What is left of identifying, which the indicator shows.                 *)
Identify(elapsed) ==
    /\ identify' = {(left - elapsed) % Wrap : left \in identify}
    /\ identifying' = (Remaining(identify') > 0)
    /\ wanted' = (wanted /\ (identifying => identifying'))

Tick(elapsed) ==
    /\ busy' = FALSE
    /\ Advance(elapsed)
    /\ Identify(elapsed)
    /\ UNCHANGED <<told, held, recalled>>

(* `honour_reporting`: a report carries the value of its moment.           *)
Report ==
    /\ \E due \in SUBSET pending \ {{}} :
          /\ told' = [on    |-> IF "on_off" \in due THEN on ELSE told.on,
                      level |-> IF "level" \in due THEN level ELSE told.level]
          /\ pending' = pending \ due
    /\ busy' = FALSE
    /\ UNCHANGED <<on, level, rampVars, identifyVars>>

TickPasses == \E elapsed \in 1..MaxElapsed : Tick(elapsed)

Next ==
    \/ Switch \/ MoveToLevel \/ StepLevel \/ Move \/ Stop \/ Recall \/ IdentifyFor
    \/ SetOnOff \/ SetLevel
    \/ Tick(0) \/ TickPasses \/ Report

Spec == Init /\ [][Next]_vars

(* The loop turns for ever and the clock with it.                          *)
FairSpec == Spec /\ WF_vars(TickPasses)

-----------------------------------------------------------------------------
(* Properties                                                              *)

TypeOK ==
    /\ on \in BOOLEAN
    /\ level \in Levels
    /\ ramp \subseteq Ramps
    /\ pending \subseteq Attributes
    /\ identify \subseteq Ages
    /\ told \in [on : BOOLEAN, level : Levels]
    /\ {identifying, held, recalled, wanted, busy} \subseteq BOOLEAN

(* Whatever moved the light, a command, a ramp, a scene or a local         *)
(* decision: an attribute the coordinator was told otherwise about is      *)
(* marked for a report.                                                    *)
ChangesArePending ==
    /\ told.on # on => "on_off" \in pending
    /\ told.level # level => "level" \in pending

(* device.rs:927-930, "a local decision outranks one already in flight":   *)
(* a brightness set locally stands until a command moves it.               *)
LocalLevelHolds == [][held /\ ~busy' => level' = level]_vars

(* A ramp carries the brightness one way: it never jumps back, whatever    *)
(* came between its ticks, unless a scene was recalled over it.            *)
RampNeverRunsBack ==
    [][\A r \in ramp : ~busy' /\ ~recalled =>
           IF r.up THEN level' >= level ELSE level' <= level]_vars

(* A ramp left alone comes to its end.                                     *)
RampEnds == (ramp # {} /\ ~busy) ~> (ramp = {} \/ busy)

(* A light left identifying itself stops.                                  *)
IdentifyEnds == (identifying /\ ~busy) ~> (~identifying \/ busy)

(* zcl.rs:798-799: `advance` ends a ramp "once the brightness runs into    *)
(* either end of the range", so a tick that ends one leaves the brightness *)
(* at the end it was heading for.                                          *)
RampRunsIntoItsEnd ==
    [][\A r \in ramp : ramp' = {} /\ ~busy' =>
           level' = IF r.up THEN MaxLevel ELSE 0]_vars

(* device.rs:908-911: the device identifies itself because the coordinator *)
(* asked for it, and starts no second time for one request.                *)
IdentifiesWhenAsked == [][identifying' /\ ~identifying => wanted]_vars
=============================================================================
