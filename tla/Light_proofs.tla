---------------------------- MODULE Light_proofs ----------------------------
(***************************************************************************)
(* What holds of the switch and the brightness (Light) for every range of  *)
(* brightness, every clock, every rate, size and duration: the attributes  *)
(* stay in range, a change the coordinator was not told of is marked for a *)
(* report, a brightness set locally stands until a command moves it, and a *)
(* ramp never runs back.                                                   *)
(***************************************************************************)
EXTENDS Light, TLAPS

(* Every brightness set locally has abandoned the ramp.                    *)
HeldIsStill == held => ramp = {}

IInv == TypeOK /\ ChangesArePending /\ HeldIsStill

-----------------------------------------------------------------------------
(* Arithmetic                                                              *)

LEMMA QuotientIsNatural ==
    ASSUME NEW a \in Nat, NEW b \in Nat \ {0}
    PROVE  a \div b \in Nat
  OBVIOUS

LEMMA RemainderInRange ==
    ASSUME NEW a \in Int, NEW b \in Nat \ {0}
    PROVE  a % b \in 0..(b - 1)
  OBVIOUS

LEMMA ProductIsNatural ==
    ASSUME NEW a \in Nat, NEW b \in Nat
    PROVE  a * b \in Nat
  OBVIOUS

-----------------------------------------------------------------------------
(* Settling                                                                *)

(* `settle` keeps its brightness in range and marks what it changes.       *)
LEMMA SettleKeeps ==
    ASSUME IInv, NEW to \in Nat, NEW w \in BOOLEAN, Settle(to, w), UNCHANGED told
    PROVE  /\ level' \in Levels
           /\ on' \in BOOLEAN
           /\ pending' \subseteq Attributes
           /\ ChangesArePending'
  <1>1. level' \in Levels
    BY LightAssumption DEF Settle, Least, Levels
  <1>2. on' \in BOOLEAN
    <2>1. on' = IF w THEN to > 0 ELSE on
      BY DEF Settle
    <2>2. (to > 0) \in BOOLEAN /\ on \in BOOLEAN
      BY DEF IInv, TypeOK
    <2> QED
      BY <2>1, <2>2
  <1>3. pending' = pending \cup {a \in Attributes : \/ a = "level" /\ level' # level
                                                    \/ a = "on_off" /\ on' # on}
    BY DEF Settle, Publish
  <1>4. pending' \subseteq Attributes
    BY <1>3 DEF IInv, TypeOK
  <1>5. ASSUME told'.on # on' PROVE "on_off" \in pending'
    <2>1. CASE on' = on
      <3>1. told.on # on
        BY <1>5, <2>1, Zenon
      <3> QED
        BY <1>3, <3>1 DEF IInv, ChangesArePending
    <2>2. CASE on' # on
      <3>1. "on_off" \in Attributes
        BY DEF Attributes
      <3> QED
        BY <1>3, <2>2, <3>1
    <2> QED
      BY <2>1, <2>2
  <1>6. ASSUME told'.level # level' PROVE "level" \in pending'
    <2>1. CASE level' = level
      BY <1>3, <1>6, <2>1 DEF IInv, ChangesArePending
    <2>2. CASE level' # level
      BY <1>3, <2>2 DEF Attributes
    <2> QED
      BY <2>1, <2>2
  <1> QED
    BY <1>1, <1>2, <1>4, <1>5, <1>6 DEF ChangesArePending

(* A ramp heads for a brightness, never below zero.                        *)
LEMMA RampInRange ==
    ASSUME NEW r \in Ramps
    PROVE  RampTo(r) \in Nat
  <1> DEFINE travelled == (r.rate * r.age) \div Second
  <1>1. r.rate \in Nat /\ r.age \in Nat /\ r.from \in Nat /\ r.up \in BOOLEAN
    BY LightAssumption DEF Ramps, Ages, Levels
  <1>2. r.rate * r.age \in Nat
    BY <1>1, ProductIsNatural
  <1>3. travelled \in Nat
    BY <1>2, QuotientIsNatural, LightAssumption
  <1> HIDE DEF travelled
  <1>4. r.from + travelled \in Nat /\ r.from - travelled \in Int
    BY <1>1, <1>3
  <1>5. RampTo(r) = IF r.up THEN Least(r.from + travelled, MaxLevel)
                    ELSE Greatest(r.from - travelled, 0)
    BY DEF RampTo, travelled
  <1> QED
    BY <1>4, <1>5, LightAssumption DEF Least, Greatest

LEMMA AgedIsARamp ==
    ASSUME NEW r \in Ramps, NEW elapsed \in Nat
    PROVE  Aged(r, elapsed) \in Ramps
  <1>1. r.age + elapsed \in Int
    BY LightAssumption DEF Ramps, Ages
  <1>2. (r.age + elapsed) % Wrap \in Ages
    BY <1>1, RemainderInRange, LightAssumption DEF Ages
  <1> QED
    BY <1>2 DEF Aged, Ramps

-----------------------------------------------------------------------------
(* Every step                                                              *)

LEMMA Beginning == ASSUME Init PROVE IInv
  <1>1. level \in Levels
    BY LightAssumption DEF Init, Levels
  <1>2. told \in [on : BOOLEAN, level : Levels] /\ told.on = on /\ told.level = level
    BY <1>1 DEF Init
  <1>3. TypeOK
    BY <1>1, <1>2 DEF Init, TypeOK
  <1> QED
    BY <1>2, <1>3 DEF Init, IInv, ChangesArePending, HeldIsStill

(* A step of the ramp, and none where there is none.                       *)
LEMMA AdvanceKeeps ==
    ASSUME IInv, NEW elapsed \in Nat, Advance(elapsed), UNCHANGED told
    PROVE  /\ level' \in Levels
           /\ on' \in BOOLEAN
           /\ pending' \subseteq Attributes
           /\ ramp' \subseteq Ramps
           /\ ChangesArePending'
           /\ ramp = {} => ramp' = {} /\ level' = level
  <1>1. CASE ramp = {}
    BY <1>1 DEF Advance, IInv, TypeOK, ChangesArePending
  <1>2. CASE ramp # {}
    <2>1. PICK r \in ramp :
              /\ Settle(RampTo(Aged(r, elapsed)), r.withOnOff)
              /\ ramp' = IF level' \in {0, MaxLevel} THEN {} ELSE {Aged(r, elapsed)}
      BY <1>2 DEF Advance
    <2>2. r \in Ramps /\ r.withOnOff \in BOOLEAN
      BY DEF IInv, TypeOK, Ramps
    <2>3. Aged(r, elapsed) \in Ramps /\ RampTo(Aged(r, elapsed)) \in Nat
      BY <2>2, AgedIsARamp, RampInRange
    <2> QED
      BY <1>2, <2>1, <2>2, <2>3, SettleKeeps
  <1> QED
    BY <1>1, <1>2

LEMMA TickKeeps ==
    ASSUME IInv, NEW elapsed \in Nat, Tick(elapsed)
    PROVE  IInv' /\ (held => level' = level)
  <1>1. UNCHANGED <<told, held, recalled>> /\ busy' = FALSE
    BY DEF Tick
  <1>2. /\ level' \in Levels /\ on' \in BOOLEAN
        /\ pending' \subseteq Attributes /\ ramp' \subseteq Ramps
        /\ ChangesArePending'
        /\ ramp = {} => ramp' = {} /\ level' = level
    BY <1>1, AdvanceKeeps DEF Tick
  <1>3. identify' \subseteq Ages
    <2>1. \A left \in identify : left - elapsed \in Int
      BY LightAssumption DEF IInv, TypeOK, Ages
    <2>2. \A left \in identify : (left - elapsed) % Wrap \in Ages
      BY <2>1, RemainderInRange, LightAssumption DEF Ages
    <2> QED
      BY <2>2 DEF Tick, Identify
  <1>4. identifying' \in BOOLEAN /\ wanted' \in BOOLEAN
    BY DEF Tick, Identify, IInv, TypeOK
  <1>5. TypeOK'
    BY <1>1, <1>2, <1>3, <1>4 DEF IInv, TypeOK
  <1>6. HeldIsStill' /\ (held => level' = level)
    BY <1>1, <1>2 DEF IInv, HeldIsStill
  <1> QED
    BY <1>2, <1>5, <1>6 DEF IInv

(* A report clears the marks of what it tells.                             *)
LEMMA ReportKeeps == ASSUME IInv, Report PROVE IInv' /\ level' = level
  <1>1. PICK due \in SUBSET pending \ {{}} :
            /\ told' = [on    |-> IF "on_off" \in due THEN on ELSE told.on,
                        level |-> IF "level" \in due THEN level ELSE told.level]
            /\ pending' = pending \ due
    BY DEF Report
  <1>2. UNCHANGED <<on, level, ramp, held, recalled, identify, identifying, wanted>>
        /\ busy' = FALSE
    BY DEF Report, rampVars, identifyVars
  <1>3. told' \in [on : BOOLEAN, level : Levels] /\ pending' \subseteq Attributes
    BY <1>1 DEF IInv, TypeOK
  <1>4. TypeOK' /\ HeldIsStill'
    BY <1>2, <1>3 DEF IInv, TypeOK, HeldIsStill
  <1>5. ChangesArePending'
    BY <1>1, <1>2 DEF IInv, TypeOK, ChangesArePending
  <1> QED
    BY <1>2, <1>4, <1>5 DEF IInv

(* Commands that land on a brightness through `settle`.                    *)
LEMMA SettlingKeeps ==
    ASSUME IInv, Commanded, NEW to \in Nat, NEW w \in BOOLEAN, Settle(to, w),
           ramp' = {}, held' = FALSE, UNCHANGED <<recalled, identifyVars>>
    PROVE  IInv'
  <1>1. /\ level' \in Levels /\ on' \in BOOLEAN
        /\ pending' \subseteq Attributes /\ ChangesArePending'
    BY SettleKeeps DEF Commanded
  <1>2. TypeOK' /\ HeldIsStill'
    BY <1>1 DEF IInv, TypeOK, HeldIsStill, Commanded, identifyVars
  <1> QED
    BY <1>1, <1>2 DEF IInv

LEMMA StepToIsNatural ==
    ASSUME IInv, NEW up \in BOOLEAN, NEW size \in Sizes
    PROVE  StepTo(up, size) \in Nat
  BY LightAssumption DEF IInv, TypeOK, Levels, StepTo, Greatest

LEMMA CommandKeeps ==
    ASSUME IInv,
           Switch \/ MoveToLevel \/ StepLevel \/ Move \/ Stop \/ Recall \/ IdentifyFor
    PROVE  IInv' /\ busy'
  <1> busy' = TRUE
    BY DEF Switch, MoveToLevel, StepLevel, Move, Stop, Recall, IdentifyFor, Commanded
  <1>1. CASE Switch
    BY <1>1 DEF Switch, Commanded, Publish, IInv, TypeOK, ChangesArePending, HeldIsStill,
                Attributes, rampVars, identifyVars
  <1>2. CASE MoveToLevel
    <2>1. PICK to \in 0..(MaxLevel + 1), w \in BOOLEAN : Settle(to, w)
      BY <1>2 DEF MoveToLevel
    <2>2. to \in Nat
      BY LightAssumption
    <2> QED
      BY <1>2, <2>1, <2>2, SettlingKeeps DEF MoveToLevel
  <1>3. CASE StepLevel
    BY <1>3, SettlingKeeps, StepToIsNatural DEF StepLevel
  <1>4. CASE Move
    <2>1. PICK up \in BOOLEAN, w \in BOOLEAN, rate \in Rates :
              ramp' = {[up |-> up, rate |-> rate, withOnOff |-> w, age |-> 0, from |-> level]}
      BY <1>4 DEF Move
    <2>2. rate \in Nat \ {0} /\ 0 \in Ages /\ level \in Levels
      BY LightAssumption DEF IInv, TypeOK, Ages
    <2>3. ramp' \subseteq Ramps
      BY <2>1, <2>2 DEF Ramps
    <2> QED
      BY <1>4, <2>3 DEF Move, Commanded, IInv, TypeOK, ChangesArePending, HeldIsStill,
                        identifyVars
  <1>5. CASE Stop
    BY <1>5 DEF Stop, Commanded, IInv, TypeOK, ChangesArePending, HeldIsStill, identifyVars
  <1>6. CASE Recall
    BY <1>6 DEF Recall, Commanded, Publish, IInv, TypeOK, ChangesArePending, HeldIsStill,
                Attributes, identifyVars
  <1>7. CASE IdentifyFor
    <2>1. PICK seconds \in Seconds :
              /\ identify' = IF seconds > 0 THEN {(seconds * Second) % Wrap} ELSE {}
              /\ wanted' = (seconds > 0)
      BY <1>7 DEF IdentifyFor
    <2>2. seconds * Second \in Nat
      BY ProductIsNatural, LightAssumption
    <2>3. (seconds * Second) % Wrap \in Ages
      BY <2>2, RemainderInRange, LightAssumption DEF Ages
    <2>4. identify' \subseteq Ages /\ wanted' \in BOOLEAN
      BY <2>1, <2>3
    <2> QED
      BY <1>7, <2>4 DEF IdentifyFor, Commanded, IInv, TypeOK, ChangesArePending,
                        HeldIsStill, rampVars
  <1> QED
    BY <1>1, <1>2, <1>3, <1>4, <1>5, <1>6, <1>7

LEMMA LocalKeeps == ASSUME IInv, SetOnOff \/ SetLevel PROVE IInv' /\ busy'
  <1>1. CASE SetOnOff
    BY <1>1 DEF SetOnOff, Commanded, IInv, TypeOK, ChangesArePending, HeldIsStill,
                Attributes, rampVars, identifyVars
  <1>2. CASE SetLevel
    BY <1>2 DEF SetLevel, Commanded, IInv, TypeOK, ChangesArePending, HeldIsStill,
                Attributes, identifyVars
  <1> QED
    BY <1>1, <1>2

LEMMA EveryStep ==
    ASSUME IInv, [Next]_vars
    PROVE  IInv' /\ [held /\ ~busy' => level' = level]_vars
  <1>1. CASE Switch \/ MoveToLevel \/ StepLevel \/ Move \/ Stop \/ Recall \/ IdentifyFor
    BY <1>1, CommandKeeps
  <1>2. CASE SetOnOff \/ SetLevel
    BY <1>2, LocalKeeps
  <1>3. CASE Tick(0) \/ TickPasses
    <2>1. PICK elapsed \in Nat : Tick(elapsed)
      BY <1>3, LightAssumption DEF TickPasses
    <2> QED
      BY <2>1, TickKeeps
  <1>4. CASE Report
    BY <1>4, ReportKeeps
  <1>5. CASE UNCHANGED vars
    BY <1>5 DEF vars, rampVars, identifyVars, IInv, TypeOK, ChangesArePending, HeldIsStill
  <1> QED
    BY <1>1, <1>2, <1>3, <1>4, <1>5 DEF Next

-----------------------------------------------------------------------------
(* A ramp under way                                                        *)

(* The clock outlasts a ramp: the slowest one crosses the whole range in   *)
(* MaxLevel seconds, 254 of them against the 49 days of the clock.         *)
ClockOutlastsARamp == MaxLevel * Second + MaxElapsed <= Wrap

(* A ramp no scene was recalled over has put the brightness where it is,   *)
(* and is young: at either end of the range it would be over.              *)
OnItsWay ==
    ~recalled => \A r \in ramp : level = RampTo(r) /\ r.age < MaxLevel * Second

LEMMA ProductGrows ==
    ASSUME NEW a \in Nat, NEW b \in Nat, NEW c \in Nat, a <= b
    PROVE  c * a <= c * b
  <1>1. PICK d \in Nat : b = a + d
    <2>1. b - a \in Nat /\ b = a + (b - a)
      OBVIOUS
    <2> QED
      BY <2>1
  <1>2. c * (a + d) = c * a + c * d
    OBVIOUS
  <1>3. c * a \in Nat /\ c * d \in Nat
    BY ProductIsNatural
  <1> QED
    BY <1>1, <1>2, <1>3

LEMMA QuotientBounds ==
    ASSUME NEW a \in Nat, NEW d \in Nat \ {0}
    PROVE  /\ d * (a \div d) <= a
           /\ a < d * (a \div d + 1)
  OBVIOUS

LEMMA QuotientGrows ==
    ASSUME NEW a \in Nat, NEW b \in Nat, NEW d \in Nat \ {0}, a <= b
    PROVE  a \div d <= b \div d
  <1> DEFINE p == a \div d
             q == b \div d
  <1>1. p \in Nat /\ q \in Nat
    BY QuotientIsNatural
  <1>2. d * p <= a /\ b < d * (q + 1)
    BY QuotientBounds
  <1> HIDE DEF p, q
  <1>3. SUFFICES ASSUME q + 1 <= p PROVE FALSE
    BY <1>1 DEF p, q
  <1>4. d * (q + 1) <= d * p
    BY <1>1, <1>3, ProductGrows
  <1>5. d * (q + 1) \in Nat /\ d * p \in Nat
    BY <1>1, ProductIsNatural
  <1> QED
    BY <1>2, <1>4, <1>5

Travelled(r) == (r.rate * r.age) \div Second

LEMMA TravelledIsNatural == ASSUME NEW r \in Ramps PROVE Travelled(r) \in Nat
  <1>1. r.rate \in Nat /\ r.age \in Nat
    BY LightAssumption DEF Ramps, Ages
  <1>2. r.rate * r.age \in Nat
    BY <1>1, ProductIsNatural
  <1> QED
    BY <1>2, QuotientIsNatural, LightAssumption DEF Travelled

(* A ramp short of the whole range is younger than its slowest crossing.   *)
LEMMA ShortMeansYoung ==
    ASSUME NEW r \in Ramps, Travelled(r) < MaxLevel
    PROVE  r.age < MaxLevel * Second
  <1> DEFINE covered == r.rate * r.age
             t == Travelled(r)
  <1>1. /\ r.rate \in Nat \ {0} /\ r.age \in Nat /\ MaxLevel \in Nat
        /\ Second \in Nat \ {0}
    BY LightAssumption DEF Ramps, Ages
  <1>2. covered \in Nat /\ t \in Nat
    BY <1>1, ProductIsNatural, TravelledIsNatural
  <1>3. covered < Second * (t + 1)
    BY <1>1, <1>2, QuotientBounds DEF Travelled
  <1>4. r.age <= covered
    <2>1. r.age * 1 <= r.age * r.rate
      BY <1>1, ProductGrows
    <2> QED
      BY <1>1, <2>1
  <1> HIDE DEF covered
  <1>5. Second * (t + 1) <= Second * MaxLevel
    <2>1. t + 1 \in Nat /\ t + 1 <= MaxLevel
      BY <1>1, <1>2
    <2> HIDE DEF t
    <2> QED
      BY <1>1, <2>1, ProductGrows
  <1>6. Second * (t + 1) \in Int /\ Second * MaxLevel \in Int /\ Second * MaxLevel = MaxLevel * Second
    BY <1>1, <1>2
  <1> HIDE DEF t
  <1> QED
    BY <1>1, <1>2, <1>3, <1>4, <1>5, <1>6

(* A ramp that ages without the clock coming round is no less far.         *)
LEMMA AgeingGoesOn ==
    ASSUME ClockOutlastsARamp, NEW r \in Ramps, NEW elapsed \in 0..MaxElapsed,
           r.age < MaxLevel * Second
    PROVE  /\ Aged(r, elapsed) \in Ramps
           /\ Aged(r, elapsed).up = r.up
           /\ Aged(r, elapsed).from = r.from
           /\ Travelled(r) <= Travelled(Aged(r, elapsed))
  <1>1. Aged(r, elapsed) \in Ramps
    BY AgedIsARamp, LightAssumption
  <1>2. MaxLevel * Second \in Nat
    BY ProductIsNatural, LightAssumption
  <1>3. r.age \in Nat /\ r.rate \in Nat
    BY LightAssumption DEF Ramps, Ages
  <1>4. r.age + elapsed \in Nat /\ r.age + elapsed < Wrap
    BY <1>2, <1>3, LightAssumption DEF ClockOutlastsARamp
  <1>5. (r.age + elapsed) % Wrap = r.age + elapsed
    BY <1>4, LightAssumption
  <1>6. Aged(r, elapsed) = [r EXCEPT !.age = r.age + elapsed]
    BY <1>5 DEF Aged
  <1>7. /\ Aged(r, elapsed).up = r.up
        /\ Aged(r, elapsed).from = r.from
        /\ Aged(r, elapsed).rate = r.rate
        /\ Aged(r, elapsed).age = r.age + elapsed
    BY <1>6 DEF Ramps
  <1>8. r.rate * r.age <= r.rate * (r.age + elapsed)
    <2>1. r.age <= r.age + elapsed
      BY <1>3
    <2> QED
      BY <1>3, <1>4, <2>1, ProductGrows
  <1>9. r.rate * r.age \in Nat /\ r.rate * (r.age + elapsed) \in Nat
    BY <1>3, <1>4, ProductIsNatural
  <1>10. (r.rate * r.age) \div Second <= (r.rate * (r.age + elapsed)) \div Second
    BY <1>8, <1>9, QuotientGrows, LightAssumption
  <1> QED
    BY <1>1, <1>7, <1>10 DEF Travelled

(* Where a ramp should be, told from how far it has come.                  *)
LEMMA RampGoesThere ==
    ASSUME NEW r \in Ramps
    PROVE  /\ r.up \in BOOLEAN /\ r.from \in Levels
           /\ r.up => RampTo(r) = Least(r.from + Travelled(r), MaxLevel)
           /\ ~r.up => RampTo(r) = Greatest(r.from - Travelled(r), 0)
           /\ RampTo(r) \in Levels
  <1>1. r.up \in BOOLEAN /\ r.from \in Levels
    BY DEF Ramps
  <1>2. /\ r.up => RampTo(r) = Least(r.from + Travelled(r), MaxLevel)
        /\ ~r.up => RampTo(r) = Greatest(r.from - Travelled(r), 0)
    BY DEF RampTo, Travelled
  <1>3. RampTo(r) \in Levels
    BY <1>1, <1>2, TravelledIsNatural, LightAssumption DEF Levels, Least, Greatest
  <1> QED
    BY <1>1, <1>2, <1>3

(* A ramp that has not reached an end is short of the whole range.         *)
LEMMA BetweenTheEndsIsShort ==
    ASSUME NEW r \in Ramps, RampTo(r) \notin {0, MaxLevel}
    PROVE  Travelled(r) < MaxLevel
  BY RampGoesThere, TravelledIsNatural, LightAssumption DEF Levels, Least, Greatest

(* A ramp that is further on has taken the brightness its way.             *)
LEMMA FurtherOnIsItsWay ==
    ASSUME NEW r \in Ramps, NEW s \in Ramps, s.up = r.up, s.from = r.from,
           Travelled(r) <= Travelled(s)
    PROVE  IF r.up THEN RampTo(s) >= RampTo(r) ELSE RampTo(s) <= RampTo(r)
  BY RampGoesThere, TravelledIsNatural, LightAssumption DEF Levels, Least, Greatest

(* A ramp that begins has gone nowhere.                                    *)
LEMMA RampBegins ==
    ASSUME NEW r \in Ramps, r.age = 0
    PROVE  RampTo(r) = r.from /\ r.age < MaxLevel * Second
  <1>1. r.rate \in Nat /\ r.rate * 0 = 0 /\ 0 \div Second = 0
    BY LightAssumption DEF Ramps
  <1>2. Travelled(r) = 0
    BY <1>1 DEF Travelled
  <1>3. Travelled(r) < MaxLevel
    BY <1>2, LightAssumption
  <1> QED
    BY <1>2, <1>3, ShortMeansYoung, RampGoesThere, LightAssumption DEF Levels, Least, Greatest

(* There is at most one ramp.                                              *)
OneRamp == \A r, q \in ramp : r = q

RampInv == IInv /\ OneRamp /\ OnItsWay

LEMMA AdvanceGoesOn ==
    ASSUME RampInv, ClockOutlastsARamp, NEW elapsed \in 0..MaxElapsed, Advance(elapsed)
    PROVE  /\ OneRamp'
           /\ ~recalled => \A r \in ramp' : level' = RampTo(r) /\ r.age < MaxLevel * Second
           /\ ~recalled => \A r \in ramp : IF r.up THEN level' >= level ELSE level' <= level
  <1>1. CASE ramp = {}
    BY <1>1 DEF Advance, OneRamp
  <1>2. CASE ramp # {}
    <2>1. PICK r \in ramp :
              /\ Settle(RampTo(Aged(r, elapsed)), r.withOnOff)
              /\ ramp' = IF level' \in {0, MaxLevel} THEN {} ELSE {Aged(r, elapsed)}
      BY <1>2 DEF Advance
    <2>2. OneRamp'
      BY <2>1 DEF OneRamp
    <2> SUFFICES ASSUME ~recalled
                 PROVE  /\ \A q \in ramp' : level' = RampTo(q) /\ q.age < MaxLevel * Second
                        /\ \A q \in ramp : IF q.up THEN level' >= level ELSE level' <= level
      BY <2>2
    <2> DEFINE s == Aged(r, elapsed)
    <2>3. r \in Ramps /\ level = RampTo(r) /\ r.age < MaxLevel * Second
      BY DEF RampInv, OnItsWay, IInv, TypeOK
    <2>4. s \in Ramps /\ s.up = r.up /\ s.from = r.from /\ Travelled(r) <= Travelled(s)
      BY <2>3, AgeingGoesOn
    <2>5. level' = RampTo(s)
      <3>1. RampTo(s) \in Levels
        BY <2>4, RampGoesThere
      <3>2. level' = Least(RampTo(s), MaxLevel)
        BY <2>1 DEF Settle
      <3> QED
        BY <3>1, <3>2, LightAssumption DEF Least, Levels
    <2>6. IF r.up THEN level' >= level ELSE level' <= level
      BY <2>3, <2>4, <2>5, FurtherOnIsItsWay
    <2>7. ramp' # {} => ramp' = {s} /\ s.age < MaxLevel * Second
      <3>1. SUFFICES ASSUME ramp' # {} PROVE ramp' = {s} /\ s.age < MaxLevel * Second
        OBVIOUS
      <3>2. ramp' = {s} /\ RampTo(s) \notin {0, MaxLevel}
        BY <2>1, <2>5, <3>1
      <3> QED
        BY <2>4, <3>2, BetweenTheEndsIsShort, ShortMeansYoung
    <2>8. \A q \in ramp' : level' = RampTo(q) /\ q.age < MaxLevel * Second
      BY <2>5, <2>7
    <2>9. \A q \in ramp : q = r
      BY DEF RampInv, OneRamp
    <2> QED
      BY <2>6, <2>8, <2>9
  <1> QED
    BY <1>1, <1>2

(* A move begins where the brightness is.                                  *)
LEMMA MoveBegins == ASSUME RampInv, Move PROVE OneRamp' /\ OnItsWay'
  <1>1. PICK up \in BOOLEAN, w \in BOOLEAN, rate \in Rates :
            ramp' = {[up |-> up, rate |-> rate, withOnOff |-> w, age |-> 0, from |-> level]}
    BY DEF Move
  <1> DEFINE s == [up |-> up, rate |-> rate, withOnOff |-> w, age |-> 0, from |-> level]
  <1>2. rate \in Nat \ {0} /\ 0 \in Ages /\ level \in Levels
    BY LightAssumption DEF RampInv, IInv, TypeOK, Ages
  <1>3. s \in Ramps /\ s.age = 0 /\ s.from = level
    BY <1>2 DEF Ramps
  <1>4. RampTo(s) = level /\ s.age < MaxLevel * Second
    BY <1>3, RampBegins
  <1>5. ramp' = {s} /\ level' = level
    BY <1>1 DEF Move
  <1> HIDE DEF s
  <1>6. \A r \in ramp' : level' = RampTo(r) /\ r.age < MaxLevel * Second
    BY <1>4, <1>5
  <1>7. \A r, q \in ramp' : r = q
    BY <1>5
  <1> QED
    BY <1>6, <1>7 DEF OneRamp, OnItsWay, RampTo

LEMMA RampStep ==
    ASSUME RampInv, ClockOutlastsARamp, [Next]_vars
    PROVE  /\ RampInv'
           /\ [\A r \in ramp : ~busy' /\ ~recalled =>
                    IF r.up THEN level' >= level ELSE level' <= level]_vars
  <1>1. IInv'
    BY EveryStep DEF RampInv
  <1>2. level \in Levels /\ level >= level
    BY LightAssumption DEF RampInv, IInv, TypeOK, Levels
  <1>3. CASE Switch \/ IdentifyFor \/ SetOnOff
    <2>1. UNCHANGED <<level, ramp, recalled>> /\ busy'
      BY <1>3 DEF Switch, IdentifyFor, SetOnOff, Commanded, rampVars
    <2>2. OneRamp' /\ OnItsWay'
      BY <2>1 DEF RampInv, OneRamp, OnItsWay, RampTo
    <2> QED
      BY <1>1, <2>1, <2>2 DEF RampInv
  <1>4. CASE MoveToLevel \/ StepLevel \/ Stop \/ SetLevel
    <2>1. ramp' = {} /\ busy'
      BY <1>4 DEF MoveToLevel, StepLevel, Stop, SetLevel, Commanded
    <2> QED
      BY <1>1, <2>1 DEF RampInv, OneRamp, OnItsWay
  <1>5. CASE Move
    <2>1. busy' = TRUE
      BY <1>5 DEF Move, Commanded
    <2>2. OneRamp' /\ OnItsWay'
      BY <1>5, MoveBegins
    <2> QED
      BY <1>1, <2>1, <2>2 DEF RampInv
  <1>6. CASE Recall
    BY <1>1, <1>6 DEF RampInv, Recall, Commanded, OneRamp, OnItsWay
  <1>7. CASE Tick(0) \/ TickPasses
    <2>1. PICK elapsed \in 0..MaxElapsed : Tick(elapsed)
      BY <1>7, LightAssumption DEF TickPasses
    <2>2. Advance(elapsed) /\ recalled' = recalled
      BY <2>1 DEF Tick
    <2>3. /\ OneRamp'
          /\ ~recalled => \A r \in ramp' : level' = RampTo(r) /\ r.age < MaxLevel * Second
          /\ ~recalled => \A r \in ramp : IF r.up THEN level' >= level ELSE level' <= level
      BY <2>2, AdvanceGoesOn
    <2> QED
      BY <1>1, <2>2, <2>3 DEF RampInv, OnItsWay, RampTo
  <1>8. CASE Report
    <2>1. UNCHANGED <<level, ramp, recalled>>
      BY <1>8 DEF Report, rampVars
    <2>2. OneRamp' /\ OnItsWay'
      BY <2>1 DEF RampInv, OneRamp, OnItsWay, RampTo
    <2>3. level' >= level /\ level' <= level
      BY <1>2, <2>1 DEF Levels
    <2> QED
      BY <1>1, <2>2, <2>3 DEF RampInv
  <1>9. CASE UNCHANGED vars
    BY <1>1, <1>9 DEF vars, RampInv, OneRamp, OnItsWay, RampTo
  <1> QED
    BY <1>3, <1>4, <1>5, <1>6, <1>7, <1>8, <1>9 DEF Next

-----------------------------------------------------------------------------
(* Theorems                                                                *)

(* The attributes of the light stay in range.                              *)
THEOREM LightInRange == Spec => []TypeOK
  <1>1. IInv => TypeOK
    BY DEF IInv
  <1> QED
    BY <1>1, Beginning, EveryStep, PTL DEF Spec

(* Whatever moved the light, the coordinator is told or about to be.       *)
THEOREM LightIsReported == Spec => []ChangesArePending
  <1>1. IInv => ChangesArePending
    BY DEF IInv
  <1> QED
    BY <1>1, Beginning, EveryStep, PTL DEF Spec

(* A local brightness outranks a ramp already in flight.                   *)
THEOREM LocalLevelStands == Spec => LocalLevelHolds
  BY Beginning, EveryStep, PTL DEF Spec, LocalLevelHolds
(* A ramp never takes the brightness back, whatever came between its       *)
(* ticks, where the clock outlasts a ramp.                                 *)
THEOREM RampGoesItsWay == ASSUME ClockOutlastsARamp PROVE Spec => RampNeverRunsBack
  <1>1. Init => RampInv
    BY Beginning DEF Init, RampInv, OneRamp, OnItsWay
  <1>2. RampInv /\ [Next]_vars
          => /\ RampInv'
             /\ [\A r \in ramp : ~busy' /\ ~recalled =>
                      IF r.up THEN level' >= level ELSE level' <= level]_vars
    BY RampStep
  <1> QED
    BY <1>1, <1>2, PTL DEF Spec, RampNeverRunsBack
=============================================================================
