--------------------------- MODULE Scenes_proofs ---------------------------
(***************************************************************************)
(* Flash follows the tables in memory, a scene said to be live is the light*)
(* as it shows, and the tables implement SceneBook, for tables, queues and *)
(* bursts of every size.                                                   *)
(***************************************************************************)
EXTENDS Scenes, SequenceTheorems, FiniteSetTheorems, WellFoundedInduction, TLAPS

Events == {Other, Left} \cup {TablesChanged(t) : t \in TableType}

(* The last event of a queue that carries the tables.                      *)
Newest(q, i) == /\ q[i].kind = "tables"
                /\ \A j \in 1..Len(q) : j > i => q[j].kind # "tables"

Silent(q) == \A i \in 1..Len(q) : q[i].kind # "tables"

(* What a queue says last of the tables is t.                              *)
Said(q, t) == \A i \in 1..Len(q) : Newest(q, i) => q[i].tables = t

(* Flash is on its way to the tables in memory: by an event, by the write  *)
(* under way, or it is there already.                                      *)
Follows ==
    /\ Said(events, Tables)
    /\ Silent(events) => \/ saving = {Tables}
                         \/ saving = {} /\ (stale \/ Stored = Tables)

TurnsOK ==
    /\ events \in Seq(Events)
    /\ saving # {} => stage = "events"
    /\ stage = "receive" /\ handled = 0 => events = <<>>
    /\ \A a, b \in flash : a = b
    /\ \A a, b \in saving : a = b

IInv == TypeOK /\ TurnsOK /\ Follows

-----------------------------------------------------------------------------
(* The event queue                                                         *)

(* The queue after a raise is the end of the queue before it and what was  *)
(* raised; what it gave up made flash stale if it carried the tables.      *)
LEMMA RaiseKeepsTheEnd ==
    ASSUME events \in Seq(Events), NEW raised \in Seq(Events), Raise(raised)
    PROVE  LET all == events \o raised IN
           \E over \in 0..Len(all) :
              /\ events' \in Seq(Events)
              /\ Len(events') <= EventCapacity
              /\ Len(events') = Len(all) - over
              /\ \A k \in 1..Len(events') : events'[k] = all[over + k]
              /\ Len(raised) = 1 => Len(events') >= 1
              /\ stale' = (stale \/ \E i \in 1..over : all[i].kind = "tables")
  <1> DEFINE all == events \o raised
             over == Len(all) - Least(Len(all), EventCapacity)
  <1>1. /\ all \in Seq(Events) /\ Len(all) \in Nat
        /\ Len(all) = Len(events) + Len(raised)
        /\ Len(events) \in Nat
    BY ConcatProperties
  <1>2. EventCapacity \in Nat /\ EventCapacity > 0
    BY ScenesAssumption
  <1> HIDE DEF all
  <1>3. over \in 0..Len(all) /\ Len(all) - over <= EventCapacity
        /\ (Len(all) >= 1 => Len(all) - over >= 1)
    <2> DEFINE n == Len(all)
    <2>1. n \in Nat
      BY <1>1
    <2> HIDE DEF n
    <2>2. over = IF n < EventCapacity THEN 0 ELSE n - EventCapacity
      BY <1>2, <2>1 DEF n, Least
    <2> HIDE DEF over
    <2>3. over \in 0..n /\ n - over <= EventCapacity /\ (n >= 1 => n - over >= 1)
      BY <1>2, <2>1, <2>2
    <2> QED
      BY <2>3 DEF n
  <1>4. events' = SubSeq(all, over + 1, Len(all))
        /\ stale' = (stale \/ \E i \in 1..over : all[i].kind = "tables")
    BY DEF Raise, all
  <1> HIDE DEF over
  <1>5. /\ events' \in Seq(Events)
        /\ Len(events') = Len(all) - over
        /\ \A k \in 1..(Len(all) - over) : events'[k] = all[over + k]
    <2>1. over + 1 \in 1..(Len(all) + 1) /\ over \in Nat
      BY <1>1, <1>3
    <2> QED
      BY <1>1, <1>3, <1>4, <2>1, SubSeqProperties
  <1>6. Len(raised) = 1 => Len(events') >= 1
    BY <1>1, <1>3, <1>5
  <1>7. \E o \in 0..Len(all) :
              /\ events' \in Seq(Events)
              /\ Len(events') <= EventCapacity
              /\ Len(events') = Len(all) - o
              /\ \A k \in 1..Len(events') : events'[k] = all[o + k]
              /\ Len(raised) = 1 => Len(events') >= 1
              /\ stale' = (stale \/ \E i \in 1..o : all[i].kind = "tables")
    BY <1>3, <1>4, <1>5, <1>6
  <1> QED
    BY <1>7 DEF all

(* Every event is one of three kinds.                                      *)
LEMMA Kinds ==
    /\ Other \in Events /\ Other.kind # "tables"
    /\ Left \in Events /\ Left.kind # "tables"
    /\ \A t \in TableType : /\ TablesChanged(t) \in Events
                            /\ TablesChanged(t).kind = "tables"
                            /\ TablesChanged(t).tables = t
    /\ \A e \in Events : e.kind = "tables" => e.tables \in TableType
  <1>1. Other.kind = "other" /\ Left.kind = "left"
    BY DEF Other, Left
  <1>2. \A t \in TableType : TablesChanged(t).kind = "tables" /\ TablesChanged(t).tables = t
    BY DEF TablesChanged
  <1>3. /\ Other \in Events /\ Left \in Events
        /\ \A t \in TableType : TablesChanged(t) \in Events
    BY DEF Events
  <1>4. \A e \in Events : e.kind = "tables" => \E t \in TableType : e = TablesChanged(t)
    BY <1>1 DEF Events
  <1> QED
    BY <1>1, <1>2, <1>3, <1>4

(* An event that carries the tables says what they are.                    *)
LEMMA RaiseTables ==
    ASSUME events \in Seq(Events), Tables' \in TableType,
           Raise(<<TablesChanged(Tables')>>)
    PROVE  /\ events' \in Seq(Events) /\ Len(events') <= EventCapacity
           /\ stale \in BOOLEAN => stale' \in BOOLEAN
           /\ Said(events', Tables') /\ ~Silent(events')
  <1> DEFINE e == TablesChanged(Tables')
             all == events \o <<e>>
  <1>1. e \in Events /\ e.kind = "tables" /\ e.tables = Tables'
    BY Kinds
  <1>2. <<e>> \in Seq(Events) /\ Len(<<e>>) = 1 /\ <<e>>[1] = e
    BY <1>1
  <1>3. PICK over \in 0..Len(all) :
              /\ events' \in Seq(Events)
              /\ Len(events') <= EventCapacity
              /\ Len(events') = Len(all) - over
              /\ \A k \in 1..Len(events') : events'[k] = all[over + k]
              /\ Len(events') >= 1
              /\ stale' = (stale \/ \E i \in 1..over : all[i].kind = "tables")
    BY <1>2, RaiseKeepsTheEnd
  <1>4. Len(all) = Len(events) + 1 /\ all[Len(events) + 1] = e /\ Len(events) \in Nat
    BY <1>2, ConcatProperties
  <1> HIDE DEF all, e
  <1>5. events'[Len(events')] = e /\ Len(events') \in 1..Len(events')
    BY <1>3, <1>4
  <1>6. Said(events', Tables')
    BY <1>1, <1>3, <1>5 DEF Said, Newest
  <1> QED
    BY <1>1, <1>3, <1>5, <1>6 DEF Silent

(* Events that carry no tables leave what is said of them, unless the      *)
(* queue gave it up for them.                                              *)
LEMMA RaiseNoTables ==
    ASSUME IInv, stage = "receive", NEW raised \in Seq(Events), Silent(raised),
           Raise(raised), Tables' = Tables, UNCHANGED <<flash, saving>>
    PROVE  /\ events' \in Seq(Events) /\ Len(events') <= EventCapacity
           /\ stale' \in BOOLEAN
           /\ Follows'
  <1> DEFINE all == events \o raised
  <1>1. /\ events \in Seq(Events) /\ saving = {} /\ stale \in BOOLEAN
        /\ Said(events, Tables)
        /\ Silent(events) => stale \/ Stored = Tables
    BY DEF IInv, TurnsOK, TypeOK, Follows
  <1>2. PICK over \in 0..Len(all) :
              /\ events' \in Seq(Events)
              /\ Len(events') <= EventCapacity
              /\ Len(events') = Len(all) - over
              /\ \A k \in 1..Len(events') : events'[k] = all[over + k]
              /\ stale' = (stale \/ \E i \in 1..over : all[i].kind = "tables")
    BY <1>1, RaiseKeepsTheEnd
  <1>3. /\ Len(all) = Len(events) + Len(raised)
        /\ Len(events) \in Nat /\ Len(raised) \in Nat
        /\ \A i \in 1..Len(events) : all[i] = events[i]
        /\ \A i \in (Len(events) + 1)..(Len(events) + Len(raised)) :
              all[i] = raised[i - Len(events)]
    BY <1>1, ConcatProperties
  <1> HIDE DEF all
  <1>4. \A i \in 1..Len(all) : all[i].kind = "tables" => i \in 1..Len(events)
    <2> SUFFICES ASSUME NEW i \in 1..Len(all), i \notin 1..Len(events)
                 PROVE  all[i].kind # "tables"
      OBVIOUS
    <2>1. i \in (Len(events) + 1)..(Len(events) + Len(raised))
          /\ i - Len(events) \in 1..Len(raised)
      BY <1>3
    <2> QED
      BY <1>3, <2>1 DEF Silent
  <1>5. Said(events', Tables)
    <2> SUFFICES ASSUME NEW i \in 1..Len(events'), Newest(events', i)
                 PROVE  events'[i].tables = Tables
      BY DEF Said
    <2>1. over + i \in 1..Len(all) /\ events'[i] = all[over + i]
      BY <1>2, <1>3
    <2>2. over + i \in 1..Len(events) /\ events'[i] = events[over + i]
      BY <1>3, <1>4, <2>1 DEF Newest
    <2>3. ASSUME NEW j \in 1..Len(events), j > over + i
          PROVE  events[j].kind # "tables"
      <3>1. j - over \in 1..Len(events') /\ j - over > i /\ over + (j - over) = j
        BY <1>2, <1>3, <2>3
      <3>2. events'[j - over] = events[j]
        BY <1>2, <1>3, <3>1
      <3> QED
        BY <3>1, <3>2 DEF Newest
    <2>4. Newest(events, over + i)
      BY <2>2, <2>3 DEF Newest
    <2> QED
      BY <1>1, <2>2, <2>4 DEF Said
  <1>6. Silent(events') => stale' \/ Stored = Tables
    <2> SUFFICES ASSUME Silent(events'), ~Silent(events)
                 PROVE  stale'
      BY <1>1, <1>2
    <2>1. PICK i \in 1..Len(events) : events[i].kind = "tables"
      BY DEF Silent
    <2>2. i \in 1..over
      <3> SUFFICES ASSUME i > over
                   PROVE  FALSE
        BY <1>2, <1>3
      <3>1. i - over \in 1..Len(events') /\ over + (i - over) = i
        BY <1>2, <1>3
      <3>2. events'[i - over] = events[i]
        BY <1>2, <1>3, <3>1
      <3> QED
        BY <2>1, <3>1, <3>2 DEF Silent
    <2> QED
      BY <1>2, <1>3, <2>1, <2>2
  <1>7. stale' \in BOOLEAN
    BY <1>1, <1>2
  <1> QED
    BY <1>1, <1>2, <1>5, <1>6, <1>7 DEF Follows, Stored

-----------------------------------------------------------------------------
(* Commands                                                                *)

(* What a tables command makes of the tables are tables.                   *)
LEMMA TablesStayWellFormed ==
    ASSUME Tables \in TableType,
           \/ AddGroup \/ RemoveGroup \/ RemoveAllGroups \/ WriteStartup
           \/ RemoveScene \/ RemoveScenesOf
    PROVE  Tables' \in TableType
  <1> DEFINE GroupTables == [1..MaxGroups -> Groups \cup {NoGroup}]
             SceneTables == [1..MaxScenes -> Entries \cup {Empty}]
  <1>1. groups \in GroupTables /\ scenes \in SceneTables
    BY DEF Tables, TableType
  <1>2. SUFFICES groups' \in GroupTables /\ scenes' \in SceneTables
    BY DEF Tables, TableType
  <1>3. CASE AddGroup
    BY <1>1, <1>3 DEF AddGroup, JoinGroup
  <1>4. CASE RemoveGroup
    BY <1>1, <1>4 DEF RemoveGroup, LeaveGroup, ForgetScenesOf
  <1>5. CASE RemoveAllGroups
    BY <1>1, <1>5 DEF RemoveAllGroups, Blank, ForgetScenesOf
  <1>6. CASE WriteStartup
    BY <1>1, <1>6 DEF WriteStartup
  <1>7. CASE RemoveScene
    BY <1>1, <1>7 DEF RemoveScene
  <1>8. CASE RemoveScenesOf
    BY <1>1, <1>8 DEF RemoveScenesOf, ForgetScenesOf
  <1> QED
    BY <1>3, <1>4, <1>5, <1>6, <1>7, <1>8

(* A boot starts from settings of the light.                               *)
LEMMA FreshIsASetting == Fresh \in Settings
  BY ScenesAssumption DEF Fresh, Settings

(* So are the tables a scene is stored in.                                 *)
LEMMA StoringKeepsTables ==
    ASSUME Tables \in TableType, light \in Settings, StoreScene
    PROVE  Tables' \in TableType
  <1>1. PICK group \in Groups \cup {NoGroup}, id \in Ids, setting \in {light, Fresh} :
             PutScene([group |-> group, id |-> id, setting |-> setting])
    BY DEF StoreScene
  <1> DEFINE e == [group |-> group, id |-> id, setting |-> setting]
  <1>2. e \in Entries
    BY FreshIsASetting DEF Entries
  <1> HIDE DEF e
  <1>3. \/ scenes' = scenes
        \/ \E i : scenes' = [scenes EXCEPT ![i] = e]
    BY <1>1 DEF PutScene, e
  <1>4. scenes \in [1..MaxScenes -> Entries \cup {Empty}]
    BY DEF Tables, TableType
  <1>5. scenes' \in [1..MaxScenes -> Entries \cup {Empty}]
    BY <1>2, <1>3, <1>4
  <1> QED
    BY <1>5 DEF StoreScene, Tables, TableType

(* A command that touches the tables offers them.                          *)
LEMMA TableCommandKeeps ==
    ASSUME IInv, Tables' \in TableType, TableCommand
    PROVE  IInv'
  <1>1. /\ events' \in Seq(Events) /\ Len(events') <= EventCapacity
        /\ stale' \in BOOLEAN
        /\ Said(events', Tables') /\ ~Silent(events')
    BY RaiseTables DEF IInv, TurnsOK, TypeOK, TableCommand
  <1>2. /\ stage = "receive" /\ stage' = stage /\ handled' = handled + 1
        /\ handled' \in 0..Burst /\ handled' # 0
        /\ flash' = flash /\ saving' = saving
        /\ UNCHANGED <<light, turning, valid, recalled>>
    BY ScenesAssumption DEF IInv, TypeOK, TableCommand, Command
  <1>3. TypeOK'
    BY <1>1, <1>2 DEF IInv, TypeOK
  <1>4. TurnsOK'
    BY <1>1, <1>2 DEF IInv, TurnsOK
  <1>5. Follows'
    BY <1>1 DEF Follows
  <1> QED
    BY <1>3, <1>4, <1>5 DEF IInv

(* Other events say nothing of the tables.                                 *)
LEMMA OthersAreSilent ==
    ASSUME NEW n \in Nat
    PROVE  Others(n) \in Seq(Events) /\ Silent(Others(n))
  <1>1. Others(n) \in Seq(Events) /\ Len(Others(n)) = n
        /\ \A i \in 1..n : Others(n)[i] = Other
    BY Kinds DEF Others
  <1> QED
    BY <1>1, Kinds DEF Silent

LEMMA SettingTheLight ==
    ASSUME TypeOK, NEW to \in Settings, SetLight(to)
    PROVE  light' \in Settings /\ recalled' \in Settings /\ valid' \in BOOLEAN
  <1>1. light' = to /\ (recalled' = recalled \/ recalled' = Fresh)
    BY DEF SetLight
  <1>2. valid' \in {valid, FALSE}
    BY DEF SetLight
  <1> QED
    BY <1>1, <1>2, FreshIsASetting DEF TypeOK

(* Every light command leaves settings of the light.                       *)
LEMMA LightStaysWellFormed ==
    ASSUME TypeOK, SetColour \/ SetLevel \/ MoveHue \/ HoldHue \/ RecallScene
    PROVE  light' \in Settings /\ recalled' \in Settings /\ {turning', valid'} \subseteq BOOLEAN
  <1>1. light \in Settings /\ recalled \in Settings /\ {turning, valid} \subseteq BOOLEAN
    BY DEF TypeOK
  <1>2. CASE SetColour
    <2>1. PICK to \in {[light EXCEPT !.mode = "hue", !.hue = h] : h \in Hues}
                      \cup {[light EXCEPT !.mode = "white", !.mireds = m] : m \in Mireds} :
             SetLight(to)
      BY <1>2 DEF SetColour
    <2>2. to \in Settings
      BY <1>1 DEF Settings
    <2> QED
      BY <1>1, <1>2, <2>1, <2>2, SettingTheLight DEF SetColour
  <1>3. CASE SetLevel
    <2>1. PICK n \in Levels : SetLight([light EXCEPT !.level = n])
      BY <1>3 DEF SetLevel
    <2>2. [light EXCEPT !.level = n] \in Settings
      BY <1>1 DEF Settings
    <2> QED
      BY <1>1, <1>3, <2>1, <2>2, SettingTheLight DEF SetLevel
  <1>4. CASE MoveHue
    <2>1. SetLight([light EXCEPT !.mode = "hue"]) /\ turning' = TRUE
      BY <1>4 DEF MoveHue
    <2>2. [light EXCEPT !.mode = "hue"] \in Settings
      BY <1>1 DEF Settings
    <2> QED
      BY <1>1, <2>1, <2>2, SettingTheLight
  <1>5. CASE HoldHue
    BY <1>1, <1>5 DEF HoldHue
  <1>6. CASE RecallScene
    <2>1. PICK group \in Groups \cup {NoGroup}, id \in Ids : \E i \in Found(group, id) :
             LET s == scenes[i].setting
                 at == [light EXCEPT !.level = s.level, !.mode = s.mode]
             IN  light' = IF s.mode = "white" THEN [at EXCEPT !.mireds = s.mireds]
                          ELSE [at EXCEPT !.hue = s.hue]
      BY <1>6 DEF RecallScene
    <2>2. PICK i \in Found(group, id) :
             LET s == scenes[i].setting
                 at == [light EXCEPT !.level = s.level, !.mode = s.mode]
             IN  light' = IF s.mode = "white" THEN [at EXCEPT !.mireds = s.mireds]
                          ELSE [at EXCEPT !.hue = s.hue]
      BY <2>1
    <2>3. scenes[i] \in Entries
      BY DEF TypeOK, Tables, TableType, Found
    <2>4. scenes[i].setting \in Settings
      BY <2>3 DEF Entries
    <2>5. light' \in Settings
      BY <1>1, <2>2, <2>4 DEF Settings
    <2> QED
      BY <1>1, <1>6, <2>5 DEF RecallScene
  <1> QED
    BY <1>2, <1>3, <1>4, <1>5, <1>6

(* A command that moves the light, or leaves the network, says nothing of  *)
(* the tables.                                                             *)
LEMMA LightCommandKeeps ==
    ASSUME IInv, Command, UNCHANGED <<groups, scenes>>,
           light' \in Settings, recalled' \in Settings,
           {turning', valid'} \subseteq BOOLEAN,
           NEW raised \in Seq(Events), Silent(raised), Raise(raised)
    PROVE  IInv'
  <1>1. /\ stage = "receive" /\ stage' = stage /\ handled' = handled + 1
        /\ handled' \in 0..Burst /\ handled' # 0
        /\ flash' = flash /\ saving' = saving /\ Tables' = Tables
    BY ScenesAssumption DEF IInv, TypeOK, Command, Tables
  <1>2. /\ events' \in Seq(Events) /\ Len(events') <= EventCapacity
        /\ stale' \in BOOLEAN
        /\ Follows'
    BY <1>1, RaiseNoTables
  <1>3. TypeOK'
    BY <1>1, <1>2 DEF IInv, TypeOK
  <1>4. TurnsOK'
    BY <1>1, <1>2 DEF IInv, TurnsOK
  <1> QED
    BY <1>2, <1>3, <1>4 DEF IInv

-----------------------------------------------------------------------------
(* The tick, the events and the sector                                     *)

LEMMA TickKeeps ==
    ASSUME IInv, Tick
    PROVE  IInv'
  <1>1. /\ stage = "receive" /\ stage' = "events" /\ handled' = 0 /\ 0 \in 0..Burst
        /\ flash' = flash /\ saving' = saving /\ Tables' = Tables
        /\ TypeOK
    BY ScenesAssumption DEF IInv, Tick, Tables
  <1>2. /\ light' \in Settings /\ recalled' \in Settings
        /\ {turning', valid'} \subseteq BOOLEAN
    BY <1>1, FreshIsASetting DEF TypeOK, Tick, SetLight, Settings
  <1>3. PICK n \in Noise : Raise(Others(n))
    BY DEF Tick
  <1>4. /\ events' \in Seq(Events) /\ Len(events') <= EventCapacity
        /\ stale' \in BOOLEAN
        /\ Follows'
    <2>1. Others(n) \in Seq(Events) /\ Silent(Others(n))
      BY OthersAreSilent, ScenesAssumption
    <2> QED
      BY <1>1, <1>3, <2>1, RaiseNoTables
  <1>5. TypeOK'
    BY <1>1, <1>2, <1>4 DEF TypeOK
  <1>6. TurnsOK'
    BY <1>1, <1>4 DEF IInv, TurnsOK
  <1> QED
    BY <1>4, <1>5, <1>6 DEF IInv

(* Taking the first event leaves the others, and what they say last.       *)
LEMMA TakingLeavesTheRest ==
    ASSUME events \in Seq(Events), events # <<>>, NEW rest, rest = Tail(events)
    PROVE  /\ Head(events) \in Events
           /\ rest \in Seq(Events) /\ Len(rest) <= Len(events)
           /\ \A t : Said(events, t) => Said(rest, t)
           /\ \A t : Said(events, t) /\ Silent(rest) /\ Head(events).kind = "tables"
                     => Head(events).tables = t
           /\ Silent(rest) /\ Head(events).kind # "tables" => Silent(events)
  <1>1. /\ Len(events) \in Nat /\ Len(events) >= 1
        /\ Head(events) = events[1] /\ Head(events) \in Events
        /\ rest \in Seq(Events) /\ Len(rest) = Len(events) - 1
        /\ \A i \in 1..Len(rest) : rest[i] = events[i + 1]
    BY HeadTailProperties, EmptySeq
  <1>2. ASSUME NEW t, Said(events, t)
        PROVE  Said(rest, t)
    <2> SUFFICES ASSUME NEW i \in 1..Len(rest), Newest(rest, i)
                 PROVE  rest[i].tables = t
      BY DEF Said
    <2>1. i + 1 \in 1..Len(events) /\ rest[i] = events[i + 1]
      BY <1>1
    <2>2. ASSUME NEW j \in 1..Len(events), j > i + 1
          PROVE  events[j].kind # "tables"
      <3>1. j - 1 \in 1..Len(rest) /\ j - 1 > i /\ rest[j - 1] = events[j]
        BY <1>1, <2>2
      <3> QED
        BY <3>1 DEF Newest
    <2>3. Newest(events, i + 1)
      BY <2>1, <2>2 DEF Newest
    <2> QED
      BY <1>2, <2>1, <2>3 DEF Said
  <1>3. ASSUME Silent(rest), NEW j \in 1..Len(events), j > 1
        PROVE  events[j].kind # "tables"
    <2>1. j - 1 \in 1..Len(rest) /\ rest[j - 1] = events[j]
      BY <1>1, <1>3
    <2> QED
      BY <1>3, <2>1 DEF Silent
  <1>4. ASSUME NEW t, Said(events, t), Silent(rest), Head(events).kind = "tables"
        PROVE  Head(events).tables = t
    <2>1. 1 \in 1..Len(events) /\ Newest(events, 1)
      BY <1>1, <1>3, <1>4 DEF Newest
    <2> QED
      BY <1>1, <1>4, <2>1 DEF Said
  <1>5. ASSUME Silent(rest), Head(events).kind # "tables"
        PROVE  Silent(events)
    <2> SUFFICES ASSUME NEW j \in 1..Len(events)
                 PROVE  events[j].kind # "tables"
      BY DEF Silent
    <2>1. CASE j = 1
      BY <1>1, <1>5, <2>1
    <2>2. CASE j > 1
      BY <1>3, <1>5, <2>2
    <2> QED
      BY <1>1, <2>1, <2>2
  <1> QED
    BY <1>1, <1>2, <1>4, <1>5

(* What is in flash is what memory would read.                             *)
LEMMA StoredIsTheCopy ==
    ASSUME NEW t, flash = {t}
    PROVE  Stored = t
  BY DEF Stored

(* Acting on an event, and the two steps of a write.                       *)
LEMMA EventsKeep ==
    ASSUME IInv, EraseTables \/ WriteTables \/ ForgetNetwork \/ OtherEvent \/ TurnOver
    PROVE  IInv'
  <1>1. /\ TypeOK /\ TurnsOK /\ Follows /\ stage = "events" /\ Tables' = Tables
        /\ UNCHANGED <<groups, scenes, light, turning, valid, recalled, handled>>
    BY DEF IInv, TurnsOK, EraseTables, WriteTables, ForgetNetwork, OtherEvent, TurnOver,
           TakeEvent, memory, Tables
  <1>2. ASSUME NEW kind, TakeEvent(kind)
        PROVE  /\ Head(events) \in Events /\ Head(events).kind = kind
               /\ events' \in Seq(Events) /\ Len(events') <= EventCapacity
               /\ Said(events', Tables)
               /\ Silent(events') /\ kind = "tables" => Head(events).tables = Tables
               /\ Silent(events') /\ kind # "tables" => Silent(events)
               /\ saving = {} /\ stage' = stage
    <2>1. /\ events \in Seq(Events) /\ events # <<>> /\ events' = Tail(events)
          /\ Said(events, Tables) /\ Len(events) <= EventCapacity
          /\ Head(events).kind = kind /\ saving = {} /\ stage' = stage
      BY <1>1, <1>2 DEF TakeEvent, TurnsOK, TypeOK, Follows
    <2>2. /\ Head(events) \in Events
          /\ events' \in Seq(Events) /\ Len(events') <= Len(events)
          /\ Said(events', Tables)
          /\ Silent(events') /\ kind = "tables" => Head(events).tables = Tables
          /\ Silent(events') /\ kind # "tables" => Silent(events)
      BY <2>1, TakingLeavesTheRest
    <2>3. Len(events) \in Nat /\ Len(events') \in Nat /\ EventCapacity \in Nat
      BY <2>1, <2>2, ScenesAssumption
    <2> QED
      BY <2>1, <2>2, <2>3
  <1>3. CASE EraseTables
    <2>1. /\ TakeEvent("tables") /\ flash' = {} /\ saving' = {Head(events).tables}
          /\ stale' = stale
      BY <1>3 DEF EraseTables
    <2>2. /\ events' \in Seq(Events) /\ Len(events') <= EventCapacity
          /\ Said(events', Tables) /\ stage' = stage
          /\ Head(events) \in Events /\ Head(events).kind = "tables"
          /\ Silent(events') => saving' = {Tables}
      BY <1>2, <2>1
    <2>3. Head(events).tables \in TableType
      BY <2>2, Kinds
    <2>4. TypeOK'
      BY <1>1, <2>1, <2>2, <2>3 DEF TypeOK
    <2>5. TurnsOK' /\ Follows'
      BY <1>1, <2>1, <2>2 DEF TurnsOK, Follows
    <2> QED
      BY <2>4, <2>5 DEF IInv
  <1>4. CASE WriteTables
    <2>1. /\ saving # {} /\ flash' = saving /\ saving' = {} /\ stale' = FALSE
          /\ stage' = stage /\ events' = events
      BY <1>4 DEF WriteTables
    <2>2. TypeOK'
      BY <1>1, <2>1 DEF TypeOK
    <2>3. Silent(events) => saving = {Tables}
      BY <1>1, <2>1 DEF Follows
    <2>4. Silent(events') => Stored' = Tables'
      BY <1>1, <2>1, <2>3 DEF Stored
    <2>5. Follows'
      BY <1>1, <2>1, <2>4 DEF Follows
    <2>6. \A a, b \in saving : a = b
      BY <1>1 DEF TurnsOK
    <2>7. TurnsOK'
      BY <1>1, <2>1, <2>6 DEF TurnsOK
    <2> QED
      BY <2>2, <2>5, <2>7 DEF IInv
  <1>5. CASE ForgetNetwork
    <2>1. /\ TakeEvent("left") /\ flash' = {} /\ saving' = saving /\ stale' = TRUE
      BY <1>5 DEF ForgetNetwork
    <2>2. /\ events' \in Seq(Events) /\ Len(events') <= EventCapacity
          /\ Said(events', Tables) /\ stage' = stage /\ saving = {}
      BY <1>2, <2>1
    <2>3. TypeOK'
      BY <1>1, <2>1, <2>2 DEF TypeOK
    <2>4. TurnsOK' /\ Follows'
      BY <1>1, <2>1, <2>2 DEF TurnsOK, Follows
    <2> QED
      BY <2>3, <2>4 DEF IInv
  <1>6. CASE OtherEvent
    <2>1. /\ TakeEvent("other") /\ flash' = flash /\ saving' = saving /\ stale' = stale
      BY <1>6 DEF OtherEvent
    <2>2. /\ events' \in Seq(Events) /\ Len(events') <= EventCapacity
          /\ Said(events', Tables) /\ stage' = stage /\ saving = {}
          /\ Silent(events') => Silent(events)
      BY <1>2, <2>1
    <2>3. TypeOK'
      BY <1>1, <2>1, <2>2 DEF TypeOK
    <2>4. TurnsOK' /\ Follows'
      BY <1>1, <2>1, <2>2 DEF TurnsOK, Follows, Stored
    <2> QED
      BY <2>3, <2>4 DEF IInv
  <1>7. CASE TurnOver
    <2>1. /\ saving = {} /\ events = <<>> /\ stage' = "receive"
          /\ UNCHANGED <<events, flash, saving, stale>>
      BY <1>7 DEF TurnOver
    <2>2. TypeOK'
      BY <1>1, <2>1 DEF TypeOK
    <2>3. TurnsOK' /\ Follows'
      BY <1>1, <2>1 DEF TurnsOK, Follows, Stored
    <2> QED
      BY <2>2, <2>3 DEF IInv
  <1> QED
    BY <1>3, <1>4, <1>5, <1>6, <1>7

(* The power fails: memory is read back from flash.                        *)
LEMMA PowerCutKeeps ==
    ASSUME IInv, PowerCut
    PROVE  IInv'
  <1>1. /\ TypeOK /\ TurnsOK /\ flash' = flash
    BY DEF IInv, PowerCut
  <1>2. 0 \in 0..Burst /\ 0 <= EventCapacity
    BY ScenesAssumption
  <1>3. ASSUME NEW t, t = Stored, t \in TableType, Boot(t), light' \in Settings
        PROVE  IInv'
    <2>1. Tables' = t
      BY <1>3 DEF Boot, Tables, TableType
    <2>2. /\ turning' = FALSE /\ valid' = FALSE /\ recalled' \in Settings
          /\ stage' = "receive" /\ handled' = 0 /\ events' = <<>>
          /\ saving' = {} /\ stale' = FALSE
      BY <1>3, FreshIsASetting DEF Boot
    <2>3. /\ events' \in Seq(Events) /\ Len(events') = 0
          /\ Len(events') <= EventCapacity /\ handled' \in 0..Burst
      BY <1>2, <2>2
    <2>4. TypeOK'
      BY <1>1, <1>3, <2>1, <2>2, <2>3 DEF TypeOK
    <2>5. TurnsOK'
      BY <1>1, <2>2, <2>3 DEF TurnsOK
    <2>6. Stored' = Tables'
      BY <1>1, <1>3, <2>1 DEF Stored
    <2>7. Follows'
      BY <2>2, <2>3, <2>6 DEF Follows, Said
    <2> QED
      BY <2>4, <2>5, <2>7 DEF IInv
  <1>4. CASE flash = {}
    <2>1. Blank \in TableType
      BY DEF Blank, TableType
    <2>2. Stored = Blank /\ Boot(Blank) /\ light' = Fresh
      BY <1>4 DEF Stored, PowerCut
    <2> QED
      BY <1>3, <2>1, <2>2, FreshIsASetting
  <1>5. CASE flash # {}
    <2>1. PICK t \in flash, m \in Mireds : Boot(t) /\ light' = [Fresh EXCEPT !.mireds = m]
      BY <1>5 DEF PowerCut
    <2>2. flash = {t} /\ t \in TableType
      BY <1>1 DEF TurnsOK, TypeOK
    <2>3. Stored = t
      BY <2>2, StoredIsTheCopy
    <2>4. light' \in Settings
      BY <2>1, FreshIsASetting DEF Settings
    <2> QED
      BY <1>3, <2>1, <2>2, <2>3, <2>4
  <1> QED
    BY <1>4, <1>5

-----------------------------------------------------------------------------
(* The invariant                                                           *)

LEMMA InitialTables == Init => IInv
  <1> SUFFICES ASSUME Init
               PROVE  IInv
    OBVIOUS
  <1>1. /\ Tables = Blank /\ Blank \in TableType /\ Stored = Blank
    BY DEF Init, Tables, Blank, TableType, Stored
  <1>2. TypeOK
    <2>1. Len(events) <= EventCapacity /\ handled \in 0..Burst
      BY ScenesAssumption DEF Init
    <2>2. /\ light \in Settings /\ recalled \in Settings /\ stage = "receive"
          /\ flash = {} /\ saving = {}
          /\ {turning, valid, stale} \subseteq BOOLEAN
      BY FreshIsASetting DEF Init
    <2> QED
      BY <1>1, <2>1, <2>2 DEF TypeOK
  <1>3. TurnsOK
    BY DEF Init, TurnsOK
  <1>4. Follows
    BY <1>1 DEF Init, Follows, Said
  <1> QED
    BY <1>2, <1>3, <1>4 DEF IInv

LEMMA EveryStepFollows ==
    ASSUME IInv, [Next]_vars
    PROVE  IInv'
  <1>1. TypeOK /\ Tables \in TableType /\ light \in Settings
    BY DEF IInv, TypeOK
  <1>2. CASE AddGroup \/ RemoveGroup \/ RemoveAllGroups \/ WriteStartup
             \/ RemoveScene \/ RemoveScenesOf
    <2>1. TableCommand
      BY <1>2 DEF AddGroup, RemoveGroup, RemoveAllGroups, WriteStartup, RemoveScene,
                  RemoveScenesOf
    <2> QED
      BY <1>1, <1>2, <2>1, TablesStayWellFormed, TableCommandKeeps
  <1>3. CASE StoreScene
    <2>1. TableCommand
      BY <1>3 DEF StoreScene
    <2> QED
      BY <1>1, <1>3, <2>1, StoringKeepsTables, TableCommandKeeps
  <1>4. CASE SetColour \/ SetLevel \/ MoveHue \/ HoldHue \/ RecallScene
    <2>1. LightCommand
      BY <1>4 DEF SetColour, SetLevel, MoveHue, HoldHue, RecallScene
    <2>2. PICK n \in Noise : Raise(Others(n))
      BY <2>1 DEF LightCommand
    <2>3. Others(n) \in Seq(Events) /\ Silent(Others(n))
      BY OthersAreSilent, ScenesAssumption
    <2>4. Command /\ UNCHANGED <<groups, scenes>>
      BY <2>1 DEF LightCommand
    <2>5. /\ light' \in Settings /\ recalled' \in Settings
          /\ {turning', valid'} \subseteq BOOLEAN
      BY <1>1, <1>4, LightStaysWellFormed
    <2> QED
      BY <2>2, <2>3, <2>4, <2>5, LightCommandKeeps
  <1>5. CASE LeaveNetwork
    <2>1. <<Left>> \in Seq(Events) /\ Silent(<<Left>>)
      BY Kinds DEF Silent
    <2> QED
      BY <1>1, <1>5, <2>1, LightCommandKeeps DEF LeaveNetwork, TypeOK
  <1>6. CASE Tick
    BY <1>6, TickKeeps
  <1>7. CASE EraseTables \/ WriteTables \/ ForgetNetwork \/ OtherEvent \/ TurnOver
    BY <1>7, EventsKeep
  <1>8. CASE PowerCut
    BY <1>8, PowerCutKeeps
  <1>9. CASE UNCHANGED vars
    <2>1. Tables' = Tables /\ Stored' = Stored /\ UNCHANGED vars
      BY <1>9 DEF vars, Tables, Stored
    <2> QED
      BY <2>1 DEF vars, IInv, TypeOK, TurnsOK, Follows
  <1> QED
    BY <1>2, <1>3, <1>4, <1>5, <1>6, <1>7, <1>8, <1>9 DEF Next

(* Tables, light and queue keep their shape through full tables, a queue   *)
(* that gives up events and power cuts.                                    *)
THEOREM ScenesInRange == Spec => []TypeOK
  <1>1. IInv => TypeOK
    BY DEF IInv
  <1> QED
    BY <1>1, InitialTables, EveryStepFollows, PTL DEF Spec

(* Between two turns flash holds the tables in memory, unless the queue    *)
(* gave up their event or the device left its network since.               *)
THEOREM FlashFollows == Spec => []FlashHoldsTheTables
  <1>1. IInv => FlashHoldsTheTables
    <2> SUFFICES ASSUME IInv, stage = "receive", handled = 0, ~stale
                 PROVE  Stored = Tables
      BY DEF FlashHoldsTheTables
    <2>1. events = <<>> /\ saving = {}
      BY DEF IInv, TurnsOK
    <2>2. Silent(events)
      BY <2>1 DEF Silent
    <2> QED
      BY <2>1, <2>2 DEF IInv, Follows
  <1> QED
    BY <1>1, InitialTables, EveryStepFollows, PTL DEF Spec

(* Setting the light lets go of a live scene unless nothing changes.       *)
LEMMA SettingLetsGo ==
    ASSUME LiveSceneIsShown, NEW to, SetLight(to)
    PROVE  LiveSceneIsShown'
  <1> SUFFICES ASSUME valid'
               PROVE  light' = recalled'
    BY DEF LiveSceneIsShown
  <1>1. to = light
    <2> SUFFICES ASSUME to # light
                 PROVE  FALSE
      OBVIOUS
    <2>1. valid' \in {FALSE}
      BY DEF SetLight
    <2> QED
      BY <2>1
  <1>2. valid' = valid
    <2>1. valid' \in {valid, FALSE}
      BY <1>1 DEF SetLight
    <2> QED
      BY <2>1
  <1>3. light' = light /\ recalled' = recalled
    BY <1>1 DEF SetLight
  <1> QED
    BY <1>2, <1>3 DEF LiveSceneIsShown

(* A scene said to be live is the light as the scene left it.              *)
THEOREM LiveSceneStands == Spec => []LiveSceneIsShown
  <1>1. Init => LiveSceneIsShown
    BY DEF Init, LiveSceneIsShown
  <1>2. ASSUME LiveSceneIsShown, [Next]_vars
        PROVE  LiveSceneIsShown'
    <2>1. CASE AddGroup \/ RemoveGroup \/ RemoveAllGroups \/ StoreScene \/ RemoveScene
               \/ RemoveScenesOf \/ WriteStartup
      BY <1>2, <2>1 DEF AddGroup, RemoveGroup, RemoveAllGroups, StoreScene, RemoveScene,
                        RemoveScenesOf, WriteStartup, TableCommand, LiveSceneIsShown
    <2>2. CASE SetColour \/ SetLevel \/ MoveHue
      BY <1>2, <2>2, SettingLetsGo DEF SetColour, SetLevel, MoveHue
    <2>3. CASE HoldHue \/ RecallScene \/ LeaveNetwork
      BY <1>2, <2>3 DEF HoldHue, RecallScene, LeaveNetwork, LiveSceneIsShown
    <2>4. CASE Tick
      BY <1>2, <2>4, SettingLetsGo DEF Tick
    <2>5. CASE EraseTables \/ WriteTables \/ ForgetNetwork \/ OtherEvent \/ TurnOver
      BY <1>2, <2>5 DEF EraseTables, WriteTables, ForgetNetwork, OtherEvent, TurnOver,
                        TakeEvent, memory, LiveSceneIsShown
    <2>6. CASE PowerCut
      BY <2>6 DEF PowerCut, Boot, LiveSceneIsShown
    <2>7. CASE UNCHANGED vars
      BY <1>2, <2>7 DEF vars, LiveSceneIsShown
    <2> QED
      BY <1>2, <2>1, <2>2, <2>3, <2>4, <2>5, <2>6, <2>7 DEF Next
  <1> QED
    BY <1>1, <1>2, PTL DEF Spec

-----------------------------------------------------------------------------
(* The tables as a book                                                    *)

(* Tables that fit a book: every entry sits in a group the light is in, or *)
(* in none, and no two slots hold the same group and identifier.           *)
SameKey(e, f) == e.group = f.group /\ e.id = f.id

Unique(slots) ==
    \A i, j \in 1..MaxScenes :
        slots[i] # Empty /\ slots[j] # Empty /\ SameKey(slots[i], slots[j]) => i = j

WellKept(t) ==
    /\ \A e \in Kept(t) : e.group \in Members(t) \cup {NoGroup}
    /\ Unique(t.scenes)

GoodCopies(copies) == \A t \in copies : WellKept(t)
GoodQueue(q) == \A i \in 1..Len(q) : q[i].kind = "tables" => WellKept(q[i].tables)

(* The tables fit a book, and so do those queued, on their way to flash    *)
(* and in it.                                                              *)
BookInv ==
    /\ IInv
    /\ WellKept(Tables)
    /\ GoodQueue(events) /\ GoodCopies(flash) /\ GoodCopies(saving)

(* The first of some slots is one of them.                                 *)
LEMMA FirstIsOne ==
    ASSUME NEW slots \in SUBSET Nat, slots # {}
    PROVE  First(slots) \in slots
  <1>1. PICK i \in slots : \A j \in slots : <<j, i>> \notin OpToRel(<, Nat)
    BY NatLessThanWellFounded, WFMin
  <1>2. ASSUME NEW j \in slots PROVE i <= j
    <2>1. <<j, i>> \in Nat \X Nat /\ j \in Nat /\ i \in Nat
      OBVIOUS
    <2>2. ~(j < i)
      BY <1>1, <2>1 DEF OpToRel
    <2> QED
      BY <2>1, <2>2
  <1>3. \E k \in slots : \A j \in slots : k <= j
    BY <1>2
  <1> QED
    BY <1>3 DEF First

(* The values of n slots are at most n.                                    *)
LEMMA FewInSlots ==
    ASSUME NEW n \in Nat, NEW f, NEW none
    PROVE  /\ IsFiniteSet({f[i] : i \in 1..n} \ {none})
           /\ Cardinality({f[i] : i \in 1..n} \ {none}) <= n
  <1> DEFINE all == {f[i] : i \in 1..n}
             g == [i \in 1..n |-> f[i]]
  <1>1. IsFiniteSet(1..n) /\ Cardinality(1..n) = n
    BY FS_Interval
  <1>2. g \in Surjection(1..n, all)
    BY DEF Surjection
  <1>3. IsFiniteSet(all) /\ Cardinality(all) <= n
    BY <1>1, <1>2, FS_Surjection
  <1> HIDE DEF all, g
  <1>4. all \ {none} \in SUBSET all
    OBVIOUS
  <1>5. IsFiniteSet(all \ {none}) /\ Cardinality(all \ {none}) <= Cardinality(all)
    BY <1>3, <1>4, FS_Subset
  <1>6. Cardinality(all \ {none}) \in Nat /\ Cardinality(all) \in Nat
    BY <1>3, <1>5, FS_CardinalityType
  <1> QED
    BY <1>3, <1>5, <1>6 DEF all

LEMMA SameCardinality == \A S : Book!Cardinality(S) = Cardinality(S)
  BY Zenon DEF Book!Cardinality, Cardinality

(* Tables that fit a book fit the one promised.                            *)
LEMMA KeptTablesFit ==
    ASSUME NEW t \in TableType, WellKept(t)
    PROVE  Book!Fits(Members(t), Kept(t))
  <1>1. Cardinality(Members(t)) <= MaxGroups
    BY FewInSlots, ScenesAssumption DEF Members
  <1>2. Cardinality(Kept(t)) <= MaxScenes
    BY FewInSlots, ScenesAssumption DEF Kept
  <1>3. \A e \in Kept(t) : e.group \in Members(t) \cup {NoGroup}
    BY DEF WellKept
  <1>4. ASSUME NEW e \in Kept(t), NEW f \in Kept(t), e.group = f.group, e.id = f.id
        PROVE  e = f
    <2>1. PICK i \in 1..MaxScenes : e = t.scenes[i] /\ e # Empty
      BY DEF Kept
    <2>2. PICK j \in 1..MaxScenes : f = t.scenes[j] /\ f # Empty
      BY DEF Kept
    <2>3. i = j
      BY <1>4, <2>1, <2>2 DEF WellKept, Unique, SameKey
    <2> QED
      BY <2>1, <2>2, <2>3
  <1>5. \A e, f \in Kept(t) : e.group = f.group /\ e.id = f.id => e = f
    BY <1>4
  <1> QED
    BY <1>1, <1>2, <1>3, <1>5, SameCardinality DEF Book!Fits

(* Nothing is kept of blank tables.                                        *)
LEMMA BlankIsKept ==
    Blank \in TableType /\ WellKept(Blank) /\ Members(Blank) = {} /\ Kept(Blank) = {}
  <1>1. Blank \in TableType
    BY DEF Blank, TableType
  <1>2. Members(Blank) = {}
    BY DEF Blank, Members
  <1>3. Kept(Blank) = {}
    BY DEF Blank, Kept
  <1>4. Unique(Blank.scenes)
    BY DEF Blank, Unique
  <1> QED
    BY <1>1, <1>2, <1>3, <1>4 DEF WellKept

-----------------------------------------------------------------------------
(* What an operation makes of the scene slots                              *)

Filled(slots) == {slots[i] : i \in 1..MaxScenes} \ {Empty}

LEMMA KeptAreFilled == \A t : Kept(t) = Filled(t.scenes)
  BY DEF Kept, Filled

(* Forgetting the scenes of some groups.                                   *)
LEMMA ForgettingSlots ==
    ASSUME NEW old, NEW lost, Unique(old), NEW new,
           \A i \in 1..MaxScenes : new[i] = IF old[i] # Empty /\ old[i].group \in lost
                                            THEN Empty ELSE old[i]
    PROVE  /\ Unique(new)
           /\ \A e : e \in Filled(new) <=> e \in Filled(old) /\ e.group \notin lost
  <1>1. \A i \in 1..MaxScenes : new[i] # Empty => new[i] = old[i] /\ old[i].group \notin lost
    OBVIOUS
  <1>2. Unique(new)
    BY <1>1 DEF Unique
  <1>3. \A e : e \in Filled(new) <=> e \in Filled(old) /\ e.group \notin lost
    <2> SUFFICES ASSUME NEW e
                 PROVE  e \in Filled(new) <=> e \in Filled(old) /\ e.group \notin lost
      OBVIOUS
    <2>1. ASSUME e \in Filled(new) PROVE e \in Filled(old) /\ e.group \notin lost
      BY <1>1, <2>1 DEF Filled
    <2>2. ASSUME e \in Filled(old), e.group \notin lost PROVE e \in Filled(new)
      BY <2>2 DEF Filled
    <2> QED
      BY <2>1, <2>2
  <1> QED
    BY <1>2, <1>3

(* Storing a scene in the slot of its key, or in a vacant one.             *)
LEMMA PuttingSlots ==
    ASSUME NEW old \in [1..MaxScenes -> Entries \cup {Empty}], Unique(old),
           NEW e \in Entries, NEW k \in 1..MaxScenes,
           old[k] = Empty \/ SameKey(old[k], e),
           \A i \in 1..MaxScenes : old[i] # Empty /\ SameKey(old[i], e) => i = k,
           NEW new, new = [old EXCEPT ![k] = e]
    PROVE  /\ Unique(new)
           /\ Filled(new) = (Filled(old) \ {f \in Filled(old) : SameKey(f, e)}) \cup {e}
  <1>1. new[k] = e /\ \A i \in 1..MaxScenes : i # k => new[i] = old[i]
    OBVIOUS
  <1>2. e # Empty
    BY EmptyAssumption
  <1>3. Unique(new)
    <2> SUFFICES ASSUME NEW i \in 1..MaxScenes, NEW j \in 1..MaxScenes,
                        new[i] # Empty, new[j] # Empty, SameKey(new[i], new[j])
                 PROVE  i = j
      BY DEF Unique
    <2>1. CASE i # k /\ j # k
      BY <1>1, <2>1 DEF Unique
    <2>2. CASE i = k /\ j # k
      BY <1>1, <2>2 DEF SameKey
    <2>3. CASE i # k /\ j = k
      BY <1>1, <2>3
    <2> QED
      BY <2>1, <2>2, <2>3
  <1>4. \A f : f \in Filled(new) <=> f = e \/ (f \in Filled(old) /\ ~SameKey(f, e))
    <2> SUFFICES ASSUME NEW f
                 PROVE  f \in Filled(new) <=> f = e \/ (f \in Filled(old) /\ ~SameKey(f, e))
      OBVIOUS
    <2>1. ASSUME f \in Filled(new), f # e PROVE f \in Filled(old) /\ ~SameKey(f, e)
      BY <1>1, <2>1 DEF Filled
    <2>2. ASSUME f \in Filled(old), ~SameKey(f, e) PROVE f \in Filled(new)
      BY <1>1, <2>2 DEF Filled
    <2>3. e \in Filled(new)
      BY <1>1, <1>2 DEF Filled
    <2> QED
      BY <2>1, <2>2, <2>3
  <1> QED
    BY <1>3, <1>4

(* Emptying a slot.                                                        *)
LEMMA RemovingSlots ==
    ASSUME NEW old \in [1..MaxScenes -> Entries \cup {Empty}], Unique(old),
           NEW k \in 1..MaxScenes, old[k] # Empty,
           NEW new, new = [old EXCEPT ![k] = Empty]
    PROVE  /\ Unique(new)
           /\ Filled(new) = Filled(old) \ {f \in Filled(old) : SameKey(f, old[k])}
  <1>1. new[k] = Empty /\ \A i \in 1..MaxScenes : i # k => new[i] = old[i]
    OBVIOUS
  <1>2. Unique(new)
    BY <1>1 DEF Unique
  <1>3. \A i \in 1..MaxScenes : old[i] # Empty /\ SameKey(old[i], old[k]) => i = k
    BY DEF Unique
  <1>4. \A f : f \in Filled(new) <=> f \in Filled(old) /\ ~SameKey(f, old[k])
    <2> SUFFICES ASSUME NEW f
                 PROVE  f \in Filled(new) <=> f \in Filled(old) /\ ~SameKey(f, old[k])
      OBVIOUS
    <2>1. ASSUME f \in Filled(new) PROVE f \in Filled(old) /\ ~SameKey(f, old[k])
      BY <1>1, <1>3, <2>1 DEF Filled
    <2>2. ASSUME f \in Filled(old), ~SameKey(f, old[k]) PROVE f \in Filled(new)
      <3>1. PICK i \in 1..MaxScenes : f = old[i] /\ f # Empty
        BY <2>2 DEF Filled
      <3>2. i # k
        BY <2>2, <3>1 DEF SameKey
      <3> QED
        BY <1>1, <3>1, <3>2 DEF Filled
    <2> QED
      BY <2>1, <2>2
  <1> QED
    BY <1>2, <1>4

-----------------------------------------------------------------------------
(* Steps of the book                                                       *)

(* What the next state holds, read from the next tables.                   *)
LEMMA NextBook ==
    /\ Members(Tables)' = Members(Tables')
    /\ Kept(Tables)' = Kept(Tables')
    /\ [members |-> Members(Stored), book |-> Kept(Stored)]' =
          [members |-> Members(Stored'), book |-> Kept(Stored')]
  BY DEF Members, Kept

(* A step of the tables that storage has no part in.                       *)
LEMMA TablesStep ==
    ASSUME Tables' \in TableType, WellKept(Tables'), Stored' = Stored,
           \/ \E group \in Groups :
                 /\ Members(Tables') = Members(Tables) \cup {group}
                 /\ Kept(Tables') = Kept(Tables)
           \/ \E group \in Groups :
                 /\ Members(Tables') = Members(Tables) \ {group}
                 /\ Kept(Tables') = Kept(Tables) \ {e \in Kept(Tables) : e.group = group}
           \/ /\ Members(Tables') = {}
              /\ Kept(Tables') \in {{}, {e \in Kept(Tables) : e.group = NoGroup}}
           \/ /\ Members(Tables') = Members(Tables)
              /\ \E group \in Groups \cup {NoGroup} :
                    Kept(Tables') = Kept(Tables) \ {e \in Kept(Tables) : e.group = group}
           \/ /\ Members(Tables') = Members(Tables)
              /\ \E group \in Groups \cup {NoGroup}, id \in Ids :
                    Kept(Tables') = Kept(Tables)
                                       \ {e \in Kept(Tables) : e.group = group /\ e.id = id}
           \/ /\ Members(Tables') = Members(Tables)
              /\ \E group \in Groups \cup {NoGroup}, id \in Ids, setting \in Settings :
                    Kept(Tables') =
                       (Kept(Tables) \ {e \in Kept(Tables) : e.group = group /\ e.id = id})
                          \cup {[group |-> group, id |-> id, setting |-> setting]}
    PROVE  Book!Next
  <1>1. Book!Fits(Members(Tables'), Kept(Tables'))
    BY KeptTablesFit
  <1>2. Book!Fits(Members(Tables)', Kept(Tables)')
    BY <1>1, NextBook
  <1>3. [members |-> Members(Stored), book |-> Kept(Stored)]' =
           [members |-> Members(Stored), book |-> Kept(Stored)]
    BY NextBook
  <1>4. CASE \E group \in Groups :
                 /\ Members(Tables') = Members(Tables) \cup {group}
                 /\ Kept(Tables') = Kept(Tables)
    <2>1. \E group \in Groups : Book!Join(group)
      BY <1>3, <1>4, NextBook DEF Book!Join
    <2> QED
      BY <1>2, <2>1 DEF Book!Next
  <1>5. CASE \E group \in Groups :
                 /\ Members(Tables') = Members(Tables) \ {group}
                 /\ Kept(Tables') = Kept(Tables) \ {e \in Kept(Tables) : e.group = group}
    <2>1. \E group \in Groups : Book!Leave(group)
      BY <1>3, <1>5, NextBook DEF Book!Leave, Book!Of
    <2> QED
      BY <1>2, <2>1 DEF Book!Next
  <1>6. CASE /\ Members(Tables') = {}
             /\ Kept(Tables') \in {{}, {e \in Kept(Tables) : e.group = NoGroup}}
    <2>1. Book!LeaveAll
      BY <1>3, <1>6, NextBook DEF Book!LeaveAll, Book!Of
    <2> QED
      BY <1>2, <2>1 DEF Book!Next
  <1>7. CASE /\ Members(Tables') = Members(Tables)
             /\ \E group \in Groups \cup {NoGroup} :
                   Kept(Tables') = Kept(Tables) \ {e \in Kept(Tables) : e.group = group}
    <2>1. \E group \in Groups \cup {NoGroup} : Book!RemoveOf(group)
      BY <1>3, <1>7, NextBook DEF Book!RemoveOf, Book!Of
    <2> QED
      BY <1>2, <2>1 DEF Book!Next
  <1>8. CASE /\ Members(Tables') = Members(Tables)
             /\ \E group \in Groups \cup {NoGroup}, id \in Ids :
                   Kept(Tables') = Kept(Tables)
                                      \ {e \in Kept(Tables) : e.group = group /\ e.id = id}
    <2>1. \E group \in Groups \cup {NoGroup}, id \in Ids : Book!Remove(group, id)
      BY <1>3, <1>8, NextBook DEF Book!Remove, Book!At
    <2> QED
      BY <1>2, <2>1 DEF Book!Next
  <1>9. CASE /\ Members(Tables') = Members(Tables)
             /\ \E group \in Groups \cup {NoGroup}, id \in Ids, setting \in Settings :
                   Kept(Tables') =
                      (Kept(Tables) \ {e \in Kept(Tables) : e.group = group /\ e.id = id})
                         \cup {[group |-> group, id |-> id, setting |-> setting]}
    <2>1. \E group \in Groups \cup {NoGroup}, id \in Ids : Book!Put(group, id)
      BY <1>3, <1>9, NextBook DEF Book!Put, Book!At
    <2> QED
      BY <1>2, <2>1 DEF Book!Next
  <1> QED
    BY <1>4, <1>5, <1>6, <1>7, <1>8, <1>9

(* A step that leaves the tables and what is stored of them.               *)
LEMMA NoBookStep ==
    ASSUME Members(Tables') = Members(Tables), Kept(Tables') = Kept(Tables), Stored' = Stored
    PROVE  UNCHANGED Book!vars
  BY NextBook DEF Book!vars

(* A step of storage.                                                      *)
LEMMA KeepStep ==
    ASSUME Tables \in TableType, WellKept(Tables), Tables' = Tables,
           Stored' \in TableType, WellKept(Stored')
    PROVE  Book!Next
  <1>1. Book!Fits(Members(Tables'), Kept(Tables')) /\ Book!Fits(Members(Stored'), Kept(Stored'))
    BY KeptTablesFit
  <1>2. Book!Fits(Members(Tables)', Kept(Tables)')
    BY <1>1, NextBook
  <1>3. Book!Keep
    BY <1>1, NextBook DEF Book!Keep
  <1> QED
    BY <1>2, <1>3 DEF Book!Next

LEMMA RestartStep ==
    ASSUME Tables' = Stored, Stored' = Stored, Stored \in TableType, WellKept(Stored)
    PROVE  Book!Next
  <1>1. Book!Fits(Members(Tables'), Kept(Tables'))
    BY KeptTablesFit
  <1>2. Book!Fits(Members(Tables)', Kept(Tables)')
    BY <1>1, NextBook
  <1>3. Book!Restart
    BY NextBook DEF Book!Restart
  <1> QED
    BY <1>2, <1>3 DEF Book!Next

-----------------------------------------------------------------------------
(* What the commands make of the tables                                    *)

LEMMA SlotsAre ==
    ASSUME Tables \in TableType, WellKept(Tables)
    PROVE  /\ groups \in [1..MaxGroups -> Groups \cup {NoGroup}]
           /\ scenes \in [1..MaxScenes -> Entries \cup {Empty}]
           /\ Unique(scenes)
           /\ Tables.groups = groups /\ Tables.scenes = scenes
           /\ Tables'.groups = groups' /\ Tables'.scenes = scenes'
           /\ Members(Tables) = {groups[i] : i \in 1..MaxGroups} \ {NoGroup}
           /\ Kept(Tables) = Filled(scenes) /\ Kept(Tables') = Filled(scenes')
           /\ \A e \in Kept(Tables) : e \in Entries /\ e.group \in Members(Tables) \cup {NoGroup}
  <1>1. Tables.groups = groups /\ Tables.scenes = scenes
    BY DEF Tables
  <1>2. Tables'.groups = groups' /\ Tables'.scenes = scenes'
    BY DEF Tables
  <1>3. /\ groups \in [1..MaxGroups -> Groups \cup {NoGroup}]
        /\ scenes \in [1..MaxScenes -> Entries \cup {Empty}]
    BY <1>1 DEF TableType
  <1>4. Unique(scenes)
    BY <1>1 DEF WellKept
  <1>5. Members(Tables) = {groups[i] : i \in 1..MaxGroups} \ {NoGroup}
    BY <1>1 DEF Members
  <1>6. Kept(Tables) = Filled(scenes) /\ Kept(Tables') = Filled(scenes')
    BY <1>1, <1>2, KeptAreFilled
  <1>7. \A e \in Kept(Tables) : e \in Entries
    BY <1>3, <1>6 DEF Filled
  <1>8. \A e \in Kept(Tables) : e.group \in Members(Tables) \cup {NoGroup}
    BY DEF WellKept
  <1> QED
    BY <1>1, <1>2, <1>3, <1>4, <1>5, <1>6, <1>7, <1>8

LEMMA MembersAreSlots ==
    ASSUME Tables \in TableType, WellKept(Tables), NEW group \in Groups
    PROVE  InGroup(group) <=> group \in Members(Tables)
  BY SlotsAre, ScenesAssumption DEF InGroup

LEMMA HoldsFor ==
    ASSUME Tables \in TableType, WellKept(Tables), NEW group \in Groups \cup {NoGroup}
    PROVE  MayHoldScenesFor(group) <=> group \in Members(Tables) \cup {NoGroup}
  BY MembersAreSlots DEF MayHoldScenesFor

(* The groups left alone.                                                  *)
LEMMA GroupsStay == ASSUME groups' = groups PROVE Members(Tables') = Members(Tables)
  BY DEF Tables, Members

LEMMA ScenesStay == ASSUME scenes' = scenes PROVE Kept(Tables') = Kept(Tables)
  BY DEF Tables, Kept

(* Joining a group.                                                        *)
LEMMA Joining ==
    ASSUME Tables \in TableType, WellKept(Tables), NEW group \in Groups, JoinGroup(group)
    PROVE  Members(Tables') \in {Members(Tables), Members(Tables) \cup {group}}
  <1> DEFINE free == Vacant(groups, NoGroup)
             k == First(free)
  <1>1. CASE groups' = groups
    BY <1>1, GroupsStay
  <1>2. CASE free # {} /\ groups' = [groups EXCEPT ![k] = group]
    <2>1. groups \in [1..MaxGroups -> Groups \cup {NoGroup}]
      BY SlotsAre
    <2>2. free \in SUBSET Nat /\ free \subseteq 1..MaxGroups
      BY <2>1 DEF Vacant
    <2>3. k \in free
      BY <1>2, <2>2, FirstIsOne
    <2>4. k \in 1..MaxGroups /\ groups[k] = NoGroup
      BY <2>2, <2>3 DEF Vacant
    <2> HIDE DEF k, free
    <2>5. groups'[k] = group /\ \A i \in 1..MaxGroups : i # k => groups'[i] = groups[i]
      BY <1>2, <2>1, <2>4
    <2>6. Members(Tables') = {groups'[i] : i \in 1..MaxGroups} \ {NoGroup}
      BY SlotsAre DEF Members
    <2>7. Members(Tables) = {groups[i] : i \in 1..MaxGroups} \ {NoGroup}
      BY SlotsAre
    <2>8. \A m : m \in Members(Tables') <=> m = group \/ m \in Members(Tables)
      <3> SUFFICES ASSUME NEW m
                   PROVE  m \in Members(Tables') <=> m = group \/ m \in Members(Tables)
        OBVIOUS
      <3>1. ASSUME m \in Members(Tables'), m # group PROVE m \in Members(Tables)
        BY <2>5, <2>6, <2>7, <3>1
      <3>2. ASSUME m \in Members(Tables) PROVE m \in Members(Tables')
        BY <2>4, <2>5, <2>6, <2>7, <3>2
      <3>3. group \in Members(Tables')
        BY <2>4, <2>5, <2>6, ScenesAssumption
      <3> QED
        BY <3>1, <3>2, <3>3
    <2> QED
      BY <2>8
  <1> QED
    BY <1>1, <1>2 DEF JoinGroup

(* Leaving a group.                                                        *)
LEMMA Leaving ==
    ASSUME Tables \in TableType, WellKept(Tables), NEW group \in Groups, LeaveGroup(group)
    PROVE  Members(Tables') = Members(Tables) \ {group}
  <1>1. \A i \in 1..MaxGroups : groups'[i] = IF groups[i] = group THEN NoGroup ELSE groups[i]
    BY DEF LeaveGroup
  <1>2. Members(Tables') = {groups'[i] : i \in 1..MaxGroups} \ {NoGroup}
    BY SlotsAre DEF Members
  <1>3. Members(Tables) = {groups[i] : i \in 1..MaxGroups} \ {NoGroup}
    BY SlotsAre
  <1>4. \A m : m \in Members(Tables') <=> m \in Members(Tables) /\ m # group
    <2> SUFFICES ASSUME NEW m
                 PROVE  m \in Members(Tables') <=> m \in Members(Tables) /\ m # group
      OBVIOUS
    <2>1. ASSUME m \in Members(Tables') PROVE m \in Members(Tables) /\ m # group
      BY <1>1, <1>2, <1>3, <2>1
    <2>2. ASSUME m \in Members(Tables), m # group PROVE m \in Members(Tables')
      BY <1>1, <1>2, <1>3, <2>2
    <2> QED
      BY <2>1, <2>2
  <1> QED
    BY <1>4

(* Forgetting the scenes of some groups.                                   *)
LEMMA Forgetting ==
    ASSUME Tables \in TableType, WellKept(Tables), NEW lost, ForgetScenesOf(lost)
    PROVE  /\ Unique(scenes')
           /\ Kept(Tables') = {e \in Kept(Tables) : e.group \notin lost}
  <1>1. \A i \in 1..MaxScenes : scenes'[i] = IF scenes[i] # Empty /\ scenes[i].group \in lost
                                             THEN Empty ELSE scenes[i]
    BY DEF ForgetScenesOf
  <1>2. Unique(scenes) /\ Kept(Tables) = Filled(scenes) /\ Kept(Tables') = Filled(scenes')
    BY SlotsAre
  <1>3. /\ Unique(scenes')
        /\ \A e : e \in Filled(scenes') <=> e \in Filled(scenes) /\ e.group \notin lost
    BY <1>1, <1>2, ForgettingSlots
  <1> QED
    BY <1>2, <1>3

(* Storing a scene.                                                        *)
LEMMA Storing ==
    ASSUME Tables \in TableType, WellKept(Tables), NEW e \in Entries, PutScene(e)
    PROVE  \/ scenes' = scenes
           \/ /\ e.group \in Members(Tables) \cup {NoGroup}
              /\ Unique(scenes')
              /\ Kept(Tables') = (Kept(Tables) \ {f \in Kept(Tables) : SameKey(f, e)}) \cup {e}
  <1> DEFINE same == Found(e.group, e.id)
             slots == IF same # {} THEN same ELSE Vacant(scenes, Empty)
             k == First(slots)
  <1>1. /\ scenes \in [1..MaxScenes -> Entries \cup {Empty}] /\ Unique(scenes)
        /\ Kept(Tables) = Filled(scenes) /\ Kept(Tables') = Filled(scenes')
    BY SlotsAre
  <1>2. slots \in SUBSET (1..MaxScenes)
    BY <1>1 DEF Found, Vacant
  <1>3. ASSUME MayHoldScenesFor(e.group), slots # {}, scenes' = [scenes EXCEPT ![k] = e]
        PROVE  /\ e.group \in Members(Tables) \cup {NoGroup}
               /\ Unique(scenes')
               /\ Kept(Tables') = (Kept(Tables) \ {f \in Kept(Tables) : SameKey(f, e)}) \cup {e}
    <2>1. e.group \in Members(Tables) \cup {NoGroup}
      BY <1>3, HoldsFor DEF Entries
    <2>2. k \in slots /\ k \in 1..MaxScenes
      BY <1>2, <1>3, FirstIsOne
    <2>3. \A i \in 1..MaxScenes : i \in same <=> scenes[i] # Empty /\ SameKey(scenes[i], e)
      BY DEF Found, SameKey
    <2>4. scenes[k] = Empty \/ SameKey(scenes[k], e)
      <3>1. CASE same # {}
        BY <2>2, <2>3, <3>1
      <3>2. CASE same = {}
        BY <2>2, <3>2 DEF Vacant
      <3> QED
        BY <3>1, <3>2
    <2>5. ASSUME NEW i \in 1..MaxScenes, scenes[i] # Empty, SameKey(scenes[i], e)
          PROVE  i = k
      <3>1. i \in same /\ slots = same
        BY <2>3, <2>5
      <3>2. scenes[k] # Empty /\ SameKey(scenes[k], e)
        BY <2>2, <2>3, <3>1
      <3> QED
        BY <1>1, <2>2, <2>5, <3>2 DEF Unique, SameKey
    <2> HIDE DEF k, slots, same
    <2> QED
      BY <1>1, <1>3, <2>1, <2>2, <2>4, <2>5, PuttingSlots
  <1> QED
    BY <1>3 DEF PutScene

(* Removing a scene.                                                       *)
LEMMA TakingOut ==
    ASSUME Tables \in TableType, WellKept(Tables), NEW group, NEW id, Found(group, id) # {},
           scenes' = [scenes EXCEPT ![First(Found(group, id))] = Empty]
    PROVE  /\ Unique(scenes')
           /\ Kept(Tables') = Kept(Tables) \ {f \in Kept(Tables) : f.group = group /\ f.id = id}
  <1> DEFINE k == First(Found(group, id))
  <1>1. /\ scenes \in [1..MaxScenes -> Entries \cup {Empty}] /\ Unique(scenes)
        /\ Kept(Tables) = Filled(scenes) /\ Kept(Tables') = Filled(scenes')
    BY SlotsAre
  <1>2. Found(group, id) \in SUBSET (1..MaxScenes)
    BY DEF Found
  <1>3. k \in Found(group, id)
    BY <1>2, FirstIsOne
  <1>4. k \in 1..MaxScenes /\ scenes[k] # Empty /\ scenes[k].group = group /\ scenes[k].id = id
    BY <1>3 DEF Found
  <1> HIDE DEF k
  <1>5. scenes' = [scenes EXCEPT ![k] = Empty]
    BY DEF k
  <1>6. /\ Unique(scenes')
        /\ Filled(scenes') = Filled(scenes) \ {f \in Filled(scenes) : SameKey(f, scenes[k])}
    <2>1. PICK old, new : old = scenes /\ new = scenes'
      OBVIOUS
    <2>2. /\ old \in [1..MaxScenes -> Entries \cup {Empty}] /\ Unique(old) /\ old[k] # Empty
          /\ new = [old EXCEPT ![k] = Empty]
      BY <1>1, <1>4, <1>5, <2>1
    <2>3. /\ Unique(new)
          /\ Filled(new) = Filled(old) \ {f \in Filled(old) : SameKey(f, old[k])}
      BY <1>4, <2>2, RemovingSlots
    <2> QED
      BY <2>1, <2>3
  <1> QED
    BY <1>1, <1>4, <1>6 DEF SameKey

-----------------------------------------------------------------------------
(* Every step is a step of the book                                        *)

BookStep == Book!Next \/ UNCHANGED Book!vars

LEMMA NextBookInv ==
    ASSUME IInv', WellKept(Tables'), GoodQueue(events'), GoodCopies(flash'),
           GoodCopies(saving')
    PROVE  BookInv'
  BY DEF BookInv, WellKept, GoodQueue, GoodCopies, Members, Kept, Unique, SameKey

LEMMA StoredIsKept ==
    ASSUME BookInv
    PROVE  Stored \in TableType /\ WellKept(Stored)
  <1>1. CASE flash = {}
    BY <1>1, BlankIsKept DEF Stored
  <1>2. CASE flash # {}
    <2>1. Stored \in flash
      BY <1>2 DEF Stored
    <2> QED
      BY <2>1 DEF BookInv, IInv, TypeOK, GoodCopies
  <1> QED
    BY <1>1, <1>2

LEMMA FlashStays == ASSUME flash' = flash PROVE Stored' = Stored
  BY DEF Stored

(* What is raised joins what was there.                                    *)
LEMMA RaisedIsGood ==
    ASSUME events \in Seq(Events), GoodQueue(events),
           NEW raised \in Seq(Events), GoodQueue(raised), Raise(raised)
    PROVE  GoodQueue(events')
  <1> DEFINE all == events \o raised
  <1>1. PICK over \in 0..Len(all) :
              /\ events' \in Seq(Events)
              /\ Len(events') = Len(all) - over
              /\ \A k \in 1..Len(events') : events'[k] = all[over + k]
    BY RaiseKeepsTheEnd
  <1>2. /\ Len(all) = Len(events) + Len(raised)
        /\ Len(events) \in Nat /\ Len(raised) \in Nat
        /\ \A i \in 1..Len(events) : all[i] = events[i]
        /\ \A i \in (Len(events) + 1)..(Len(events) + Len(raised)) :
              all[i] = raised[i - Len(events)]
    BY ConcatProperties
  <1> HIDE DEF all
  <1>3. \A i \in 1..Len(all) : all[i].kind = "tables" => WellKept(all[i].tables)
    <2> SUFFICES ASSUME NEW i \in 1..Len(all), all[i].kind = "tables"
                 PROVE  WellKept(all[i].tables)
      OBVIOUS
    <2>1. CASE i \in 1..Len(events)
      BY <1>2, <2>1 DEF GoodQueue
    <2>2. CASE i \notin 1..Len(events)
      <3>1. i \in (Len(events) + 1)..(Len(events) + Len(raised))
            /\ i - Len(events) \in 1..Len(raised)
        BY <1>2, <2>2
      <3> QED
        BY <1>2, <3>1 DEF GoodQueue
    <2> QED
      BY <2>1, <2>2
  <1>4. ASSUME NEW k \in 1..Len(events')
        PROVE  over + k \in 1..Len(all) /\ events'[k] = all[over + k]
    BY <1>1, <1>2
  <1> QED
    BY <1>3, <1>4 DEF GoodQueue

LEMMA SilentIsGood == ASSUME NEW q, Silent(q) PROVE GoodQueue(q)
  BY DEF Silent, GoodQueue

(* A command on the tables.                                                *)
LEMMA CommandKeepsBook ==
    ASSUME BookInv, TableCommand,
           \/ AddGroup \/ RemoveGroup \/ RemoveAllGroups \/ StoreScene
           \/ RemoveScene \/ RemoveScenesOf \/ WriteStartup
    PROVE  Tables' \in TableType /\ WellKept(Tables') /\ BookStep
  <1>1. Tables \in TableType /\ WellKept(Tables) /\ light \in Settings
    BY DEF BookInv, IInv, TypeOK
  <1>2. Stored' = Stored
    BY FlashStays DEF TableCommand, Command
  <1>3. Tables' \in TableType
    BY <1>1, TablesStayWellFormed, StoringKeepsTables
  <1> SUFFICES WellKept(Tables') /\ BookStep
    BY <1>3
  <1>4. ASSUME \A e \in Kept(Tables') : e.group \in Members(Tables') \cup {NoGroup},
               Unique(scenes')
        PROVE  WellKept(Tables')
    BY <1>4 DEF WellKept, Tables
  <1>5. /\ Unique(scenes)
        /\ \A e \in Kept(Tables) : e \in Entries /\ e.group \in Members(Tables) \cup {NoGroup}
    BY <1>1, SlotsAre
  <1>6. ASSUME Members(Tables') = Members(Tables), Kept(Tables') = Kept(Tables), scenes' = scenes
        PROVE  WellKept(Tables') /\ BookStep
    BY <1>2, <1>4, <1>5, <1>6, NoBookStep DEF BookStep
  <1>7. CASE AddGroup
    <2>1. scenes' = scenes /\ Kept(Tables') = Kept(Tables)
      BY <1>7, ScenesStay DEF AddGroup
    <2>2. CASE \E group \in Groups : JoinGroup(group)
      <3>1. PICK group \in Groups : Members(Tables') \in {Members(Tables), Members(Tables) \cup {group}}
        BY <1>1, <2>2, Joining
      <3>2. CASE Members(Tables') = Members(Tables)
        BY <1>6, <2>1, <3>2
      <3>3. CASE Members(Tables') = Members(Tables) \cup {group}
        <4>1. WellKept(Tables')
          BY <1>4, <1>5, <2>1, <3>3
        <4>2. Book!Next
          BY <1>2, <1>3, <2>1, <3>3, <4>1, TablesStep
        <4> QED
          BY <4>1, <4>2 DEF BookStep
      <3> QED
        BY <3>1, <3>2, <3>3
    <2>3. CASE UNCHANGED groups
      BY <1>6, <2>1, <2>3, GroupsStay
    <2> QED
      BY <1>7, <2>2, <2>3 DEF AddGroup
  <1>8. CASE RemoveGroup
    <2>1. PICK group \in Groups :
              /\ LeaveGroup(group)
              /\ IF InGroup(group) THEN ForgetScenesOf({group}) ELSE UNCHANGED scenes
      BY <1>8 DEF RemoveGroup
    <2>2. Members(Tables') = Members(Tables) \ {group}
      BY <1>1, <2>1, Leaving
    <2>3. CASE group \in Members(Tables)
      <3>1. ForgetScenesOf({group})
        BY <1>1, <2>1, <2>3, MembersAreSlots
      <3>2. Unique(scenes') /\ Kept(Tables') = {e \in Kept(Tables) : e.group \notin {group}}
        BY <1>1, <3>1, Forgetting
      <3>3. WellKept(Tables')
        BY <1>4, <1>5, <2>2, <3>2
      <3>4. Kept(Tables') = Kept(Tables) \ {e \in Kept(Tables) : e.group = group}
        BY <3>2
      <3> QED
        BY <1>2, <1>3, <2>2, <3>3, <3>4, TablesStep DEF BookStep
    <2>4. CASE group \notin Members(Tables)
      <3>1. scenes' = scenes
        BY <1>1, <2>1, <2>4, MembersAreSlots
      <3>2. Members(Tables') = Members(Tables)
        BY <2>2, <2>4
      <3> QED
        BY <1>6, <3>1, <3>2, ScenesStay
    <2> QED
      BY <2>3, <2>4
  <1>9. CASE RemoveAllGroups
    <2> DEFINE lost == {groups[i] : i \in 1..MaxGroups}
    <2>1. groups' = Blank.groups /\ ForgetScenesOf(lost)
      BY <1>9 DEF RemoveAllGroups
    <2>2. Members(Tables') = {}
      BY <2>1 DEF Members, Tables, Blank
    <2>3. Unique(scenes') /\ Kept(Tables') = {e \in Kept(Tables) : e.group \notin lost}
      BY <1>1, <2>1, Forgetting
    <2>4. Members(Tables) \subseteq lost
      BY <1>1, SlotsAre
    <2> HIDE DEF lost
    <2>5. \A e \in Kept(Tables') : e \in Kept(Tables) /\ e.group = NoGroup
      BY <1>5, <2>3, <2>4
    <2>6. WellKept(Tables')
      BY <1>4, <2>2, <2>3, <2>5
    <2>7. Kept(Tables') \in {{}, {e \in Kept(Tables) : e.group = NoGroup}}
      <3>1. CASE NoGroup \in lost
        BY <2>3, <2>5, <3>1
      <3>2. CASE NoGroup \notin lost
        BY <2>3, <2>5, <3>2
      <3> QED
        BY <3>1, <3>2
    <2> QED
      BY <1>2, <1>3, <2>2, <2>6, <2>7, TablesStep DEF BookStep
  <1>10. CASE StoreScene
    <2>1. PICK group \in Groups \cup {NoGroup}, id \in Ids, setting \in {light, Fresh} :
              PutScene([group |-> group, id |-> id, setting |-> setting])
      BY <1>10 DEF StoreScene
    <2> DEFINE e == [group |-> group, id |-> id, setting |-> setting]
    <2>2. setting \in Settings
      BY <1>1, FreshIsASetting
    <2>3. e \in Entries /\ e.group = group /\ e.id = id
      BY <2>2 DEF Entries
    <2>4. Members(Tables') = Members(Tables)
      BY <1>10, GroupsStay DEF StoreScene
    <2> HIDE DEF e
    <2>5. PutScene(e)
      BY <2>1 DEF e
    <2>6. CASE scenes' = scenes
      BY <1>6, <2>4, <2>6, ScenesStay
    <2>7. CASE /\ e.group \in Members(Tables) \cup {NoGroup}
               /\ Unique(scenes')
               /\ Kept(Tables') = (Kept(Tables) \ {f \in Kept(Tables) : SameKey(f, e)}) \cup {e}
      <3>1. WellKept(Tables')
        BY <1>4, <1>5, <2>4, <2>7
      <3>2. Kept(Tables') =
               (Kept(Tables) \ {f \in Kept(Tables) : f.group = group /\ f.id = id}) \cup {e}
        BY <2>3, <2>7 DEF SameKey
      <3>3. e = [group |-> group, id |-> id, setting |-> setting]
        BY DEF e
      <3> QED
        BY <1>2, <1>3, <2>2, <2>4, <3>1, <3>2, <3>3, TablesStep DEF BookStep
    <2> QED
      BY <1>1, <2>3, <2>5, <2>6, <2>7, Storing
  <1>11. CASE RemoveScene
    <2>1. PICK group \in Groups \cup {NoGroup}, id \in Ids :
              scenes' = IF Found(group, id) = {} THEN scenes
                        ELSE [scenes EXCEPT ![First(Found(group, id))] = Empty]
      BY <1>11 DEF RemoveScene
    <2>2. Members(Tables') = Members(Tables)
      BY <1>11, GroupsStay DEF RemoveScene
    <2>3. CASE Found(group, id) = {}
      BY <1>6, <2>1, <2>2, <2>3, ScenesStay
    <2>4. CASE Found(group, id) # {}
      <3>1. /\ Unique(scenes')
            /\ Kept(Tables') = Kept(Tables) \ {f \in Kept(Tables) : f.group = group /\ f.id = id}
        BY <1>1, <2>1, <2>4, TakingOut
      <3>2. WellKept(Tables')
        BY <1>4, <1>5, <2>2, <3>1
      <3> QED
        BY <1>2, <1>3, <2>2, <3>1, <3>2, TablesStep DEF BookStep
    <2> QED
      BY <2>3, <2>4
  <1>12. CASE RemoveScenesOf
    <2>1. PICK group \in Groups \cup {NoGroup} :
              IF MayHoldScenesFor(group) THEN ForgetScenesOf({group}) ELSE UNCHANGED scenes
      BY <1>12 DEF RemoveScenesOf
    <2>2. Members(Tables') = Members(Tables)
      BY <1>12, GroupsStay DEF RemoveScenesOf
    <2>3. CASE scenes' = scenes
      BY <1>6, <2>2, <2>3, ScenesStay
    <2>4. CASE ForgetScenesOf({group})
      <3>1. Unique(scenes') /\ Kept(Tables') = {e \in Kept(Tables) : e.group \notin {group}}
        BY <1>1, <2>4, Forgetting
      <3>2. WellKept(Tables')
        BY <1>4, <1>5, <2>2, <3>1
      <3>3. Kept(Tables') = Kept(Tables) \ {e \in Kept(Tables) : e.group = group}
        BY <3>1
      <3> QED
        BY <1>2, <1>3, <2>2, <3>2, <3>3, TablesStep DEF BookStep
    <2> QED
      BY <2>1, <2>3, <2>4
  <1>13. CASE WriteStartup
    BY <1>6, <1>13, GroupsStay, ScenesStay DEF WriteStartup
  <1> QED
    BY <1>7, <1>8, <1>9, <1>10, <1>11, <1>12, <1>13

LEMMA TablesCommandStep ==
    ASSUME BookInv, IInv', TableCommand,
           \/ AddGroup \/ RemoveGroup \/ RemoveAllGroups \/ StoreScene
           \/ RemoveScene \/ RemoveScenesOf \/ WriteStartup
    PROVE  BookInv' /\ BookStep
  <1>1. Tables' \in TableType /\ WellKept(Tables') /\ BookStep
    BY CommandKeepsBook
  <1>2. /\ events \in Seq(Events) /\ GoodQueue(events)
        /\ GoodCopies(flash) /\ GoodCopies(saving)
    BY DEF BookInv, IInv, TurnsOK
  <1>3. flash' = flash /\ saving' = saving /\ Raise(<<TablesChanged(Tables')>>)
    BY DEF TableCommand, Command
  <1> DEFINE e == TablesChanged(Tables')
  <1>4. e \in Events /\ e.tables = Tables'
    BY <1>1, Kinds
  <1>5. <<e>> \in Seq(Events) /\ GoodQueue(<<e>>)
    BY <1>1, <1>4 DEF GoodQueue
  <1>6. GoodQueue(events')
    BY <1>2, <1>3, <1>5, RaisedIsGood
  <1>7. GoodCopies(flash') /\ GoodCopies(saving')
    BY <1>2, <1>3
  <1> QED
    BY <1>1, <1>6, <1>7, NextBookInv

(* A step that leaves the tables and flash and raises nothing of them.     *)
LEMMA QuietStep ==
    ASSUME BookInv, IInv', Tables' = Tables, flash' = flash, saving' = saving,
           GoodQueue(events')
    PROVE  BookInv' /\ BookStep
  <1>1. WellKept(Tables') /\ GoodCopies(flash') /\ GoodCopies(saving')
    BY DEF BookInv
  <1>2. BookStep
    BY FlashStays, NoBookStep DEF BookStep
  <1> QED
    BY <1>1, <1>2, NextBookInv

(* Commands and ticks that move the light, or leave the network.           *)
LEMMA OtherRaisesStep ==
    ASSUME BookInv, IInv',
           \/ SetColour \/ SetLevel \/ MoveHue \/ HoldHue \/ RecallScene
           \/ LeaveNetwork \/ Tick
    PROVE  BookInv' /\ BookStep
  <1>1. Tables' = Tables /\ flash' = flash /\ saving' = saving
    BY DEF SetColour, SetLevel, MoveHue, HoldHue, RecallScene, LeaveNetwork, Tick,
           LightCommand, Command, Tables
  <1>2. PICK raised : raised \in Seq(Events) /\ Silent(raised) /\ Raise(raised)
    <2>1. CASE SetColour \/ SetLevel \/ MoveHue \/ HoldHue \/ RecallScene \/ Tick
      <3>1. PICK n \in Noise : Raise(Others(n))
        BY <2>1 DEF SetColour, SetLevel, MoveHue, HoldHue, RecallScene, Tick, LightCommand
      <3>2. Others(n) \in Seq(Events) /\ Silent(Others(n))
        BY OthersAreSilent, ScenesAssumption
      <3> QED
        BY <3>1, <3>2
    <2>2. CASE LeaveNetwork
      <3>1. <<Left>> \in Seq(Events) /\ Silent(<<Left>>)
        BY Kinds DEF Silent
      <3> QED
        BY <2>2, <3>1 DEF LeaveNetwork
    <2> QED
      BY <2>1, <2>2
  <1>3. events \in Seq(Events) /\ GoodQueue(events) /\ GoodQueue(raised)
    BY <1>2, SilentIsGood DEF BookInv, IInv, TurnsOK
  <1>4. GoodQueue(events')
    BY <1>2, <1>3, RaisedIsGood
  <1> QED
    BY <1>1, <1>4, QuietStep

(* The rest of a queue says nothing its first did not precede.             *)
LEMMA RestIsGood ==
    ASSUME events \in Seq(Events), events # <<>>, GoodQueue(events), NEW rest, rest = Tail(events)
    PROVE  /\ GoodQueue(rest)
           /\ Head(events).kind = "tables" =>
                 WellKept(Head(events).tables) /\ Head(events).tables \in TableType
  <1>1. /\ Len(events) \in Nat /\ Len(events) >= 1
        /\ Head(events) = events[1] /\ Head(events) \in Events
        /\ rest \in Seq(Events) /\ Len(rest) = Len(events) - 1
        /\ \A i \in 1..Len(rest) : rest[i] = events[i + 1]
    BY HeadTailProperties, EmptySeq
  <1>2. GoodQueue(rest)
    <2> SUFFICES ASSUME NEW i \in 1..Len(rest), rest[i].kind = "tables"
                 PROVE  WellKept(rest[i].tables)
      BY DEF GoodQueue
    <2>1. i + 1 \in 1..Len(events) /\ rest[i] = events[i + 1]
      BY <1>1
    <2> QED
      BY <2>1 DEF GoodQueue
  <1>3. Head(events).kind = "tables" => WellKept(Head(events).tables)
    <2>1. 1 \in 1..Len(events)
      BY <1>1
    <2> QED
      BY <1>1, <2>1 DEF GoodQueue
  <1> QED
    BY <1>1, <1>2, <1>3, Kinds

(* The events of a turn and the two steps of a write.                      *)
LEMMA EventsStep ==
    ASSUME BookInv, IInv',
           EraseTables \/ WriteTables \/ ForgetNetwork \/ OtherEvent \/ TurnOver
    PROVE  BookInv' /\ BookStep
  <1>1. /\ Tables \in TableType /\ WellKept(Tables) /\ events \in Seq(Events)
        /\ GoodQueue(events) /\ GoodCopies(flash) /\ GoodCopies(saving)
        /\ saving \subseteq TableType
    BY DEF BookInv, IInv, TypeOK, TurnsOK
  <1>2. Tables' = Tables
    BY DEF EraseTables, WriteTables, ForgetNetwork, OtherEvent, TurnOver, TakeEvent,
           memory, Tables
  <1>3. ASSUME NEW kind, TakeEvent(kind)
        PROVE  /\ GoodQueue(events')
               /\ kind = "tables" =>
                     WellKept(Head(events).tables) /\ Head(events).tables \in TableType
    BY <1>1, <1>3, RestIsGood DEF TakeEvent
  <1>4. ASSUME Stored' \in TableType, WellKept(Stored'), GoodQueue(events'),
               GoodCopies(flash'), GoodCopies(saving')
        PROVE  BookInv' /\ BookStep
    <2>1. Book!Next
      BY <1>1, <1>2, <1>4, KeepStep
    <2>2. WellKept(Tables')
      BY <1>1, <1>2
    <2> QED
      BY <1>4, <2>1, <2>2, NextBookInv DEF BookStep
  <1>5. ASSUME flash' = {} PROVE Stored' \in TableType /\ WellKept(Stored')
    <2>1. Stored' = Blank
      BY <1>5 DEF Stored, Blank
    <2> QED
      BY <2>1, BlankIsKept
  <1>6. CASE EraseTables
    <2>1. TakeEvent("tables") /\ flash' = {} /\ saving' = {Head(events).tables}
      BY <1>6 DEF EraseTables
    <2>2. GoodQueue(events') /\ WellKept(Head(events).tables)
      BY <1>3, <2>1
    <2>3. GoodCopies(flash') /\ GoodCopies(saving')
      BY <2>1, <2>2 DEF GoodCopies
    <2> QED
      BY <1>4, <1>5, <2>1, <2>2, <2>3
  <1>7. CASE WriteTables
    <2>1. saving # {} /\ flash' = saving /\ saving' = {} /\ events' = events
      BY <1>7 DEF WriteTables
    <2>2. GoodQueue(events') /\ GoodCopies(flash') /\ GoodCopies(saving')
      BY <1>1, <2>1 DEF GoodCopies
    <2>3. Stored' \in flash'
      BY <2>1 DEF Stored
    <2>4. Stored' \in TableType /\ WellKept(Stored')
      BY <1>1, <2>1, <2>2, <2>3 DEF GoodCopies
    <2> QED
      BY <1>4, <2>2, <2>4
  <1>8. CASE ForgetNetwork
    <2>1. TakeEvent("left") /\ flash' = {} /\ saving' = saving
      BY <1>8 DEF ForgetNetwork
    <2>2. GoodQueue(events')
      BY <1>3, <2>1
    <2>3. GoodCopies(flash') /\ GoodCopies(saving')
      BY <1>1, <2>1 DEF GoodCopies
    <2> QED
      BY <1>4, <1>5, <2>1, <2>2, <2>3
  <1>9. CASE OtherEvent
    <2>1. TakeEvent("other") /\ flash' = flash /\ saving' = saving
      BY <1>9 DEF OtherEvent
    <2>2. GoodQueue(events')
      BY <1>3, <2>1
    <2> QED
      BY <1>2, <2>1, <2>2, QuietStep
  <1>10. CASE TurnOver
    <2>1. flash' = flash /\ saving' = saving /\ events' = events
      BY <1>10 DEF TurnOver
    <2> QED
      BY <1>1, <1>2, <2>1, QuietStep
  <1> QED
    BY <1>6, <1>7, <1>8, <1>9, <1>10

(* A restart reads back what is stored.                                    *)
LEMMA PowerCutStep ==
    ASSUME BookInv, IInv', PowerCut
    PROVE  BookInv' /\ BookStep
  <1>1. Stored \in TableType /\ WellKept(Stored)
    BY StoredIsKept
  <1>2. flash' = flash /\ \A a, b \in flash : a = b
    BY DEF BookInv, IInv, TurnsOK, PowerCut
  <1>3. PICK t : t = Stored /\ Boot(t)
    <2>1. CASE flash = {}
      <3>1. Stored = Blank /\ Boot(Blank)
        BY <2>1 DEF PowerCut, Stored
      <3> QED
        BY <3>1
    <2>2. CASE flash # {}
      <3>1. PICK t \in flash : Boot(t)
        BY <2>2 DEF PowerCut
      <3>2. flash = {t}
        BY <1>2
      <3>3. Stored = t
        BY <3>2, StoredIsTheCopy
      <3> QED
        BY <3>1, <3>3
    <2> QED
      BY <2>1, <2>2
  <1>4. Tables' = t
    BY <1>1, <1>3 DEF Boot, Tables, TableType
  <1>5. Stored' = Stored
    BY <1>2, FlashStays
  <1>6. Book!Next
    BY <1>1, <1>3, <1>4, <1>5, RestartStep
  <1>7. events' = <<>> /\ saving' = {}
    BY <1>3 DEF Boot
  <1>8. GoodQueue(events') /\ GoodCopies(flash') /\ GoodCopies(saving')
    BY <1>2, <1>7 DEF BookInv, GoodQueue, GoodCopies
  <1> QED
    BY <1>1, <1>3, <1>4, <1>6, <1>8, NextBookInv DEF BookStep

LEMMA StartsAsABook == ASSUME Init PROVE BookInv /\ Book!Init
  <1>1. /\ Tables = Blank /\ Stored = Blank /\ events = <<>> /\ flash = {} /\ saving = {}
    BY DEF Init, Tables, Blank, Stored
  <1>2. BookInv
    BY <1>1, InitialTables, BlankIsKept DEF BookInv, GoodQueue, GoodCopies
  <1> QED
    BY <1>1, <1>2, BlankIsKept DEF Book!Init

LEMMA EveryStepIsABookStep ==
    ASSUME BookInv, [Next]_vars
    PROVE  BookInv' /\ BookStep
  <1>1. IInv'
    BY EveryStepFollows DEF BookInv
  <1>2. CASE \/ AddGroup \/ RemoveGroup \/ RemoveAllGroups \/ StoreScene
             \/ RemoveScene \/ RemoveScenesOf \/ WriteStartup
    <2>1. TableCommand
      BY <1>2 DEF AddGroup, RemoveGroup, RemoveAllGroups, StoreScene, RemoveScene,
                  RemoveScenesOf, WriteStartup
    <2> QED
      BY <1>1, <1>2, <2>1, TablesCommandStep
  <1>3. CASE \/ SetColour \/ SetLevel \/ MoveHue \/ HoldHue \/ RecallScene
             \/ LeaveNetwork \/ Tick
    BY <1>1, <1>3, OtherRaisesStep
  <1>4. CASE EraseTables \/ WriteTables \/ ForgetNetwork \/ OtherEvent \/ TurnOver
    BY <1>1, <1>4, EventsStep
  <1>5. CASE PowerCut
    BY <1>1, <1>5, PowerCutStep
  <1>6. CASE UNCHANGED vars
    <2>1. Tables' = Tables /\ flash' = flash /\ saving' = saving /\ events' = events
      BY <1>6 DEF vars, Tables
    <2>2. GoodQueue(events')
      BY <2>1 DEF BookInv
    <2> QED
      BY <1>1, <2>1, <2>2, QuietStep
  <1> QED
    BY <1>2, <1>3, <1>4, <1>5, <1>6 DEF Next

(* The tables are what the clusters promise, through full tables, vacant   *)
(* slots in the middle, lost events and power cuts: a setting is found     *)
(* under one group and identifier only, sits in a group the light is in,   *)
(* and goes with it.                                                       *)
THEOREM TablesAreABook == Spec => ImplementsBook
  <1>1. Init => BookInv /\ Book!Init
    BY StartsAsABook
  <1>2. BookInv /\ [Next]_vars => BookInv' /\ [Book!Next]_(Book!vars)
    BY EveryStepIsABookStep DEF BookStep
  <1> QED
    BY <1>1, <1>2, PTL DEF Spec, ImplementsBook, Book!Spec
=============================================================================
