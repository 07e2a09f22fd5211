------------------------------- MODULE Scenes -------------------------------
(***************************************************************************)
(* Groups, scenes and the colour they remember (zigbee/src/zcl.rs), and    *)
(* the way of the tables to flash and back (`Tables` and the event queue   *)
(* of zigbee/src/device.rs, firmware/src/main.rs and store.rs): a command  *)
(* changes the tables in memory and raises an event that carries them, the *)
(* queue gives up its oldest event when full, the main loop acts on events *)
(* at the end of its turn, and the sector is erased before it is written.  *)
(*                                                                         *)
(* Hue stands for hue and saturation, a temperature for a point on the     *)
(* colour plane too: both are set, kept and recalled alike.  The switch,   *)
(* which a scene also remembers, is Light's subject, and which scene the   *)
(* attributes name as the current one is left out; so are the start-up     *)
(* settings the tables carry, which decide what the light boots with.      *)
(* The module implements SceneBook.                                        *)
(***************************************************************************)
EXTENDS Integers, Sequences, FiniteSets

CONSTANTS
    Groups, NoGroup,        \* group addresses, and NO_GROUP
    Ids,                    \* scene identifiers
    Empty,                  \* a scene slot that holds none
    Levels, FullLevel,      \* brightnesses, MAX_LEVEL among them
    Mireds, WarmWhite,      \* colour temperatures, the default among them
    Hues, Red,              \* hues, the first among them
    MaxGroups, MaxScenes,   \* the sizes of the tables
    EventCapacity,          \* EVENT_CAPACITY
    Noise,                  \* how many other events a command or a tick may raise
    Burst                   \* bound: commands handled in one turn

ASSUME ScenesAssumption ==
    /\ NoGroup \notin Groups
    /\ FullLevel \in Levels /\ WarmWhite \in Mireds /\ Red \in Hues
    /\ {MaxGroups, MaxScenes, EventCapacity} \subseteq Nat \ {0}
    /\ Noise \subseteq Nat /\ Burst \in Nat

VARIABLES
    groups, scenes, \* the two tables, slot by slot
    light,          \* the brightness and the colour, with what each mode is at
    turning,        \* a hue is on the move
    valid,          \* scene_valid: the scene recalled last is still live
    stage,          \* "receive", closed by the tick, or "events"
    handled,        \* commands handled this turn
    events,         \* the event queue
    flash,          \* the tables sector: none, or one copy of the tables
    saving,         \* the copy whose sector is erased and not yet written
    recalled,       \* history: the light as the live scene left it
    stale           \* history: flash was left without the tables in memory

vars == <<groups, scenes, light, turning, valid, stage, handled,
          events, flash, saving, recalled, stale>>

Settings == [level : Levels, mode : {"hue", "white"}, hue : Hues,
             mireds : Mireds]
Entries == [group : Groups \cup {NoGroup}, id : Ids, setting : Settings]

(* A slot of the code is an Option: none is no scene.                      *)
ASSUME EmptyAssumption == Empty \notin Entries

Tables == [groups |-> groups, scenes |-> scenes]

Blank == [groups |-> [i \in 1..MaxGroups |-> NoGroup],
          scenes |-> [i \in 1..MaxScenes |-> Empty]]
Fresh == [level |-> FullLevel, mode |-> "white", hue |-> Red, mireds |-> WarmWhite]

Other == [kind |-> "other"]
Left == [kind |-> "left"]
TablesChanged(tables) == [kind |-> "tables", tables |-> tables]

Least(a, b) == IF a < b THEN a ELSE b

-----------------------------------------------------------------------------
(* The tables                                                              *)

InGroup(group) == group # NoGroup /\ \E i \in 1..MaxGroups : groups[i] = group

First(slots) == CHOOSE i \in slots : \A j \in slots : i <= j

Vacant(table, none) == {i \in DOMAIN table : table[i] = none}

JoinGroup(group) ==
    groups' = IF InGroup(group) \/ Vacant(groups, NoGroup) = {} THEN groups
              ELSE [groups EXCEPT ![First(Vacant(groups, NoGroup))] = group]

LeaveGroup(group) ==
    groups' = [i \in 1..MaxGroups |-> IF groups[i] = group THEN NoGroup ELSE groups[i]]

(* `forget_scenes_of`, for a set of groups.                                *)
ForgetScenesOf(lost) ==
    scenes' = [i \in 1..MaxScenes |->
                  IF scenes[i] # Empty /\ scenes[i].group \in lost
                  THEN Empty ELSE scenes[i]]

MayHoldScenesFor(group) == group = NoGroup \/ InGroup(group)

Found(group, id) ==
    {i \in 1..MaxScenes : scenes[i] # Empty /\ scenes[i].group = group /\ scenes[i].id = id}

PutScene(scene) ==
    LET same == Found(scene.group, scene.id)
        slots == IF same # {} THEN same ELSE Vacant(scenes, Empty)
    IN  scenes' = IF ~MayHoldScenesFor(scene.group) \/ slots = {} THEN scenes
                  ELSE [scenes EXCEPT ![First(slots)] = scene]

-----------------------------------------------------------------------------
(* Events                                                                  *)

(* A queue with no limit.                                                  *)
RaiseUnbounded(raised) ==
    /\ events' = events \o raised
    /\ UNCHANGED stale

(* Events are queued; the oldest give way, a copy of the tables with them. *)
Raise(raised) ==
    LET all == events \o raised
        over == Len(all) - Least(Len(all), EventCapacity)
    IN  /\ events' = SubSeq(all, over + 1, Len(all))
        /\ stale' = (stale \/ \E i \in 1..over : all[i].kind = "tables")

Others(n) == [i \in 1..n |-> Other]

Command ==
    /\ stage = "receive" /\ handled < Burst
    /\ handled' = handled + 1
    /\ UNCHANGED <<stage, flash, saving>>

(* A command that touches the tables offers them, whatever came of it.     *)
TableCommand ==
    /\ Command
    /\ Raise(<<TablesChanged(Tables')>>)
    /\ UNCHANGED <<light, turning, valid, recalled>>

-----------------------------------------------------------------------------
(* Group and scene commands                                                *)

(* GROUP_ADD, or GROUP_ADD_IF_IDENTIFYING; an address refused and a light  *)
(* that is not identifying change nothing and offer the tables too.        *)
AddGroup ==
    /\ \/ \E group \in Groups : JoinGroup(group)
       \/ UNCHANGED groups
    /\ UNCHANGED scenes
    /\ TableCommand

(* Leaving a group and keeping its scenes.                                 *)
RemoveGroupKeepsScenes ==
    /\ \E group \in Groups : LeaveGroup(group)
    /\ UNCHANGED scenes
    /\ TableCommand

RemoveGroup ==
    /\ \E group \in Groups :
          /\ LeaveGroup(group)
          /\ IF InGroup(group) THEN ForgetScenesOf({group}) ELSE UNCHANGED scenes
    /\ TableCommand

(* `leave_every_group` goes through the slots, the vacant ones included,   *)
(* so the scenes of no group go unless every slot is taken.                *)
RemoveAllGroups ==
    /\ groups' = Blank.groups
    /\ ForgetScenesOf({groups[i] : i \in 1..MaxGroups})
    /\ TableCommand

(* SCENE_STORE, and SCENE_ADD with fields of its own.                      *)
StoreScene ==
    /\ \E group \in Groups \cup {NoGroup}, id \in Ids, setting \in {light, Fresh} :
          PutScene([group |-> group, id |-> id, setting |-> setting])
    /\ UNCHANGED groups
    /\ TableCommand

(* A scene removed and the copy in flash kept as it was.                   *)
RemoveSceneUnsaid ==
    /\ \E group \in Groups \cup {NoGroup}, id \in Ids : \E i \in Found(group, id) :
          scenes' = [scenes EXCEPT ![i] = Empty]
    /\ Command
    /\ UNCHANGED <<groups, light, turning, valid, recalled, events, stale>>

RemoveScene ==
    /\ \E group \in Groups \cup {NoGroup}, id \in Ids :
          scenes' = IF Found(group, id) = {} THEN scenes
                    ELSE [scenes EXCEPT ![First(Found(group, id))] = Empty]
    /\ UNCHANGED groups
    /\ TableCommand

RemoveScenesOf ==
    /\ \E group \in Groups \cup {NoGroup} :
          IF MayHoldScenesFor(group) THEN ForgetScenesOf({group}) ELSE UNCHANGED scenes
    /\ UNCHANGED groups
    /\ TableCommand

(* A write of a start-up setting, which the tables carry with them.        *)
WriteStartup ==
    /\ UNCHANGED <<groups, scenes>>
    /\ TableCommand

-----------------------------------------------------------------------------
(* The light                                                               *)

LightCommand ==
    /\ Command
    /\ \E n \in Noise : Raise(Others(n))
    /\ UNCHANGED <<groups, scenes>>

(* A change leaves the scene behind, and so does a brightness that only    *)
(* switches the light.                                                     *)
SetLight(to) ==
    /\ light' = to
    /\ valid' \in (IF to = light THEN {valid, FALSE} ELSE {FALSE})
    /\ recalled' = IF valid' THEN recalled ELSE Fresh

(* A colour set and the scene still said to be live.                       *)
SetColourKeepsScene ==
    /\ LightCommand
    /\ light' \in {[light EXCEPT !.mode = "hue", !.hue = h] : h \in Hues}
                  \cup {[light EXCEPT !.mode = "white", !.mireds = m] : m \in Mireds}
    /\ UNCHANGED <<turning, valid, recalled>>

(* Move to a hue, a step of the hue, a point or a temperature: none of     *)
(* them stops a hue on the move.                                           *)
SetColour ==
    /\ LightCommand
    /\ \E to \in {[light EXCEPT !.mode = "hue", !.hue = h] : h \in Hues}
                 \cup {[light EXCEPT !.mode = "white", !.mireds = m] : m \in Mireds} : SetLight(to)
    /\ UNCHANGED turning

SetLevel ==
    /\ LightCommand
    /\ \E level \in Levels : SetLight([light EXCEPT !.level = level])
    /\ UNCHANGED turning

(* `turn_hue`, at a rate that is not zero.                                 *)
MoveHue ==
    /\ LightCommand
    /\ turning' = TRUE
    /\ SetLight([light EXCEPT !.mode = "hue"])

(* A hold, a stop, or a move at no rate.                                   *)
HoldHue ==
    /\ LightCommand
    /\ turning' = FALSE
    /\ UNCHANGED <<light, valid, recalled>>

(* `recall_scene` applies the brightness and what the scene's mode says.   *)
RecallScene ==
    /\ LightCommand
    /\ \E group \in Groups \cup {NoGroup}, id \in Ids :
       \E i \in Found(group, id) :
          LET s == scenes[i].setting
              at == [light EXCEPT !.level = s.level, !.mode = s.mode]
          IN  light' = IF s.mode = "white" THEN [at EXCEPT !.mireds = s.mireds]
                       ELSE [at EXCEPT !.hue = s.hue]
    /\ valid' = TRUE
    /\ recalled' = light'
    /\ UNCHANGED turning

(* The device is told to leave, or gives up its network: the tables stay   *)
(* in memory.                                                              *)
LeaveNetwork ==
    /\ Command
    /\ Raise(<<Left>>)
    /\ UNCHANGED <<groups, scenes, light, turning, valid, recalled>>

(* `tick`: `turned_to` carries a hue on the move forward, round the circle *)
(* to whatever its rate and the time passed make of it, and a ramp, which  *)
(* is Light's subject, takes the brightness wherever it goes.              *)
Tick ==
    /\ stage = "receive"
    /\ stage' = "events"
    /\ handled' = 0
    /\ \E level \in Levels, h \in (IF turning THEN Hues ELSE {light.hue}) :
          SetLight([light EXCEPT !.level = level, !.hue = h,
                                 !.mode = IF turning THEN "hue" ELSE @])
    /\ \E n \in Noise : Raise(Others(n))
    /\ UNCHANGED <<groups, scenes, turning, flash, saving>>

-----------------------------------------------------------------------------
(* The events of a turn, and the tables sector                             *)

memory == <<groups, scenes, light, turning, valid, recalled>>

TakeEvent(kind) ==
    /\ stage = "events" /\ saving = {} /\ events # <<>>
    /\ Head(events).kind = kind
    /\ events' = Tail(events)
    /\ UNCHANGED <<memory, stage, handled>>

EraseTables ==
    /\ TakeEvent("tables")
    /\ flash' = {}
    /\ saving' = {Head(events).tables}
    /\ UNCHANGED stale

WriteTables ==
    /\ saving # {}
    /\ flash' = saving
    /\ saving' = {}
    /\ stale' = FALSE
    /\ UNCHANGED <<memory, stage, handled, events>>

ForgetNetwork ==
    /\ TakeEvent("left")
    /\ flash' = {}
    /\ stale' = TRUE
    /\ UNCHANGED saving

OtherEvent ==
    /\ TakeEvent("other")
    /\ UNCHANGED <<flash, saving, stale>>

TurnOver ==
    /\ stage = "events" /\ saving = {} /\ events = <<>>
    /\ stage' = "receive"
    /\ UNCHANGED <<memory, handled, events, flash, saving, stale>>

(* The power fails and comes back: `Tables::apply`.                        *)
Boot(tables) ==
    /\ groups' = tables.groups
    /\ scenes' = tables.scenes
    /\ turning' = FALSE
    /\ valid' = FALSE
    /\ recalled' = Fresh
    /\ stage' = "receive"
    /\ handled' = 0
    /\ events' = <<>>
    /\ saving' = {}
    /\ stale' = FALSE

(* Tables found in flash say in `start_up` what temperature to boot with.  *)
PowerCut ==
    /\ UNCHANGED flash
    /\ IF flash = {} THEN Boot(Blank) /\ light' = Fresh
       ELSE \E tables \in flash, m \in Mireds :
               Boot(tables) /\ light' = [Fresh EXCEPT !.mireds = m]

Init ==
    /\ groups = Blank.groups /\ scenes = Blank.scenes
    /\ light = Fresh
    /\ turning = FALSE /\ valid = FALSE /\ recalled = Fresh
    /\ stage = "receive" /\ handled = 0 /\ events = <<>>
    /\ flash = {} /\ saving = {} /\ stale = FALSE

Next ==
    \/ AddGroup \/ RemoveGroup \/ RemoveAllGroups
    \/ StoreScene \/ RemoveScene \/ RemoveScenesOf \/ WriteStartup
    \/ SetColour \/ SetLevel \/ MoveHue \/ HoldHue \/ RecallScene
    \/ LeaveNetwork \/ Tick
    \/ EraseTables \/ WriteTables \/ ForgetNetwork \/ OtherEvent \/ TurnOver
    \/ PowerCut

Spec == Init /\ [][Next]_vars

-----------------------------------------------------------------------------
(* Properties                                                              *)

TableType == [groups : [1..MaxGroups -> Groups \cup {NoGroup}],
              scenes : [1..MaxScenes -> Entries \cup {Empty}]]

TypeOK ==
    /\ Tables \in TableType
    /\ light \in Settings /\ recalled \in Settings
    /\ stage \in {"receive", "events"} /\ handled \in 0..Burst
    /\ Len(events) <= EventCapacity
    /\ flash \subseteq TableType /\ saving \subseteq TableType
    /\ {turning, valid, stale} \subseteq BOOLEAN

Members(tables) == {tables.groups[i] : i \in 1..MaxGroups} \ {NoGroup}
Kept(tables) == {tables.scenes[i] : i \in 1..MaxScenes} \ {Empty}
Stored == IF flash = {} THEN Blank ELSE CHOOSE tables \in flash : TRUE

Book == INSTANCE SceneBook
            WITH members <- Members(Tables), book <- Kept(Tables),
                 copy <- [members |-> Members(Stored), book |-> Kept(Stored)]

(* The tables are what the clusters promise: a setting is found under one  *)
(* group and identifier only, sits in a group the light is in, and goes    *)
(* with it, through full tables, vacant slots in the middle and restarts.  *)
ImplementsBook == Book!Spec

(* README.md:43: groups and scenes come back.  Between two turns flash     *)
(* holds the tables in memory, unless the queue gave up their event or the *)
(* device left its network since.                                          *)
FlashHoldsTheTables ==
    stage = "receive" /\ handled = 0 /\ ~stale => Stored = Tables

(* A scene said to be live is the light as the scene left it, through      *)
(* every command, every recall and a hue on the move.                      *)
LiveSceneIsShown == valid => light = recalled
=============================================================================
