----------------------------- MODULE Membership -----------------------------
(***************************************************************************)
(* How the device gets onto a network, stays on it and finds its way back, *)
(* and what the firmware's flash knows about that at every step.           *)
(*                                                                         *)
(* Three parts move here: the phase machine of zigbee/src/device.rs, the   *)
(* main loop of firmware/src/main.rs that drives it (drain the radio,      *)
(* tick, retune, transmit, act on the events, and round again), and the    *)
(* credentials sector of firmware/src/store.rs.  The network is the        *)
(* environment: it may send any frame of Frames, and the radio hears those *)
(* its channel and its address filter let through.                         *)
(*                                                                         *)
(* Deadlines are abstracted to a choice: a tick may find a deadline        *)
(* reached or not.  Frame counters are the subject of FrameCounter.        *)
(***************************************************************************)
EXTENDS Integers, Sequences, FiniteSets

CONSTANTS
    Pans,            \* the PANs within radio range
    ChannelOf,       \* [Pans -> FirstChannel..LastChannel]
    FirstChannel,    \* CHANNELS.start()
    LastChannel,     \* CHANNELS.end()
    Shorts,          \* short addresses a coordinator allocates
    Beacons,         \* the beacons on the air: see BeaconType
    KeyRing,         \* the network keys trust centres hand out: see RingType
    NoKey,           \* network_key is None
    Unassigned,      \* UNASSIGNED, 0xffff, as a PAN and as a short address
    Coordinator,     \* nwk::COORDINATOR, the parent of a new device
    EventCapacity,   \* EVENT_CAPACITY
    OutboxCapacity,  \* OUTBOX_CAPACITY
    MaxFailures,     \* FAILURES_BEFORE_REJOIN
    LightEvents,     \* how many light events one frame or one tick may raise
    TickFrames,      \* how many frames a joined tick may queue
    Burst,           \* bound: frames handled in one turn of the loop
    LateBound        \* bound: frames that arrive between the drain and the retune

Routers == {b.source : b \in Beacons} \cup {Coordinator}
Keys == {r.key : r \in KeyRing}
KeySequences == {r.seq : r \in KeyRing} \cup {0}
Channels == FirstChannel..LastChannel

ASSUME MembershipAssumption ==
    /\ FirstChannel \in Nat /\ LastChannel \in Nat /\ FirstChannel <= LastChannel
    /\ ChannelOf \in [Pans -> Channels]
    /\ \A b \in Beacons : /\ b.pan \in Pans /\ b.depth \in Nat /\ b.lqi \in Nat
                          /\ b.permit \in BOOLEAN /\ b.capacity \in BOOLEAN
    /\ \A r \in KeyRing : r.pan \in Pans /\ r.seq \in Nat
    /\ NoKey \notin Keys
    /\ Unassigned \notin Pans \cup Shorts
    /\ EventCapacity \in Nat \ {0} /\ OutboxCapacity \in Nat \ {0}
    /\ MaxFailures \in Nat \ {0}
    /\ LightEvents \subseteq Nat /\ TickFrames \subseteq Nat
    /\ Burst \in Nat /\ LateBound \in Nat

VARIABLES
    phase,      \* Phase: a name, the candidate held (or none), the quality asked
    radio,      \* the RadioConfig the stack wants: [channel, pan, short]
    parent,     \* the short address the device talks through
    key,        \* network_key
    sequence,   \* key_sequence
    nextKey,    \* next_network_key: none, or one [key, seq]
    failures,   \* consecutive_failures
    outbox,     \* how many frames wait in the outbox
    events,     \* the event queue, oldest first
    stage,      \* where the main loop is
    tuned,      \* the RadioConfig the radio was last given
    late,       \* frames the radio queued after the drain, in order
    handled,    \* how many frames this turn has handled
    saving,     \* the record being written: none, or the one whose sector is erased
    flash       \* the credentials sector: none when it does not read back

deviceVars == <<phase, radio, parent, key, sequence, nextKey, failures>>
queueVars == <<outbox, events>>
loopVars == <<stage, tuned, late, handled>>
flashVars == <<saving, flash>>
vars == <<deviceVars, queueVars, loopVars, flashVars>>

-----------------------------------------------------------------------------
(* Data                                                                    *)

Phase(name) == [name |-> name, best |-> {}, asked |-> {}]

Credentials == [channel |-> radio.channel, pan |-> radio.pan,
                short |-> radio.short, parent |-> parent,
                key |-> key, seq |-> sequence]

Left == [kind |-> "Left"]
Joined == [kind |-> "Joined"]
LightChanged == [kind |-> "LightChanged"]
CredentialsChanged(saved) == [kind |-> "CredentialsChanged", saved |-> saved]

(* A queue that has been pushed past its capacity keeps the newest.        *)
Newest(q, n) == IF Len(q) <= n THEN q ELSE SubSeq(q, Len(q) - n + 1, Len(q))

Emitted(raised) == Newest(events \o raised, EventCapacity)
Queued(n) == IF outbox + n <= OutboxCapacity THEN outbox + n ELSE OutboxCapacity
Light(n) == [i \in 1..n |-> LightChanged]

joined == phase.name = "Joined"
Member == phase.name \in {"Joined", "Rejoining"}

(* The frames the network may send.  `under` is the key ring entry that    *)
(* secures the frame at the network layer, or none.                        *)
Ring(pan) == {r \in KeyRing : r.pan = pan}
BeaconFrames == [kind : {"beacon"}, beacon : Beacons]
AssociationFrames ==
    [kind : {"association"}, pan : Pans, accepted : BOOLEAN, short : Shorts]
TransportFrames ==
    UNION {[kind : {"transport"}, pan : {p}, new : Ring(p),
            under : {{}} \cup {{r} : r \in Ring(p)}] : p \in Pans}
SecuredFrames ==
    UNION {[kind : {"leave", "light"}, pan : {p}, under : {{r} : r \in Ring(p)}]
           : p \in Pans}
SwitchFrames ==
    {f \in UNION {[kind : {"switch"}, pan : {p}, to : {r.seq : r \in Ring(p)},
                   under : {{r} : r \in Ring(p)}] : p \in Pans} :
        \A r \in f.under : r.seq # f.to}
RejoinFrames ==
    UNION {[kind : {"rejoin"}, pan : {p}, accepted : BOOLEAN, short : Shorts,
            source : {b.source : b \in {c \in Beacons : c.pan = p}},
            under : {{r} : r \in Ring(p)}] : p \in Pans}
Frames == BeaconFrames \cup AssociationFrames \cup TransportFrames
              \cup SecuredFrames \cup SwitchFrames \cup RejoinFrames

(* The radio's filter: its channel, and its PAN once it has one.  An       *)
(* association response is addressed to the extended address, everything   *)
(* but a beacon to the short one.                                          *)
Audible(f) ==
    IF f.kind = "beacon"
    THEN /\ ChannelOf[f.beacon.pan] = tuned.channel
         /\ tuned.pan \in {Unassigned, f.beacon.pan}
    ELSE /\ ChannelOf[f.pan] = tuned.channel
         /\ tuned.pan = f.pan
         /\ f.kind = "association" \/ tuned.short # Unassigned

(* `key_for`: the held key when the frame names its sequence number, the   *)
(* one in use otherwise.                                                   *)
KeyFor(seq) ==
    IF \E held \in nextKey : held.seq = seq
    THEN (CHOOSE held \in nextKey : TRUE).key
    ELSE key

(* A frame is read when it is in the clear or its integrity code checks    *)
(* under the key picked for it.                                            *)
Readable(f) == \A r \in f.under : KeyFor(r.seq) = r.key

(* `Candidate::beats`: link quality decides, hop count breaks a tie.       *)
Beats(c, held) == \/ c.lqi > held.lqi
                  \/ c.lqi = held.lqi /\ c.depth < held.depth

-----------------------------------------------------------------------------
(* Boot                                                                    *)

New == [radio |-> [channel |-> FirstChannel, pan |-> Unassigned,
                   short |-> Unassigned],
        parent |-> Coordinator, key |-> NoKey, seq |-> 0, phase |-> "Scanning"]

Restored(saved) ==
    [radio |-> [channel |-> saved.channel, pan |-> saved.pan,
                short |-> saved.short],
     parent |-> saved.parent, key |-> saved.key, seq |-> saved.seq,
     phase |-> "Joined"]

Init ==
    /\ phase = Phase("Scanning")
    /\ radio = New.radio
    /\ parent = New.parent
    /\ key = NoKey
    /\ sequence = 0
    /\ nextKey = {}
    /\ failures = 0
    /\ outbox = 0
    /\ events = <<>>
    /\ stage = "receive"
    /\ tuned = New.radio
    /\ late = <<>>
    /\ handled = 0
    /\ saving = {}
    /\ flash = {}

(* A power cut at any point of the loop, and the boot that follows.  A     *)
(* device with credentials comes back joined, with a rejoin request and an *)
(* announcement in its outbox, and the announcement has reserved a fresh   *)
(* range of frame counters; any other comes back new.                      *)
PowerCut ==
    LET booted == IF flash = {} THEN New
                  ELSE Restored(CHOOSE saved \in flash : TRUE)
    IN  /\ phase' = Phase(booted.phase)
        /\ radio' = booted.radio
        /\ parent' = booted.parent
        /\ key' = booted.key
        /\ sequence' = booted.seq
        /\ nextKey' = {}
        /\ failures' = 0
        /\ outbox' = IF flash = {} THEN 0
                     ELSE IF OutboxCapacity >= 2 THEN 2 ELSE 1
        /\ events' = [i \in 1..Cardinality(flash) |->
                         CredentialsChanged(CHOOSE saved \in flash : TRUE)]
        /\ stage' = "receive"
        /\ tuned' = booted.radio
        /\ late' = <<>>
        /\ handled' = 0
        /\ saving' = {}
        /\ UNCHANGED flash

-----------------------------------------------------------------------------
(* Leaving, and what a frame does                                          *)

(* `restart_scan` that forgets to give up the PAN and the address.         *)
RestartScanKeepsPan(raised) ==
    /\ key' = NoKey
    /\ phase' = Phase("Scanning")
    /\ events' = Emitted(raised \o <<Left>>)
    /\ UNCHANGED <<radio, parent, sequence, nextKey, failures>>

(* `restart_scan`: the network is forgotten and the caller is told.  The   *)
(* channel, the parent, the held next key and the run of failures stay.    *)
RestartScan(raised) ==
    /\ radio' = [radio EXCEPT !.pan = Unassigned, !.short = Unassigned]
    /\ key' = NoKey
    /\ phase' = Phase("Scanning")
    /\ events' = Emitted(raised \o <<Left>>)
    /\ UNCHANGED <<parent, sequence, nextKey, failures>>

(* `remember`, the timeout request and the announcement, and the news.     *)
TakeMembership(saved) ==
    /\ phase' = Phase("Joined")
    /\ outbox' = Queued(2)
    /\ events' = Emitted(<<CredentialsChanged(saved), Joined>>)

(* A router of the network heard better than the ones already asked.       *)
AskableRouter(f) ==
    /\ phase.name = "Rejoining"
    /\ f.beacon.pan = radio.pan
    /\ f.beacon.capacity
    /\ \A heard \in phase.asked : f.beacon.lqi > heard

AskRouter(f) ==
    /\ AskableRouter(f)
    /\ phase' = [phase EXCEPT !.asked = {f.beacon.lqi}]
    /\ outbox' = Queued(1)
    /\ UNCHANGED <<radio, parent, key, sequence, nextKey, failures, events>>

(* A parent that takes joiners, and beats the one held.  The channel it is *)
(* credited with is the one the stack wants now.                           *)
Candidate(f) == [channel |-> radio.channel, pan |-> f.beacon.pan,
                 parent |-> f.beacon.source, depth |-> f.beacon.depth,
                 lqi |-> f.beacon.lqi]

BetterCandidate(f) ==
    /\ phase.name = "Scanning"
    /\ f.beacon.permit /\ f.beacon.capacity
    /\ \A held \in phase.best : Beats(Candidate(f), held)

HoldCandidate(f) ==
    /\ BetterCandidate(f)
    /\ phase' = [phase EXCEPT !.best = {Candidate(f)}]
    /\ UNCHANGED <<radio, parent, key, sequence, nextKey, failures, queueVars>>

OnBeacon(f) ==
    /\ f.kind = "beacon"
    /\ AskRouter(f) \/ HoldCandidate(f)

OnAssociationResponse(f) ==
    /\ f.kind = "association"
    /\ phase.name = "Associating"
    /\ \/ /\ ~f.accepted
          /\ RestartScan(<<>>)
          /\ UNCHANGED outbox
       \/ /\ f.accepted
          /\ \E candidate \in phase.best :
                /\ radio' = [channel |-> candidate.channel,
                             pan |-> candidate.pan, short |-> f.short]
                /\ parent' = candidate.parent
          /\ phase' = Phase("WaitingForKey")
          /\ UNCHANGED <<key, sequence, nextKey, failures, queueVars>>

(* `on_transport_key`: held as a rotation when joined; in every other      *)
(* phase it is the key of the network, and the device is on it.            *)
OnTransportKey(f) ==
    /\ f.kind = "transport"
    /\ Readable(f)
    /\ \/ /\ joined
          /\ nextKey' = {[key |-> f.new.key, seq |-> f.new.seq]}
          /\ UNCHANGED <<phase, radio, parent, key, sequence, failures, queueVars>>
       \/ /\ ~joined
          /\ key' = f.new.key
          /\ sequence' = f.new.seq
          /\ TakeMembership([Credentials EXCEPT !.key = f.new.key,
                                                !.seq = f.new.seq])
          /\ UNCHANGED <<radio, parent, nextKey, failures>>

OnLeave(f) ==
    /\ f.kind = "leave"
    /\ Readable(f)
    /\ RestartScan(<<>>)
    /\ UNCHANGED outbox

(* `on_switch_key` that saves the record before it takes the new key.      *)
OnSwitchKeySavesOld(f) ==
    /\ f.kind = "switch"
    /\ Readable(f)
    /\ \E held \in nextKey :
          /\ held.seq = f.to
          /\ key' = held.key
          /\ sequence' = held.seq
          /\ events' = Emitted(<<CredentialsChanged(Credentials)>>)
    /\ nextKey' = {}
    /\ UNCHANGED <<phase, radio, parent, failures, outbox>>

(* `on_switch_key` that takes the key and not its sequence number.         *)
OnSwitchKeyKeepsSequence(f) ==
    /\ f.kind = "switch"
    /\ Readable(f)
    /\ \E held \in nextKey :
          /\ held.seq = f.to
          /\ key' = held.key
          /\ events' = Emitted(<<CredentialsChanged(
                          [Credentials EXCEPT !.key = held.key])>>)
    /\ nextKey' = {}
    /\ UNCHANGED <<phase, radio, parent, sequence, failures, outbox>>

OnSwitchKey(f) ==
    /\ f.kind = "switch"
    /\ Readable(f)
    /\ \E held \in nextKey :
          /\ held.seq = f.to
          /\ key' = held.key
          /\ sequence' = held.seq
          /\ events' = Emitted(<<CredentialsChanged(
                          [Credentials EXCEPT !.key = held.key,
                                              !.seq = held.seq])>>)
    /\ nextKey' = {}
    /\ UNCHANGED <<phase, radio, parent, failures, outbox>>

OnRejoinResponse(f) ==
    /\ f.kind = "rejoin"
    /\ Readable(f)
    /\ phase.name = "Rejoining"
    /\ f.accepted
    /\ radio' = [radio EXCEPT !.short = f.short]
    /\ parent' = f.source
    /\ failures' = 0
    /\ TakeMembership([Credentials EXCEPT !.short = f.short,
                                          !.parent = f.source])
    /\ UNCHANGED <<key, sequence, nextKey>>

(* A command for the light: acknowledged or answered, which may use up the *)
(* reserved counters and so save the credentials again, and acted on.      *)
OnLightCommand(f) ==
    /\ f.kind = "light"
    /\ Readable(f)
    /\ \E n \in LightEvents, m \in IF key = NoKey THEN {0} ELSE 0..2 :
          /\ outbox' = Queued(m)
          /\ \/ events' = Emitted(Light(n))
             \/ /\ m > 0
                /\ events' = Emitted(<<CredentialsChanged(Credentials)>> \o Light(n))
    /\ UNCHANGED deviceVars

Accepted(f) ==
    CASE f.kind = "beacon" -> AskableRouter(f) \/ BetterCandidate(f)
      [] f.kind = "association" -> phase.name = "Associating"
      [] f.kind = "switch" -> Readable(f) /\ \E held \in nextKey : held.seq = f.to
      [] f.kind = "rejoin" -> Readable(f) /\ phase.name = "Rejoining" /\ f.accepted
      [] OTHER -> Readable(f)

Ignore(f) ==
    /\ ~Accepted(f)
    /\ UNCHANGED <<deviceVars, queueVars>>

Handle(f) ==
    \/ OnBeacon(f)
    \/ OnAssociationResponse(f)
    \/ OnTransportKey(f)
    \/ OnLeave(f)
    \/ OnSwitchKey(f)
    \/ OnRejoinResponse(f)
    \/ OnLightCommand(f)
    \/ Ignore(f)

-----------------------------------------------------------------------------
(* The main loop: drain the radio                                          *)

(* Frames that came before the retune are handled first; a frame heard     *)
(* now is handled at once.                                                 *)
Receive ==
    /\ stage = "receive"
    /\ handled < Burst
    /\ handled' = handled + 1
    /\ \/ /\ late # <<>>
          /\ Handle(Head(late))
          /\ late' = Tail(late)
       \/ /\ late = <<>>
          /\ \E f \in Frames : Audible(f) /\ Accepted(f) /\ Handle(f)
          /\ UNCHANGED late
    /\ UNCHANGED <<stage, tuned, flashVars>>

Drained ==
    /\ stage = "receive"
    /\ late = <<>>
    /\ stage' = "tick"
    /\ handled' = 0
    /\ UNCHANGED <<deviceVars, queueVars, tuned, late, flashVars>>

(* A frame reaches the radio after the drain, under the old tuning.        *)
LateFrame ==
    /\ stage = "tick"
    /\ Len(late) < LateBound
    /\ \E f \in Frames : Audible(f) /\ late' = Append(late, f)
    /\ UNCHANGED <<deviceVars, queueVars, stage, tuned, handled, flashVars>>

-----------------------------------------------------------------------------
(* tick                                                                    *)

Ticked ==
    /\ stage = "tick"
    /\ stage' = "tune"
    /\ UNCHANGED <<tuned, late, handled, flashVars>>

(* On a network: reports, a firmware request, the keepalive.               *)
TickJoined ==
    /\ Ticked
    /\ joined
    /\ \E n \in LightEvents, m \in TickFrames :
          /\ outbox' = Queued(m)
          /\ \/ events' = Emitted(Light(n))
             \/ /\ m > 0
                /\ events' = Emitted(Light(n) \o <<CredentialsChanged(Credentials)>>)
    /\ UNCHANGED deviceVars

(* No deadline of the phase has been reached.                              *)
TickWaits ==
    /\ Ticked
    /\ ~joined
    /\ \E n \in LightEvents : events' = Emitted(Light(n))
    /\ UNCHANGED <<deviceVars, outbox>>

TickNextChannel ==
    /\ Ticked
    /\ phase.name = "Scanning" /\ phase.best = {}
    /\ radio' = [radio EXCEPT !.channel =
                    IF @ >= LastChannel THEN FirstChannel ELSE @ + 1]
    /\ outbox' = Queued(1)
    /\ \E n \in LightEvents : events' = Emitted(Light(n))
    /\ UNCHANGED <<phase, parent, key, sequence, nextKey, failures>>

TickAssociates ==
    /\ Ticked
    /\ phase.name = "Scanning"
    /\ \E candidate \in phase.best : radio' = [radio EXCEPT !.pan = candidate.pan]
    /\ phase' = [phase EXCEPT !.name = "Associating"]
    /\ outbox' = Queued(1)
    /\ \E n \in LightEvents : events' = Emitted(Light(n))
    /\ UNCHANGED <<parent, key, sequence, nextKey, failures>>

TickPolls ==
    /\ Ticked
    /\ phase.name \in {"Associating", "WaitingForKey"}
    /\ outbox' = Queued(1)
    /\ \E n \in LightEvents : events' = Emitted(Light(n))
    /\ UNCHANGED deviceVars

TickAttempts ==
    /\ Ticked
    /\ phase.name = "Rejoining"
    /\ phase' = Phase("Rejoining")
    /\ outbox' = Queued(1)
    /\ \E n \in LightEvents : events' = Emitted(Light(n))
    /\ UNCHANGED <<radio, parent, key, sequence, nextKey, failures>>

(* A give-up deadline that a rejoin does not have.                         *)
TickNeverGivesUpRejoining ==
    /\ Ticked
    /\ phase.name \in {"Associating", "WaitingForKey"}
    /\ \E n \in LightEvents : RestartScan(Light(n))
    /\ UNCHANGED outbox

TickGivesUp ==
    /\ Ticked
    /\ phase.name \in {"Associating", "WaitingForKey", "Rejoining"}
    /\ \E n \in LightEvents : RestartScan(Light(n))
    /\ UNCHANGED outbox

Tick == \/ TickJoined \/ TickWaits \/ TickNextChannel \/ TickAssociates
        \/ TickPolls \/ TickAttempts \/ TickGivesUp

-----------------------------------------------------------------------------
(* Retune, transmit, act on the events                                     *)

Tune ==
    /\ stage = "tune"
    /\ tuned' = radio
    /\ stage' = "transmit"
    /\ UNCHANGED <<deviceVars, queueVars, late, handled, flashVars>>

TransmissionDelivered ==
    /\ stage = "transmit" /\ outbox > 0
    /\ outbox' = outbox - 1
    /\ failures' = 0
    /\ UNCHANGED <<phase, radio, parent, key, sequence, nextKey, events,
                   loopVars, flashVars>>

(* `transmission_failed` that counts to one more than it should.           *)
TransmissionFailedOnceMore ==
    /\ stage = "transmit" /\ outbox > 0
    /\ outbox' = outbox - 1
    /\ \/ ~joined /\ UNCHANGED <<phase, failures>>
       \/ /\ joined /\ failures < MaxFailures
          /\ failures' = failures + 1
          /\ UNCHANGED phase
       \/ /\ joined /\ failures >= MaxFailures
          /\ failures' = 0
          /\ phase' = Phase("Rejoining")
    /\ UNCHANGED <<radio, parent, key, sequence, nextKey, events,
                   loopVars, flashVars>>

(* Failures only count on a network; enough in a row start a rejoin, which *)
(* keeps the key, the network and the channel.                             *)
TransmissionFailed ==
    /\ stage = "transmit" /\ outbox > 0
    /\ outbox' = outbox - 1
    /\ \/ ~joined /\ UNCHANGED <<phase, failures>>
       \/ /\ joined /\ failures + 1 < MaxFailures
          /\ failures' = failures + 1
          /\ UNCHANGED phase
       \/ /\ joined /\ failures + 1 >= MaxFailures
          /\ failures' = 0
          /\ phase' = Phase("Rejoining")
    /\ UNCHANGED <<radio, parent, key, sequence, nextKey, events,
                   loopVars, flashVars>>

Transmitted ==
    /\ stage = "transmit" /\ outbox = 0
    /\ stage' = "events"
    /\ UNCHANGED <<deviceVars, queueVars, tuned, late, handled, flashVars>>

(* `forget_network`: the sector is erased.                                 *)
ForgetNetwork ==
    /\ stage = "events" /\ saving = {} /\ events # <<>>
    /\ Head(events).kind = "Left"
    /\ flash' = {}
    /\ events' = Tail(events)
    /\ UNCHANGED <<deviceVars, outbox, loopVars, saving>>

(* `save_credentials` erases the sector and then writes it.                *)
EraseCredentials ==
    /\ stage = "events" /\ saving = {} /\ events # <<>>
    /\ Head(events).kind = "CredentialsChanged"
    /\ flash' = {}
    /\ saving' = {Head(events).saved}
    /\ events' = Tail(events)
    /\ UNCHANGED <<deviceVars, outbox, loopVars>>

WriteCredentials ==
    /\ saving # {}
    /\ flash' = saving
    /\ saving' = {}
    /\ UNCHANGED <<deviceVars, queueVars, loopVars>>

(* An event the firmware only prints.                                      *)
NoteEvent ==
    /\ stage = "events" /\ saving = {} /\ events # <<>>
    /\ Head(events).kind \in {"Joined", "LightChanged"}
    /\ events' = Tail(events)
    /\ UNCHANGED <<deviceVars, outbox, loopVars, flashVars>>

TurnOver ==
    /\ stage = "events" /\ saving = {} /\ events = <<>>
    /\ stage' = "receive"
    /\ UNCHANGED <<deviceVars, queueVars, tuned, late, handled, flashVars>>

Events == \/ ForgetNetwork \/ EraseCredentials \/ WriteCredentials
          \/ NoteEvent \/ TurnOver

Loop == \/ Receive \/ Drained \/ Tick \/ Tune
        \/ TransmissionDelivered \/ TransmissionFailed \/ Transmitted
        \/ Events

Next == Loop \/ LateFrame \/ PowerCut

(* The processor keeps running the loop, and time passes, so a give-up     *)
(* deadline that has been set is reached at some later tick.               *)
Fairness == WF_vars(Loop) /\ SF_vars(TickGivesUp)

Spec == Init /\ [][Next]_vars
FairSpec == Spec /\ Fairness

-----------------------------------------------------------------------------
(* Properties                                                              *)

TypeOK ==
    /\ phase.name \in {"Scanning", "Associating", "WaitingForKey",
                       "Rejoining", "Joined"}
    /\ phase.name = "Associating" => Cardinality(phase.best) = 1
    /\ phase.best \subseteq [channel : Channels, pan : Pans, parent : Routers,
                             depth : Nat, lqi : Nat]
    /\ radio.channel \in Channels
    /\ radio.pan \in Pans \cup {Unassigned}
    /\ radio.short \in Shorts \cup {Unassigned}
    /\ parent \in Routers
    /\ key \in Keys \cup {NoKey}
    /\ sequence \in KeySequences
    /\ nextKey \subseteq [key : Keys, seq : KeySequences]
    /\ failures \in 0..(MaxFailures - 1)
    /\ outbox \in 0..OutboxCapacity
    /\ Len(events) <= EventCapacity
    /\ stage \in {"receive", "tick", "tune", "transmit", "events"}

TurnIsOver == stage = "receive" /\ handled = 0

(* When a turn of the loop is over, a power cut would bring back exactly   *)
(* the membership the device holds: the network, address, parent and key   *)
(* of a member, and nothing once it has left ("erased on leaving",         *)
(* README.md:176).  It fails when one turn raises so many events that the  *)
(* queue of four gives up the one that mattered: Burst and LightEvents     *)
(* bound that.                                                             *)
FlashAgrees ==
    TurnIsOver => flash = IF Member THEN {Credentials} ELSE {}

(* A member that has a PAN holds a key of that PAN and is on its channel,  *)
(* whatever it went through before and whatever was still queued when it   *)
(* left the network it was on.                                             *)
MemberOfItsNetwork ==
    Member /\ radio.pan # Unassigned =>
        /\ \E r \in Ring(radio.pan) : r.key = key /\ r.seq = sequence
        /\ radio.channel = ChannelOf[radio.pan]

(* A search for a network or for a parent never hangs: it ends joined or   *)
(* scanning again, however the network answers or keeps silent.            *)
SearchEnds ==
    phase.name \in {"Associating", "WaitingForKey", "Rejoining"}
        ~> phase.name \in {"Joined", "Scanning"}

(* device.rs:869 says of `joined`: whether the device is on a network and  *)
(* holds the network key.                                                  *)
JoinedIsOnANetwork ==
    joined => radio.pan # Unassigned /\ key # NoKey

(* device.rs:1628: `key_for` picks the key a secured frame was made with.  *)
(* A key held for a rotation never shadows the key in use, though it is    *)
(* kept through leaving and joining again.  It needs networks that do not  *)
(* share key sequence numbers: see the README on the key that outlives its *)
(* network.                                                                *)
CurrentKeyIsRead ==
    Member => KeyFor(sequence) = key
=============================================================================
