-------------------------- MODULE Membership_proofs --------------------------
(***************************************************************************)
(* A member holds a key of its network and is on its channel, and between  *)
(* two turns of the loop flash holds that membership and no other: for any *)
(* number of networks, keys, routers, frames and power cuts.               *)
(***************************************************************************)
EXTENDS Membership, SequenceTheorems, FiniteSetTheorems, TLAPS

PhaseNames == {"Scanning", "Associating", "WaitingForKey", "Rejoining", "Joined"}
Candidates == [channel : Channels, pan : Pans, parent : Routers, depth : Nat, lqi : Nat]
Phases == [name : PhaseNames, best : SUBSET Candidates, asked : SUBSET Nat]
Configs == [channel : Channels, pan : Pans \cup {Unassigned}, short : Shorts \cup {Unassigned}]
Records == [channel : Channels, pan : Pans \cup {Unassigned}, short : Shorts \cup {Unassigned},
            parent : Routers, key : Keys \cup {NoKey}, seq : KeySequences]
News == {Left, Joined, LightChanged} \cup {CredentialsChanged(c) : c \in Records}
HeldKeys == {[key |-> r.key, seq |-> r.seq] : r \in KeyRing}

(* What the phase machine holds.  A device that is no member has no key.   *)
DeviceOK ==
    /\ phase \in Phases
    /\ \A a, b \in phase.best : a = b
    /\ phase.name = "Associating" => phase.best # {}
    /\ radio \in Configs /\ parent \in Routers
    /\ key \in Keys \cup {NoKey} /\ sequence \in KeySequences
    /\ nextKey \subseteq HeldKeys /\ \A a, b \in nextKey : a = b
    /\ failures \in 0..(MaxFailures - 1)
    /\ ~Member => key = NoKey

QueueOK ==
    /\ outbox \in 0..OutboxCapacity
    /\ events \in Seq(News) /\ Len(events) <= EventCapacity

LoopOK ==
    /\ stage \in {"receive", "tick", "tune", "transmit", "events"}
    /\ tuned \in Configs
    /\ late \in Seq(Frames)
    /\ handled \in 0..Burst

FlashOK ==
    /\ flash \subseteq Records /\ saving \subseteq Records
    /\ \A a, b \in flash : a = b
    /\ \A a, b \in saving : a = b
    /\ saving # {} => stage = "events"

InRange == DeviceOK /\ QueueOK /\ LoopOK /\ FlashOK

-----------------------------------------------------------------------------
(* What the environment sends                                              *)

LEMMA Bounds ==
    /\ FirstChannel \in Nat /\ LastChannel \in Nat /\ FirstChannel <= LastChannel
    /\ EventCapacity \in Nat /\ EventCapacity >= 1
    /\ OutboxCapacity \in Nat /\ OutboxCapacity >= 1
    /\ MaxFailures \in Nat /\ MaxFailures >= 1 /\ Burst \in Nat
    /\ \A n \in LightEvents : n \in Nat
    /\ \A n \in TickFrames : n \in Nat
    /\ Coordinator \in Routers /\ 0 \in KeySequences /\ FirstChannel \in Channels
  BY MembershipAssumption DEF Routers, KeySequences, Channels

LEMMA RingFacts ==
    ASSUME NEW r \in KeyRing
    PROVE  /\ r.key \in Keys /\ r.key # NoKey /\ r.seq \in KeySequences /\ r.pan \in Pans
           /\ [key |-> r.key, seq |-> r.seq] \in HeldKeys
  BY MembershipAssumption DEF Keys, KeySequences, HeldKeys

LEMMA BeaconFacts ==
    ASSUME NEW b \in Beacons
    PROVE  /\ b.pan \in Pans /\ b.depth \in Nat /\ b.lqi \in Nat /\ b.source \in Routers
           /\ ChannelOf[b.pan] \in Channels
  BY MembershipAssumption DEF Routers

LEMMA FrameFacts ==
    ASSUME NEW f \in Frames
    PROVE  /\ f.kind \in {"beacon", "association", "transport", "leave", "light",
                          "switch", "rejoin"}
           /\ f.kind = "beacon" => f.beacon \in Beacons
           /\ f.kind # "beacon" => f.pan \in Pans
           /\ f.kind = "association" => f.short \in Shorts
           /\ f.kind = "transport" => f.new \in Ring(f.pan)
           /\ f.kind = "switch" =>
                 /\ \E r \in Ring(f.pan) : r.seq = f.to
                 /\ \E r \in Ring(f.pan) : f.under = {r} /\ r.seq # f.to
           /\ f.kind = "rejoin" => f.short \in Shorts /\ f.source \in Routers
  <1>1. CASE f \in BeaconFrames
    BY <1>1 DEF BeaconFrames
  <1>2. CASE f \in AssociationFrames
    BY <1>2 DEF AssociationFrames
  <1>3. CASE f \in TransportFrames
    BY <1>3 DEF TransportFrames
  <1>4. CASE f \in SecuredFrames
    BY <1>4 DEF SecuredFrames
  <1>5. CASE f \in SwitchFrames
    <2>1. PICK p \in Pans : f \in [kind : {"switch"}, pan : {p}, to : {r.seq : r \in Ring(p)},
                                   under : {{r} : r \in Ring(p)}]
      BY <1>5 DEF SwitchFrames
    <2>2. \A r \in f.under : r.seq # f.to
      BY <1>5 DEF SwitchFrames
    <2> QED
      BY <2>1, <2>2
  <1>6. CASE f \in RejoinFrames
    <2>1. PICK p \in Pans : f \in [kind : {"rejoin"}, pan : {p}, accepted : BOOLEAN,
                short : Shorts, source : {b.source : b \in {c \in Beacons : c.pan = p}},
                under : {{r} : r \in Ring(p)}]
      BY <1>6 DEF RejoinFrames
    <2> QED
      BY <2>1 DEF Routers
  <1> QED
    BY <1>1, <1>2, <1>3, <1>4, <1>5, <1>6 DEF Frames

-----------------------------------------------------------------------------
(* The queues                                                              *)

LEMMA NewsFacts ==
    /\ Left \in News /\ Joined \in News /\ LightChanged \in News
    /\ \A c \in Records : CredentialsChanged(c) \in News
    /\ \A n \in Nat : Light(n) \in Seq(News) /\ Len(Light(n)) = n
    /\ Light(0) = <<>>
  <1>1. \A n \in Nat : Light(n) \in Seq(News) /\ Len(Light(n)) = n
    BY DEF News, Light
  <1>2. Light(0) = <<>>
    BY <1>1, EmptySeq
  <1> QED
    BY <1>1, <1>2 DEF News

LEMMA QueuedIs ==
    ASSUME QueueOK, NEW n \in Nat
    PROVE  Queued(n) \in 0..OutboxCapacity
  BY Bounds DEF QueueOK, Queued

(* What is raised comes last, and a full queue gives up its oldest.        *)
LEMMA EmittedIs ==
    ASSUME QueueOK, NEW raised \in Seq(News)
    PROVE  /\ Emitted(raised) \in Seq(News)
           /\ Len(Emitted(raised)) <= EventCapacity
           /\ Len(Emitted(raised)) = IF Len(events) + Len(raised) <= EventCapacity
                                     THEN Len(events) + Len(raised) ELSE EventCapacity
           /\ \A k \in 0..(Len(Emitted(raised)) - 1) :
                 Emitted(raised)[Len(Emitted(raised)) - k] =
                    IF k < Len(raised) THEN raised[Len(raised) - k]
                    ELSE events[(Len(events) + Len(raised)) - k]
  <1> DEFINE all == events \o raised
             q == Emitted(raised)
             n == Len(events) + Len(raised)
  <1>1. /\ events \in Seq(News) /\ Len(events) \in Nat /\ Len(raised) \in Nat
        /\ EventCapacity \in Nat /\ EventCapacity >= 1
    BY Bounds DEF QueueOK
  <1>2. /\ all \in Seq(News) /\ Len(all) = n
        /\ \A i \in 1..n : all[i] = IF i <= Len(events) THEN events[i]
                                    ELSE raised[i - Len(events)]
    BY <1>1, ConcatProperties
  <1>3. q = IF n <= EventCapacity THEN all ELSE SubSeq(all, n - EventCapacity + 1, n)
    BY <1>2 DEF Emitted, Newest
  <1> HIDE DEF all, q
  <1>4. /\ q \in Seq(News)
        /\ Len(q) = IF n <= EventCapacity THEN n ELSE EventCapacity
        /\ \A k \in 0..(Len(q) - 1) : q[Len(q) - k] = all[n - k]
    <2>1. CASE n <= EventCapacity
      BY <1>1, <1>2, <1>3, <2>1
    <2>2. CASE ~(n <= EventCapacity)
      <3>1. /\ n - EventCapacity + 1 \in 1..(Len(all) + 1) /\ n \in (n - EventCapacity)..Len(all)
            /\ n - EventCapacity + 1 \in Nat
        BY <1>1, <1>2, <2>2
      <3>2. q = SubSeq(all, n - EventCapacity + 1, n)
        BY <1>3, <2>2
      <3>3. /\ q \in Seq(News) /\ Len(q) = EventCapacity
            /\ \A i \in 1..EventCapacity : q[i] = all[(n - EventCapacity) + i]
        <4>1. /\ SubSeq(all, n - EventCapacity + 1, n) \in Seq(News)
              /\ Len(SubSeq(all, n - EventCapacity + 1, n)) = n - (n - EventCapacity + 1) + 1
              /\ \A i \in 1..(n - (n - EventCapacity + 1) + 1) :
                    SubSeq(all, n - EventCapacity + 1, n)[i] = all[(n - EventCapacity + 1) + i - 1]
          BY <1>1, <1>2, <2>2, <3>1, SubSeqProperties
        <4> QED
          BY <1>1, <2>2, <3>2, <4>1
      <3> QED
        BY <1>1, <2>2, <3>3
    <2> QED
      BY <2>1, <2>2
  <1>5. \A k \in 0..(Len(q) - 1) :
           all[n - k] = IF k < Len(raised) THEN raised[Len(raised) - k] ELSE events[n - k]
    <2> SUFFICES ASSUME NEW k \in 0..(Len(q) - 1)
                 PROVE  all[n - k] = IF k < Len(raised) THEN raised[Len(raised) - k]
                                     ELSE events[n - k]
      OBVIOUS
    <2>1. n - k \in 1..n /\ k \in Nat
      BY <1>1, <1>4
    <2>2. CASE k < Len(raised)
      <3>1. n - k > Len(events) /\ (n - k) - Len(events) = Len(raised) - k
        BY <1>1, <2>1, <2>2
      <3> QED
        BY <1>1, <1>2, <2>1, <2>2, <3>1
    <2>3. CASE ~(k < Len(raised))
      <3>1. n - k <= Len(events)
        BY <1>1, <2>1, <2>3
      <3> QED
        BY <1>1, <1>2, <2>1, <2>3, <3>1
    <2> QED
      BY <2>2, <2>3
  <1> QED
    BY <1>1, <1>4, <1>5 DEF q
-----------------------------------------------------------------------------
(* The phase machine                                                       *)

LEMMA PhaseIs ==
    ASSUME NEW name \in PhaseNames
    PROVE  /\ Phase(name) \in Phases /\ Phase(name).name = name
           /\ Phase(name).best = {} /\ Phase(name).asked = {}
  BY DEF Phase, Phases

LEMMA CredentialsAreRecords ==
    ASSUME DeviceOK
    PROVE  Credentials \in Records
  BY DEF DeviceOK, Credentials, Records, Configs

(* Without a key in hand a device that is no member reads no secured frame.*)
LEMMA NonMembersReadNothing ==
    ASSUME DeviceOK, ~Member, NEW r \in KeyRing, \A h \in nextKey : h.seq # r.seq
    PROVE  KeyFor(r.seq) # r.key
  <1>1. key = NoKey /\ r.key # NoKey
    BY RingFacts DEF DeviceOK
  <1> QED
    BY <1>1 DEF KeyFor

LEMMA RestartKeeps ==
    ASSUME DeviceOK, QueueOK, NEW raised \in Seq(News), RestartScan(raised)
    PROVE  /\ DeviceOK'
           /\ events' \in Seq(News) /\ Len(events') <= EventCapacity
  <1>1. DeviceOK'
    <2>1. radio' \in Configs /\ phase' \in Phases /\ phase'.name = "Scanning" /\ phase'.best = {}
      BY PhaseIs DEF RestartScan, DeviceOK, Configs, PhaseNames
    <2> QED
      BY <2>1 DEF RestartScan, DeviceOK, Member
  <1>2. raised \o <<Left>> \in Seq(News)
    BY NewsFacts
  <1> QED
    BY <1>1, <1>2, EmittedIs DEF RestartScan

LEMMA TakingKeeps ==
    ASSUME QueueOK, NEW saved \in Records, TakeMembership(saved)
    PROVE  QueueOK' /\ phase' \in Phases /\ phase'.name = "Joined" /\ phase'.best = {}
  <1>1. <<CredentialsChanged(saved), Joined>> \in Seq(News)
    BY NewsFacts
  <1> QED
    BY <1>1, EmittedIs, QueuedIs, PhaseIs DEF TakeMembership, QueueOK, PhaseNames

(* A switch of keys is heard by members only.                              *)
LEMMA SwitchersAreMembers ==
    ASSUME DeviceOK, NEW f \in Frames, OnSwitchKey(f)
    PROVE  Member
  <1>1. PICK held \in nextKey : held.seq = f.to
    BY DEF OnSwitchKey
  <1>2. PICK r \in Ring(f.pan) : f.under = {r} /\ r.seq # f.to
    BY FrameFacts DEF OnSwitchKey
  <1>3. r \in KeyRing /\ KeyFor(r.seq) = r.key
    BY <1>2 DEF Ring, OnSwitchKey, Readable
  <1>4. \A h \in nextKey : h.seq # r.seq
    BY <1>1, <1>2 DEF DeviceOK
  <1> QED
    BY <1>3, <1>4, NonMembersReadNothing

LEMMA HandleKeeps ==
    ASSUME DeviceOK, QueueOK, NEW f \in Frames, Handle(f)
    PROVE  DeviceOK' /\ QueueOK'
  <1>0. Credentials \in Records
    BY CredentialsAreRecords
  <1>9. ASSUME RestartScan(<<>>), UNCHANGED outbox
        PROVE  DeviceOK' /\ QueueOK'
    <2>1. <<>> \in Seq(News)
      OBVIOUS
    <2> QED
      BY <1>9, <2>1, RestartKeeps DEF QueueOK
  <1>1. CASE OnBeacon(f)
    <2>0. f.beacon \in Beacons
      BY <1>1, FrameFacts DEF OnBeacon
    <2>1. CASE AskRouter(f)
      <3>1. phase' \in Phases /\ phase'.name = phase.name /\ phase'.best = phase.best
        BY <2>0, <2>1, BeaconFacts DEF AskRouter, DeviceOK, Phases
      <3>2. outbox' \in 0..OutboxCapacity
        BY <2>1, QueuedIs DEF AskRouter
      <3> QED
        BY <2>1, <3>1, <3>2 DEF AskRouter, DeviceOK, QueueOK, Member
    <2>2. CASE HoldCandidate(f)
      <3>1. Candidate(f) \in Candidates
        BY <2>0, BeaconFacts DEF Candidate, Candidates, DeviceOK, Configs
      <3>2. phase' \in Phases /\ phase'.name = phase.name /\ phase'.best = {Candidate(f)}
        BY <2>2, <3>1 DEF HoldCandidate, DeviceOK, Phases
      <3> QED
        BY <2>2, <3>2 DEF HoldCandidate, DeviceOK, QueueOK, Member, queueVars
    <2> QED
      BY <1>1, <2>1, <2>2 DEF OnBeacon
  <1>2. CASE OnAssociationResponse(f)
    <2>1. CASE RestartScan(<<>>) /\ UNCHANGED outbox
      BY <1>9, <2>1
    <2>2. CASE \E candidate \in phase.best :
                  /\ radio' = [channel |-> candidate.channel,
                               pan |-> candidate.pan, short |-> f.short]
                  /\ parent' = candidate.parent
                  /\ phase' = Phase("WaitingForKey")
                  /\ UNCHANGED <<key, sequence, nextKey, failures, queueVars>>
      <3>1. PICK candidate \in Candidates :
                  /\ radio' = [channel |-> candidate.channel,
                               pan |-> candidate.pan, short |-> f.short]
                  /\ parent' = candidate.parent
        BY <2>2 DEF DeviceOK, Phases
      <3>2. f.short \in Shorts
        BY <1>2, FrameFacts DEF OnAssociationResponse
      <3>3. radio' \in Configs /\ parent' \in Routers
        BY <3>1, <3>2 DEF Candidates, Configs
      <3>4. phase' \in Phases /\ phase'.name = "WaitingForKey" /\ phase'.best = {}
        BY <2>2, PhaseIs DEF PhaseNames
      <3>5. ~Member
        BY <1>2 DEF OnAssociationResponse, Member
      <3> QED
        BY <2>2, <3>3, <3>4, <3>5 DEF DeviceOK, QueueOK, Member, queueVars
    <2> QED
      BY <1>2, <2>1, <2>2 DEF OnAssociationResponse
  <1>3. CASE OnTransportKey(f)
    <2>1. /\ f.new \in KeyRing /\ [key |-> f.new.key, seq |-> f.new.seq] \in HeldKeys
          /\ f.new.key \in Keys /\ f.new.seq \in KeySequences
      BY <1>3, FrameFacts, RingFacts DEF OnTransportKey, Ring
    <2>2. CASE joined
      <3>1. nextKey' \subseteq HeldKeys /\ \A a, b \in nextKey' : a = b
        BY <1>3, <2>1, <2>2 DEF OnTransportKey
      <3>2. UNCHANGED <<phase, radio, parent, key, sequence, failures, queueVars>>
        BY <1>3, <2>2 DEF OnTransportKey
      <3> QED
        BY <3>1, <3>2 DEF DeviceOK, QueueOK, Member, queueVars
    <2>3. CASE ~joined
      <3>1. [Credentials EXCEPT !.key = f.new.key, !.seq = f.new.seq] \in Records
        BY <1>0, <2>1 DEF Records
      <3>2. QueueOK' /\ phase' \in Phases /\ phase'.name = "Joined" /\ phase'.best = {}
        BY <1>3, <2>3, <3>1, TakingKeeps DEF OnTransportKey
      <3> QED
        BY <1>3, <2>1, <2>3, <3>2 DEF OnTransportKey, DeviceOK, Member
    <2> QED
      BY <2>2, <2>3
  <1>4. CASE OnLeave(f)
    BY <1>4, <1>9 DEF OnLeave
  <1>5. CASE OnSwitchKey(f)
    <2>1. Member
      BY <1>5, SwitchersAreMembers
    <2>2. PICK held \in nextKey :
             /\ key' = held.key /\ sequence' = held.seq
             /\ events' = Emitted(<<CredentialsChanged(
                             [Credentials EXCEPT !.key = held.key, !.seq = held.seq])>>)
      BY <1>5 DEF OnSwitchKey
    <2>3. PICK r \in KeyRing : held = [key |-> r.key, seq |-> r.seq]
      BY DEF DeviceOK, HeldKeys
    <2>4. held.key \in Keys /\ held.seq \in KeySequences
      BY <2>3, RingFacts
    <2>5. [Credentials EXCEPT !.key = held.key, !.seq = held.seq] \in Records
      BY <1>0, <2>4 DEF Records
    <2>6. <<CredentialsChanged([Credentials EXCEPT !.key = held.key, !.seq = held.seq])>>
            \in Seq(News)
      BY <2>5, NewsFacts
    <2>7. events' \in Seq(News) /\ Len(events') <= EventCapacity
      BY <2>2, <2>6, EmittedIs
    <2> QED
      BY <1>5, <2>1, <2>2, <2>4, <2>7 DEF OnSwitchKey, DeviceOK, QueueOK, Member
  <1>6. CASE OnRejoinResponse(f)
    <2>1. f.short \in Shorts /\ f.source \in Routers
      BY <1>6, FrameFacts DEF OnRejoinResponse
    <2>2. [Credentials EXCEPT !.short = f.short, !.parent = f.source] \in Records
      BY <1>0, <2>1 DEF Records
    <2>3. QueueOK' /\ phase' \in Phases /\ phase'.name = "Joined" /\ phase'.best = {}
      BY <1>6, <2>2, TakingKeeps DEF OnRejoinResponse
    <2>4. radio' \in Configs
      BY <1>6, <2>1 DEF OnRejoinResponse, DeviceOK, Configs
    <2>5. /\ UNCHANGED <<key, sequence, nextKey>> /\ parent' = f.source
          /\ failures' \in 0..(MaxFailures - 1)
      BY <1>6, Bounds DEF OnRejoinResponse
    <2> QED
      BY <2>1, <2>3, <2>4, <2>5 DEF DeviceOK, Member
  <1>7. CASE OnLightCommand(f)
    <2>1. PICK n \in LightEvents, m \in 0..2 :
             /\ outbox' = Queued(m)
             /\ \/ events' = Emitted(Light(n))
                \/ events' = Emitted(<<CredentialsChanged(Credentials)>> \o Light(n))
      BY <1>7 DEF OnLightCommand
    <2>2. Light(n) \in Seq(News) /\ <<CredentialsChanged(Credentials)>> \o Light(n) \in Seq(News)
      BY <1>0, Bounds, NewsFacts
    <2>3. events' \in Seq(News) /\ Len(events') <= EventCapacity
      BY <2>1, <2>2, EmittedIs
    <2>4. outbox' \in 0..OutboxCapacity
      BY <2>1, QueuedIs
    <2> QED
      BY <1>7, <2>3, <2>4 DEF OnLightCommand, deviceVars, DeviceOK, QueueOK, Member
  <1>8. CASE Ignore(f)
    BY <1>8 DEF Ignore, deviceVars, queueVars, DeviceOK, QueueOK, Member
  <1> QED
    BY <1>1, <1>2, <1>3, <1>4, <1>5, <1>6, <1>7, <1>8 DEF Handle
LEMMA LightAndCredentials ==
    ASSUME DeviceOK, QueueOK, NEW n \in LightEvents
    PROVE  /\ Emitted(Light(n)) \in Seq(News) /\ Len(Emitted(Light(n))) <= EventCapacity
           /\ Emitted(Light(n) \o <<CredentialsChanged(Credentials)>>) \in Seq(News)
           /\ Len(Emitted(Light(n) \o <<CredentialsChanged(Credentials)>>)) <= EventCapacity
  <1>1. Light(n) \in Seq(News) /\ <<CredentialsChanged(Credentials)>> \in Seq(News)
    BY Bounds, NewsFacts, CredentialsAreRecords
  <1>2. Light(n) \o <<CredentialsChanged(Credentials)>> \in Seq(News)
    BY <1>1
  <1> QED
    BY <1>1, <1>2, EmittedIs

LEMMA TickKeeps ==
    ASSUME DeviceOK, QueueOK, Tick
    PROVE  DeviceOK' /\ QueueOK'
  <1>1. \A n \in LightEvents : n \in Nat /\ Light(n) \in Seq(News)
    BY Bounds, NewsFacts
  <1>2. Queued(1) \in 0..OutboxCapacity /\ \A m \in TickFrames : Queued(m) \in 0..OutboxCapacity
    BY Bounds, QueuedIs
  <1>3. CASE TickJoined
    <2>1. DeviceOK'
      BY <1>3 DEF TickJoined, deviceVars, DeviceOK, Member
    <2>2. QueueOK'
      BY <1>2, <1>3, LightAndCredentials DEF TickJoined, QueueOK
    <2> QED
      BY <2>1, <2>2
  <1>4. CASE TickWaits
    BY <1>4, LightAndCredentials DEF TickWaits, deviceVars, DeviceOK, QueueOK, Member
  <1>5. CASE TickNextChannel
    <2>1. radio' \in Configs
      BY <1>5, Bounds DEF TickNextChannel, DeviceOK, Configs, Channels
    <2>2. DeviceOK'
      BY <1>5, <2>1 DEF TickNextChannel, DeviceOK, Member
    <2>3. QueueOK'
      BY <1>2, <1>5, LightAndCredentials DEF TickNextChannel, QueueOK
    <2> QED
      BY <2>2, <2>3
  <1>6. CASE TickAssociates
    <2>1. PICK candidate \in phase.best : radio' = [radio EXCEPT !.pan = candidate.pan]
      BY <1>6 DEF TickAssociates
    <2>2. candidate.pan \in Pans
      BY <2>1 DEF DeviceOK, Phases, Candidates
    <2>3. radio' \in Configs
      BY <2>1, <2>2 DEF DeviceOK, Configs
    <2>4. /\ phase' \in Phases /\ phase'.name = "Associating" /\ phase'.best = phase.best
          /\ phase'.best # {}
      BY <1>6, <2>1 DEF TickAssociates, DeviceOK, Phases, PhaseNames
    <2>5. ~Member
      BY <1>6 DEF TickAssociates, Member
    <2>6. DeviceOK'
      BY <1>6, <2>3, <2>4, <2>5 DEF TickAssociates, DeviceOK, Member
    <2>7. QueueOK'
      BY <1>2, <1>6, LightAndCredentials DEF TickAssociates, QueueOK
    <2> QED
      BY <2>6, <2>7
  <1>7. CASE TickPolls
    <2>1. DeviceOK'
      BY <1>7 DEF TickPolls, deviceVars, DeviceOK, Member
    <2>2. QueueOK'
      BY <1>2, <1>7, LightAndCredentials DEF TickPolls, QueueOK
    <2> QED
      BY <2>1, <2>2
  <1>8. CASE TickAttempts
    <2>1. phase' \in Phases /\ phase'.name = "Rejoining" /\ phase'.best = {}
      BY <1>8, PhaseIs DEF TickAttempts, PhaseNames
    <2>2. DeviceOK'
      BY <1>8, <2>1 DEF TickAttempts, DeviceOK, Member
    <2>3. QueueOK'
      BY <1>2, <1>8, LightAndCredentials DEF TickAttempts, QueueOK
    <2> QED
      BY <2>2, <2>3
  <1>9. CASE TickGivesUp
    <2>1. PICK n \in LightEvents : RestartScan(Light(n))
      BY <1>9 DEF TickGivesUp
    <2> QED
      BY <1>1, <1>9, <2>1, RestartKeeps DEF TickGivesUp, QueueOK
  <1> QED
    BY <1>3, <1>4, <1>5, <1>6, <1>7, <1>8, <1>9 DEF Tick

-----------------------------------------------------------------------------
(* The loop                                                                *)

LEMMA ReceiveKeeps ==
    ASSUME InRange, Receive
    PROVE  InRange'
  <1>1. late \in Seq(Frames)
    BY DEF InRange, LoopOK
  <1>2. DeviceOK' /\ QueueOK' /\ late' \in Seq(Frames)
    <2>1. CASE late # <<>> /\ Handle(Head(late)) /\ late' = Tail(late)
      <3>1. Head(late) \in Frames /\ Tail(late) \in Seq(Frames)
        BY <1>1, <2>1, HeadTailProperties
      <3> QED
        BY <2>1, <3>1, HandleKeeps DEF InRange
    <2>2. CASE late' = late /\ \E f \in Frames : Handle(f)
      BY <1>1, <2>2, HandleKeeps DEF InRange
    <2> QED
      BY <2>1, <2>2 DEF Receive
  <1>3. LoopOK'
    BY <1>2, Bounds DEF Receive, InRange, LoopOK
  <1>4. FlashOK'
    BY DEF Receive, flashVars, InRange, FlashOK
  <1> QED
    BY <1>2, <1>3, <1>4 DEF InRange

(* No step between the tick and the next turn raises events or touches the *)
(* phase machine, but for a failed transmission.                           *)
LEMMA LoopKeeps ==
    ASSUME InRange, Drained \/ Tick \/ Tune \/ TransmissionDelivered \/ TransmissionFailed
                        \/ Transmitted \/ LateFrame
    PROVE  InRange'
  <1>1. CASE Drained \/ Tune \/ Transmitted
    BY <1>1, Bounds DEF Drained, Tune, Transmitted, deviceVars, queueVars, flashVars,
              InRange, DeviceOK, QueueOK, LoopOK, FlashOK, Member
  <1>2. CASE Tick
    <2>1. Ticked
      BY <1>2 DEF Tick, TickJoined, TickWaits, TickNextChannel, TickAssociates, TickPolls,
                  TickAttempts, TickGivesUp
    <2> QED
      BY <1>2, <2>1, TickKeeps DEF Ticked, flashVars, InRange, LoopOK, FlashOK
  <1>3. CASE TransmissionDelivered \/ TransmissionFailed
    <2>1. DeviceOK'
      <3>1. failures' \in 0..(MaxFailures - 1)
        BY <1>3, Bounds DEF TransmissionDelivered, TransmissionFailed, InRange, DeviceOK
      <3>2. /\ phase' \in Phases /\ (Member)' = Member
            /\ \A a, b \in phase'.best : a = b
            /\ phase'.name = "Associating" => phase'.best # {}
        BY <1>3, PhaseIs DEF TransmissionDelivered, TransmissionFailed, InRange, DeviceOK,
                  PhaseNames, Member, joined
      <3> QED
        BY <1>3, <3>1, <3>2 DEF TransmissionDelivered, TransmissionFailed, InRange, DeviceOK
    <2>2. outbox' \in 0..OutboxCapacity
      BY <1>3, Bounds DEF TransmissionDelivered, TransmissionFailed, InRange, QueueOK
    <2>3. UNCHANGED <<events, loopVars, flashVars>>
      BY <1>3 DEF TransmissionDelivered, TransmissionFailed
    <2> QED
      BY <2>1, <2>2, <2>3 DEF loopVars, flashVars, InRange, QueueOK, LoopOK, FlashOK
  <1>4. CASE LateFrame
    <2>1. late' \in Seq(Frames)
      BY <1>4 DEF LateFrame, InRange, LoopOK
    <2> QED
      BY <1>4, <2>1 DEF LateFrame, deviceVars, queueVars, flashVars,
              InRange, DeviceOK, QueueOK, LoopOK, FlashOK, Member
  <1> QED
    BY <1>1, <1>2, <1>3, <1>4

LEMMA EventsKeep ==
    ASSUME InRange, Events
    PROVE  InRange'
  <1>1. events \in Seq(News) /\ Len(events) <= EventCapacity /\ Len(events) \in Nat
    BY DEF InRange, QueueOK
  <1>2. events # <<>> => /\ Tail(events) \in Seq(News) /\ Len(Tail(events)) <= EventCapacity
                         /\ Head(events) \in News
    <2>1. events # <<>> => Tail(events) \in Seq(News) /\ Len(Tail(events)) = Len(events) - 1
                           /\ Head(events) \in News
      BY <1>1, HeadTailProperties
    <2> QED
      BY <1>1, <2>1, Bounds
  <1>3. CASE ForgetNetwork
    BY <1>2, <1>3 DEF ForgetNetwork, deviceVars, loopVars, InRange, DeviceOK, QueueOK, LoopOK,
                      FlashOK, Member
  <1>4. CASE EraseCredentials
    <2>1. \E c \in Records : Head(events) = CredentialsChanged(c)
      BY <1>2, <1>4 DEF EraseCredentials, News, Left, Joined, LightChanged
    <2>2. Head(events).saved \in Records
      BY <2>1 DEF CredentialsChanged
    <2> QED
      BY <1>2, <1>4, <2>2 DEF EraseCredentials, deviceVars, loopVars, InRange, DeviceOK,
                              QueueOK, LoopOK, FlashOK, Member
  <1>5. CASE WriteCredentials
    BY <1>5 DEF WriteCredentials, deviceVars, queueVars, loopVars, InRange, DeviceOK, QueueOK,
                LoopOK, FlashOK, Member
  <1>6. CASE NoteEvent
    BY <1>2, <1>6 DEF NoteEvent, deviceVars, loopVars, flashVars, InRange, DeviceOK, QueueOK,
                      LoopOK, FlashOK, Member
  <1>7. CASE TurnOver
    BY <1>7 DEF TurnOver, deviceVars, queueVars, flashVars, InRange, DeviceOK, QueueOK, LoopOK,
                FlashOK, Member
  <1> QED
    BY <1>3, <1>4, <1>5, <1>6, <1>7 DEF Events

LEMMA OneIs ==
    ASSUME NEW x
    PROVE  [i \in 1..1 |-> x] = <<x>>
  <1>1. [i \in 1..1 |-> x] \in Seq({x}) /\ Len([i \in 1..1 |-> x]) = 1
    OBVIOUS
  <1>2. <<x>> \in Seq({x}) /\ Len(<<x>>) = 1 /\ <<x>>[1] = x
    OBVIOUS
  <1>3. \A j \in 1..1 : [i \in 1..1 |-> x][j] = <<x>>[j]
    BY <1>2
  <1> QED
    BY <1>1, <1>2, <1>3, SeqEqual

(* A boot comes back as what the sector holds, or new.                     *)
LEMMA BootIs ==
    ASSUME InRange, PowerCut
    PROVE  /\ \/ /\ flash = {} /\ events' = <<>>
                 /\ phase' = Phase("Scanning") /\ radio' = New.radio
                 /\ parent' = Coordinator /\ key' = NoKey /\ sequence' = 0
              \/ \E c \in Records :
                    /\ flash = {c} /\ events' = <<CredentialsChanged(c)>>
                    /\ phase' = Phase("Joined")
                    /\ radio' = [channel |-> c.channel, pan |-> c.pan, short |-> c.short]
                    /\ parent' = c.parent /\ key' = c.key /\ sequence' = c.seq
           /\ nextKey' = {} /\ failures' = 0 /\ outbox' \in 0..OutboxCapacity
           /\ stage' = "receive" /\ tuned' = radio' /\ late' = <<>> /\ handled' = 0
           /\ saving' = {} /\ flash' = flash
  <1>1. outbox' \in 0..OutboxCapacity
    BY Bounds DEF PowerCut
  <1>2. CASE flash = {}
    <2>1. Cardinality(flash) = 0
      BY <1>2, FS_EmptySet
    <2>2. events' = <<>>
      BY <2>1 DEF PowerCut
    <2> QED
      BY <1>1, <1>2, <2>2 DEF PowerCut, New
  <1>3. CASE flash # {}
    <2>1. PICK c \in Records : flash = {c}
      BY <1>3 DEF InRange, FlashOK
    <2>2. Cardinality(flash) = 1 /\ (CHOOSE saved \in flash : TRUE) = c
      BY <2>1, FS_Singleton
    <2>3. events' = <<CredentialsChanged(c)>>
      <3> DEFINE x == CHOOSE saved \in flash : TRUE
      <3>1. events' = [i \in 1..Cardinality(flash) |-> CredentialsChanged(x)]
        BY Zenon DEF PowerCut
      <3>2. x = c
        BY <2>2
      <3> HIDE DEF x
      <3> QED
        BY <2>2, <3>1, <3>2, OneIs
    <2>4. /\ phase' = Phase("Joined")
          /\ radio' = [channel |-> c.channel, pan |-> c.pan, short |-> c.short]
          /\ parent' = c.parent /\ key' = c.key /\ sequence' = c.seq /\ tuned' = radio'
      BY <1>3, <2>2 DEF PowerCut, Restored
    <2> QED
      BY <1>1, <2>1, <2>3, <2>4 DEF PowerCut
  <1> QED
    BY <1>2, <1>3

LEMMA BootKeeps ==
    ASSUME InRange, PowerCut
    PROVE  InRange'
  <1>1. /\ nextKey' = {} /\ failures' = 0 /\ outbox' \in 0..OutboxCapacity
        /\ stage' = "receive" /\ tuned' = radio' /\ late' = <<>> /\ handled' = 0
        /\ saving' = {} /\ flash' = flash
    BY BootIs
  <1>2. CASE /\ flash = {} /\ events' = <<>>
             /\ phase' = Phase("Scanning") /\ radio' = New.radio
             /\ parent' = Coordinator /\ key' = NoKey /\ sequence' = 0
    <2>1. phase' \in Phases /\ phase'.name = "Scanning" /\ phase'.best = {}
      BY <1>2, PhaseIs DEF PhaseNames
    <2>2. radio' \in Configs
      BY <1>2, Bounds DEF New, Configs
    <2>3. DeviceOK'
      BY <1>1, <1>2, <2>1, <2>2, Bounds DEF DeviceOK
    <2>4. QueueOK' /\ LoopOK' /\ FlashOK'
      BY <1>1, <1>2, <2>2, Bounds DEF QueueOK, LoopOK, FlashOK, InRange
    <2> QED
      BY <2>3, <2>4 DEF InRange
  <1>3. CASE \E c \in Records :
                /\ flash = {c} /\ events' = <<CredentialsChanged(c)>>
                /\ phase' = Phase("Joined")
                /\ radio' = [channel |-> c.channel, pan |-> c.pan, short |-> c.short]
                /\ parent' = c.parent /\ key' = c.key /\ sequence' = c.seq
    <2>1. PICK c \in Records :
                /\ flash = {c} /\ events' = <<CredentialsChanged(c)>>
                /\ phase' = Phase("Joined")
                /\ radio' = [channel |-> c.channel, pan |-> c.pan, short |-> c.short]
                /\ parent' = c.parent /\ key' = c.key /\ sequence' = c.seq
      BY <1>3
    <2>2. phase' \in Phases /\ phase'.name = "Joined" /\ phase'.best = {}
      BY <2>1, PhaseIs DEF PhaseNames
    <2>3. /\ radio' \in Configs /\ parent' \in Routers /\ key' \in Keys \cup {NoKey}
          /\ sequence' \in KeySequences
      BY <2>1 DEF Records, Configs
    <2>4. DeviceOK'
      BY <1>1, <2>2, <2>3, Bounds DEF DeviceOK, Member
    <2>5. events' \in Seq(News) /\ Len(events') = 1
      BY <2>1, NewsFacts
    <2>6. QueueOK' /\ LoopOK' /\ FlashOK'
      BY <1>1, <2>1, <2>3, <2>5, Bounds DEF QueueOK, LoopOK, FlashOK, InRange
    <2> QED
      BY <2>4, <2>6 DEF InRange
  <1> QED
    BY <1>2, <1>3, BootIs

LEMMA StartsInRange ==
    ASSUME Init
    PROVE  InRange
  <1>1. phase \in Phases /\ phase.name = "Scanning" /\ phase.best = {}
    BY PhaseIs DEF PhaseNames, Init
  <1>2. radio \in Configs /\ tuned \in Configs /\ parent \in Routers
    BY Bounds DEF Init, New, Configs
  <1> QED
    BY <1>1, <1>2, Bounds DEF Init, InRange, DeviceOK, QueueOK, LoopOK, FlashOK

LEMMA EveryStepKeepsRange ==
    ASSUME InRange, [Next]_vars
    PROVE  InRange'
  <1>1. CASE UNCHANGED vars
    BY <1>1 DEF vars, deviceVars, queueVars, loopVars, flashVars, InRange, DeviceOK, QueueOK,
                LoopOK, FlashOK, Member
  <1> QED
    BY <1>1, ReceiveKeeps, LoopKeeps, EventsKeep, BootKeeps DEF Next, Loop

(* Phase machine, queues, loop and flash keep their types and bounds       *)
(* through any frames, failures and power cuts.                            *)
THEOREM MembershipInRange == Spec => []TypeOK
  <1>1. InRange => TypeOK
    <2> SUFFICES ASSUME InRange
                 PROVE  TypeOK
      OBVIOUS
    <2>1. phase.name = "Associating" => Cardinality(phase.best) = 1
      <3>1. phase.name = "Associating" => \E c : phase.best = {c}
        <4>1. /\ \A a, b \in phase.best : a = b
              /\ phase.name = "Associating" => phase.best # {}
          BY DEF InRange, DeviceOK
        <4> QED
          BY <4>1
      <3> QED
        BY <3>1, FS_Singleton
    <2>2. phase.name \in PhaseNames /\ phase.best \subseteq Candidates
      BY DEF InRange, DeviceOK, Phases
    <2>3. nextKey \subseteq [key : Keys, seq : KeySequences]
      <3>1. HeldKeys \subseteq [key : Keys, seq : KeySequences]
        BY RingFacts DEF HeldKeys
      <3> QED
        BY <3>1 DEF InRange, DeviceOK
    <2>4. radio.channel \in Channels /\ radio.pan \in Pans \cup {Unassigned}
          /\ radio.short \in Shorts \cup {Unassigned}
      BY DEF InRange, DeviceOK, Configs
    <2> QED
      BY <2>1, <2>2, <2>3, <2>4
         DEF TypeOK, InRange, DeviceOK, QueueOK, LoopOK, PhaseNames, Candidates
  <1> QED
    BY <1>1, StartsInRange, EveryStepKeepsRange, PTL DEF Spec
-----------------------------------------------------------------------------
(* Where the device listens, and what it may hear there                    *)

PanOf(f) == IF f.kind = "beacon" THEN f.beacon.pan ELSE f.pan

(* What the radio is tuned to once the loop has retuned it.                *)
Where == IF stage = "tune" THEN radio ELSE tuned

(* A candidate is on the channel the device searches, its network is the   *)
(* one the device associates with, and the radio follows but for leaving.  *)
Placed ==
    /\ phase.name = "Scanning" =>
          radio.pan = Unassigned /\ \A c \in phase.best : c.channel = radio.channel
    /\ phase.name = "Associating" =>
          \A c \in phase.best : c.channel = radio.channel /\ c.pan = radio.pan
    /\ stage # "tune" => tuned.channel = radio.channel /\ radio.pan \in {tuned.pan, Unassigned}
    /\ phase.name = "Scanning" /\ Where.pan # Unassigned =>
          \A c \in phase.best : c.pan = Where.pan

Waiting == {late[i] : i \in 1..Len(late)}

(* A frame that was heard before the retune may be acted on after it: it   *)
(* is of the network the radio is on by then, if it is on any.             *)
Overheard ==
    /\ stage = "tick" => \A f \in Waiting : Audible(f)
    /\ \A f \in Waiting : f.kind # "beacon" =>
          /\ Where.pan # Unassigned => Where.pan = f.pan /\ Where.channel = ChannelOf[f.pan]
          /\ \A h \in Waiting : PanOf(h) = f.pan
    /\ phase.name = "Scanning" /\ Where.pan # Unassigned =>
          \A f \in Waiting : PanOf(f) = Where.pan

(* A frame of the network the radio is on.                                 *)
FromHere(f) ==
    /\ f.kind # "beacon" /\ tuned.pan # Unassigned =>
          tuned.pan = f.pan /\ tuned.channel = ChannelOf[f.pan]
    /\ phase.name = "Scanning" /\ tuned.pan # Unassigned => PanOf(f) = tuned.pan

LEMMA AudibleIsFromHere ==
    ASSUME NEW f \in Frames, Audible(f)
    PROVE  /\ FromHere(f)
           /\ f.kind # "beacon" => tuned.pan = f.pan /\ tuned.channel = ChannelOf[f.pan]
           /\ f.kind # "beacon" => tuned.pan # Unassigned
           /\ tuned.pan # Unassigned => PanOf(f) = tuned.pan
  <1>1. f.kind # "beacon" => f.pan \in Pans
    BY FrameFacts
  <1>2. Unassigned \notin Pans
    BY MembershipAssumption
  <1> QED
    BY <1>1, <1>2 DEF Audible, FromHere, PanOf

LEMMA WaitingAre ==
    ASSUME LoopOK, late # <<>>
    PROVE  /\ Head(late) \in Waiting /\ Head(late) \in Frames
           /\ \A f \in {Tail(late)[i] : i \in 1..Len(Tail(late))} : f \in Waiting
  <1>1. late \in Seq(Frames)
    BY DEF LoopOK
  <1>2. /\ Head(late) = late[1] /\ 1 \in 1..Len(late) /\ Head(late) \in Frames
        /\ Len(Tail(late)) = Len(late) - 1
        /\ \A i \in 1..Len(Tail(late)) : Tail(late)[i] = late[i + 1]
    BY <1>1, HeadTailProperties, EmptySeq
  <1>3. \A i \in 1..Len(Tail(late)) : i + 1 \in 1..Len(late)
    BY <1>1, <1>2
  <1> QED
    BY <1>2, <1>3 DEF Waiting

(* What is handled was heard here, now or before the retune.               *)
LEMMA HandledIsFromHere ==
    ASSUME LoopOK, Overheard, Receive
    PROVE  \E f \in Frames :
              /\ FromHere(f) /\ Handle(f)
              /\ \/ late' = <<>>
                 \/ /\ late # <<>> /\ f = Head(late) /\ late' = Tail(late)
  <1>1. CASE late # <<>>
    <2>1. Head(late) \in Waiting /\ Head(late) \in Frames
      BY <1>1, WaitingAre
    <2>2. FromHere(Head(late))
      BY <2>1 DEF Receive, Overheard, Where, FromHere
    <2> QED
      BY <1>1, <2>1, <2>2 DEF Receive
  <1>2. CASE late = <<>>
    <2>1. PICK f \in Frames : Audible(f) /\ Handle(f) /\ late' = late
      BY <1>2 DEF Receive
    <2> QED
      BY <1>2, <2>1, AudibleIsFromHere
  <1> QED
    BY <1>1, <1>2

(* Acting on a frame from here keeps the device where the radio is.        *)
LEMMA HandleStaysPlaced ==
    ASSUME DeviceOK, Placed, stage = "receive", NEW f \in Frames, FromHere(f), Handle(f),
           UNCHANGED <<stage, tuned>>
    PROVE  Placed' /\ (phase'.name = "Scanning" => phase.name = "Scanning" \/ f.kind # "beacon")
  <1>0. /\ Where = tuned /\ Where' = tuned
        /\ tuned.channel = radio.channel /\ radio.pan \in {tuned.pan, Unassigned}
    BY DEF Where, Placed
  <1>1. CASE /\ radio' = radio /\ phase'.best = phase.best /\ phase'.name = phase.name
    BY <1>0, <1>1 DEF Placed
  <1>2. CASE /\ phase'.name \notin {"Scanning", "Associating"}
             /\ radio'.pan = radio.pan /\ radio'.channel = radio.channel
    BY <1>0, <1>2 DEF Placed
  <1>3. CASE /\ phase'.name = "Scanning" /\ phase'.best = {}
             /\ radio'.pan = Unassigned /\ radio'.channel = radio.channel
             /\ f.kind # "beacon"
    BY <1>0, <1>3 DEF Placed
  <1>4. CASE OnBeacon(f)
    <2>1. CASE AskRouter(f)
      <3>1. phase'.name = phase.name /\ phase'.best = phase.best /\ radio' = radio
        BY <2>1 DEF AskRouter, DeviceOK, Phases
      <3> QED
        BY <1>1, <3>1
    <2>2. CASE HoldCandidate(f)
      <3>1. /\ phase.name = "Scanning" /\ phase'.name = "Scanning"
            /\ phase'.best = {Candidate(f)} /\ radio' = radio
        BY <2>2 DEF HoldCandidate, BetterCandidate, DeviceOK, Phases
      <3>2. Candidate(f).channel = radio.channel /\ Candidate(f).pan = PanOf(f)
        BY <1>4 DEF Candidate, PanOf, OnBeacon
      <3>3. tuned.pan # Unassigned => Candidate(f).pan = tuned.pan
        BY <3>1, <3>2 DEF FromHere
      <3> HIDE DEF Candidate
      <3> QED
        BY <1>0, <3>1, <3>2, <3>3 DEF Placed
    <2> QED
      BY <1>4, <2>1, <2>2 DEF OnBeacon
  <1>5. ASSUME NEW raised, RestartScan(raised), f.kind # "beacon"
        PROVE  Placed' /\ (phase'.name = "Scanning" => phase.name = "Scanning" \/ f.kind # "beacon")
    <2>1. /\ phase'.name = "Scanning" /\ phase'.best = {}
          /\ radio'.pan = Unassigned /\ radio'.channel = radio.channel
      BY <1>5 DEF RestartScan, Phase, DeviceOK, Configs
    <2> QED
      BY <1>3, <1>5, <2>1
  <1>6. CASE OnAssociationResponse(f)
    <2>1. CASE RestartScan(<<>>)
      BY <1>5, <1>6, <2>1 DEF OnAssociationResponse
    <2>2. CASE ~RestartScan(<<>>)
      <3>1. PICK c \in phase.best :
               radio' = [channel |-> c.channel, pan |-> c.pan, short |-> f.short]
        BY <1>6, <2>2 DEF OnAssociationResponse
      <3>2. c.channel = radio.channel /\ c.pan = radio.pan
        BY <1>6 DEF OnAssociationResponse, Placed
      <3>3. phase'.name = "WaitingForKey"
        BY <1>6, <2>2 DEF OnAssociationResponse, Phase
      <3> QED
        BY <1>2, <3>1, <3>2, <3>3
    <2> QED
      BY <2>1, <2>2
  <1>7. CASE OnTransportKey(f)
    <2>1. radio' = radio
      BY <1>7 DEF OnTransportKey
    <2>2. phase' = phase \/ phase'.name = "Joined"
      BY <1>7 DEF OnTransportKey, TakeMembership, Phase
    <2> QED
      BY <1>1, <1>2, <2>1, <2>2
  <1>8. CASE OnLeave(f)
    BY <1>5, <1>8 DEF OnLeave
  <1>9. CASE OnSwitchKey(f) \/ OnLightCommand(f) \/ Ignore(f)
    BY <1>1, <1>9 DEF OnSwitchKey, OnLightCommand, Ignore, deviceVars
  <1>10. CASE OnRejoinResponse(f)
    <2>1. phase'.name = "Joined" /\ radio'.pan = radio.pan /\ radio'.channel = radio.channel
      BY <1>10 DEF OnRejoinResponse, TakeMembership, Phase, DeviceOK, Configs
    <2> QED
      BY <1>2, <2>1
  <1> QED
    BY <1>4, <1>6, <1>7, <1>8, <1>9, <1>10 DEF Handle

LEMMA ReceiveStaysPlaced ==
    ASSUME InRange, Placed, Overheard, Receive
    PROVE  Placed' /\ Overheard'
  <1>1. /\ stage = "receive" /\ UNCHANGED <<stage, tuned>> /\ LoopOK /\ DeviceOK
        /\ Where = tuned /\ Where' = tuned
    BY DEF Receive, InRange, Where
  <1>2. PICK f \in Frames :
              /\ FromHere(f) /\ Handle(f)
              /\ \/ late' = <<>>
                 \/ late # <<>> /\ f = Head(late) /\ late' = Tail(late)
    BY <1>1, HandledIsFromHere
  <1>3. Placed' /\ (phase'.name = "Scanning" => phase.name = "Scanning" \/ f.kind # "beacon")
    BY <1>1, <1>2, HandleStaysPlaced
  <1>4. CASE late' = <<>>
    <2>1. Waiting' = {}
      BY <1>4 DEF Waiting
    <2> QED
      BY <1>3, <2>1 DEF Overheard
  <1>5. CASE late # <<>> /\ f = Head(late) /\ late' = Tail(late)
    <2>1. f \in Waiting /\ \A h \in Waiting' : h \in Waiting
      BY <1>1, <1>5, WaitingAre DEF Waiting
    <2>2. /\ \A h \in Waiting : h.kind # "beacon" =>
                /\ tuned.pan # Unassigned => tuned.pan = h.pan /\ tuned.channel = ChannelOf[h.pan]
                /\ \A g \in Waiting : PanOf(g) = h.pan
          /\ phase.name = "Scanning" /\ tuned.pan # Unassigned =>
                \A h \in Waiting : PanOf(h) = tuned.pan
      BY <1>1 DEF Overheard
    <2>3. phase'.name = "Scanning" /\ tuned.pan # Unassigned =>
             \A h \in Waiting' : PanOf(h) = tuned.pan
      BY <1>3, <2>1, <2>2
    <2> QED
      BY <1>1, <1>3, <2>1, <2>2, <2>3 DEF Overheard
  <1> QED
    BY <1>2, <1>4, <1>5

(* A tick that moves the radio moves it to the network of what was heard.  *)
LEMMA TickStaysPlaced ==
    ASSUME InRange, Placed, Overheard, Tick
    PROVE  Placed' /\ Overheard'
  <1>1. stage = "tick" /\ stage' = "tune" /\ late' = late /\ tuned' = tuned
    BY DEF Tick, TickJoined, TickWaits, TickNextChannel, TickAssociates, TickPolls,
           TickAttempts, TickGivesUp, Ticked
  <1>2. /\ Where = tuned /\ Where' = radio' /\ Waiting' = Waiting
        /\ tuned.channel = radio.channel /\ radio.pan \in {tuned.pan, Unassigned}
        /\ phase \in Phases /\ radio \in Configs
        /\ \A f \in Waiting : f \in Frames /\ Audible(f)
    BY <1>1 DEF Where, Waiting, Placed, Overheard, InRange, DeviceOK, LoopOK
  <1>3. \A f \in Waiting : f.kind # "beacon" =>
           tuned.pan = f.pan /\ tuned.channel = ChannelOf[f.pan] /\ tuned.pan # Unassigned
    BY <1>2, AudibleIsFromHere
  <1>4. ASSUME radio'.pan # Unassigned =>
                  /\ radio'.channel = radio.channel
                  /\ tuned.pan # Unassigned => radio'.pan = tuned.pan,
               phase'.name = "Scanning" => radio'.pan = Unassigned
        PROVE  Overheard'
    BY <1>1, <1>2, <1>3, <1>4 DEF Overheard
  <1>5. CASE TickJoined \/ TickWaits \/ TickPolls
    <2>1. radio' = radio /\ phase' = phase
      BY <1>5 DEF TickJoined, TickWaits, TickPolls, deviceVars
    <2> QED
      BY <1>1, <1>2, <1>4, <2>1 DEF Placed
  <1>6. CASE TickNextChannel
    <2>1. /\ phase.name = "Scanning" /\ phase.best = {} /\ phase' = phase
          /\ radio'.pan = radio.pan
      BY <1>2, <1>6 DEF TickNextChannel, Configs
    <2> QED
      BY <1>1, <1>2, <1>4, <2>1 DEF Placed
  <1>7. CASE TickAssociates
    <2>1. PICK c \in phase.best : radio' = [radio EXCEPT !.pan = c.pan]
      BY <1>7 DEF TickAssociates
    <2>2. /\ phase.name = "Scanning" /\ phase'.name = "Associating" /\ phase'.best = phase.best
          /\ \A a, b \in phase.best : a = b
      BY <1>2, <1>7 DEF TickAssociates, Phases, InRange, DeviceOK
    <2>3. radio'.pan = c.pan /\ radio'.channel = radio.channel
      BY <1>2, <2>1 DEF Configs
    <2>4. c.channel = radio.channel /\ (tuned.pan # Unassigned => c.pan = tuned.pan)
      BY <1>2, <2>2 DEF Placed
    <2> QED
      BY <1>1, <1>4, <2>2, <2>3, <2>4 DEF Placed
  <1>8. CASE TickAttempts
    <2>1. radio' = radio /\ phase'.name = "Rejoining"
      BY <1>8 DEF TickAttempts, Phase
    <2> QED
      BY <1>1, <1>2, <1>4, <2>1 DEF Placed
  <1>9. CASE TickGivesUp
    <2>1. phase'.name = "Scanning" /\ phase'.best = {} /\ radio'.pan = Unassigned
      BY <1>2, <1>9 DEF TickGivesUp, RestartScan, Phase, Configs
    <2> QED
      BY <1>1, <1>2, <1>4, <2>1 DEF Placed
  <1> QED
    BY <1>5, <1>6, <1>7, <1>8, <1>9 DEF Tick

LEMMA EveryStepStaysPlaced ==
    ASSUME InRange, Placed, Overheard, [Next]_vars
    PROVE  Placed' /\ Overheard'
  <1>1. CASE Tune
    <2>1. /\ stage = "tune" /\ stage' = "transmit" /\ tuned' = radio /\ radio' = radio
          /\ phase' = phase /\ late' = late
      BY <1>1 DEF Tune, deviceVars
    <2>2. Where = radio /\ Where' = radio /\ Waiting' = Waiting
      BY <2>1 DEF Where, Waiting
    <2> QED
      BY <2>1, <2>2 DEF Placed, Overheard
  <1>2. ASSUME stage # "tune", stage' \notin {"tune", "tick"}, radio' = radio, tuned' = tuned,
               late' = late, phase' = phase \/ phase'.name = "Rejoining"
        PROVE  Placed' /\ Overheard'
    <2>1. Where = tuned /\ Where' = tuned /\ Waiting' = Waiting
      BY <1>2 DEF Where, Waiting
    <2> QED
      BY <1>2, <2>1 DEF Placed, Overheard
  <1>3. CASE Transmitted \/ Events \/ TransmissionDelivered \/ TransmissionFailed
    <2>1. /\ stage # "tune" /\ stage' \notin {"tune", "tick"} /\ radio' = radio /\ tuned' = tuned
          /\ late' = late /\ (phase' = phase \/ phase'.name = "Rejoining")
      <3>1. stage # "tune" /\ stage # "tick"
        BY <1>3 DEF Transmitted, Events, TransmissionDelivered, TransmissionFailed,
              ForgetNetwork, EraseCredentials, WriteCredentials, NoteEvent, TurnOver,
              InRange, FlashOK
      <3> QED
        BY <1>3, <3>1 DEF Transmitted, Events, TransmissionDelivered, TransmissionFailed,
              ForgetNetwork, EraseCredentials, WriteCredentials, NoteEvent, TurnOver,
              deviceVars, loopVars, flashVars, Phase
    <2> QED
      BY <1>2, <2>1
  <1>4. CASE Drained
    <2>1. /\ stage = "receive" /\ stage' = "tick" /\ radio' = radio /\ tuned' = tuned
          /\ late' = late /\ late = <<>> /\ phase' = phase
      BY <1>4 DEF Drained, deviceVars
    <2>2. Waiting' = {} /\ Where = tuned /\ Where' = tuned
      BY <2>1 DEF Waiting, Where
    <2> QED
      BY <2>1, <2>2 DEF Placed, Overheard
  <1>5. CASE LateFrame
    <2>1. PICK f \in Frames : Audible(f) /\ late' = Append(late, f)
      BY <1>5 DEF LateFrame
    <2>2. /\ stage = "tick" /\ stage' = "tick" /\ tuned' = tuned /\ radio' = radio
          /\ phase' = phase /\ late \in Seq(Frames) /\ Where = tuned /\ Where' = tuned
      BY <1>5 DEF LateFrame, deviceVars, InRange, LoopOK, Where
    <2>3. \A h \in Waiting' : h \in Frames /\ Audible(h)
      <3>1. \A i \in 1..Len(late') : late'[i] = f \/ \E j \in 1..Len(late) : late'[i] = late[j]
        BY <2>1, <2>2, AppendProperties
      <3>2. \A j \in 1..Len(late) : late[j] \in Frames /\ Audible(late[j])
        BY <2>2 DEF Overheard, Waiting
      <3> QED
        BY <2>1, <3>1, <3>2 DEF Waiting
    <2>4. \A h \in Waiting' :
             /\ h.kind # "beacon" => tuned.pan = h.pan /\ tuned.channel = ChannelOf[h.pan]
             /\ h.kind # "beacon" => tuned.pan # Unassigned
             /\ tuned.pan # Unassigned => PanOf(h) = tuned.pan
             /\ Audible(h)'
      BY <2>2, <2>3, AudibleIsFromHere DEF Audible
    <2> QED
      BY <2>2, <2>4 DEF Placed, Overheard
  <1>6. CASE PowerCut
    <2>1. /\ stage' = "receive" /\ tuned' = radio' /\ late' = <<>>
          /\ \/ phase' = Phase("Scanning") /\ radio' = New.radio
             \/ phase' = Phase("Joined")
      BY <1>6, BootIs
    <2>2. /\ phase'.best = {}
          /\ phase'.name = "Joined" \/ (phase'.name = "Scanning" /\ radio'.pan = Unassigned)
      BY <2>1 DEF Phase, New
    <2>3. Waiting' = {} /\ Where' = tuned'
      BY <2>1 DEF Waiting, Where
    <2> QED
      BY <2>1, <2>2, <2>3 DEF Placed, Overheard
  <1>7. CASE UNCHANGED vars
    <2>1. Where' = Where /\ Waiting' = Waiting /\ (\A f : Audible(f)' <=> Audible(f))
      BY <1>7 DEF vars, deviceVars, loopVars, Where, Waiting, Audible
    <2> QED
      BY <1>7, <2>1 DEF vars, deviceVars, loopVars, Placed, Overheard
  <1> QED
    BY <1>1, <1>3, <1>4, <1>5, <1>6, <1>7, ReceiveStaysPlaced, TickStaysPlaced DEF Next, Loop
-----------------------------------------------------------------------------
(* The key a member holds is one of its network                            *)

(* No two networks, and no two keys of one, share a sequence number.       *)
OwnNumbers == \A q, r \in KeyRing : q.seq = r.seq => q = r

(* A record of a member: a key some trust centre handed out, of the PAN in *)
(* the record if there is one, and then on the channel of that PAN.        *)
Genuine(c) ==
    \E r \in KeyRing :
        /\ r.key = c.key /\ r.seq = c.seq
        /\ c.pan # Unassigned => r.pan = c.pan /\ c.channel = ChannelOf[c.pan]

(* Memory, event queue and flash hold genuine records only.                *)
GenuineNews == \A i \in 1..Len(events) :
                  events[i].kind = "CredentialsChanged" => Genuine(events[i].saved)

AllGenuine ==
    /\ Member => Genuine(Credentials)
    /\ \A c \in flash \cup saving : Genuine(c)
    /\ GenuineNews

(* Behind the `b` newest of `a + b` there are the `a` older ones.          *)
LEMMA OldPlace ==
    ASSUME NEW a \in Nat, NEW b \in Nat, NEW k \in Nat, k < a + b, ~(k < b)
    PROVE  (a + b) - k \in 1..a
  OBVIOUS

(* What is raised joins what was raised before.                            *)
LEMMA EmittedAreKnown ==
    ASSUME QueueOK, NEW raised \in Seq(News)
    PROVE  \A i \in 1..Len(Emitted(raised)) :
              \/ \E j \in 1..Len(raised) : Emitted(raised)[i] = raised[j]
              \/ \E j \in 1..Len(events) : Emitted(raised)[i] = events[j]
  <1> DEFINE q == Emitted(raised)
             n == Len(events) + Len(raised)
  <1>1. /\ Len(q) \in Nat /\ Len(events) \in Nat /\ Len(raised) \in Nat
        /\ Len(q) = IF n <= EventCapacity THEN n ELSE EventCapacity
        /\ \A k \in 0..(Len(q) - 1) :
              q[Len(q) - k] = IF k < Len(raised) THEN raised[Len(raised) - k] ELSE events[n - k]
    <2>1. events \in Seq(News)
      BY DEF QueueOK
    <2>2. q \in Seq(News)
      BY EmittedIs
    <2>3. Len(q) \in Nat /\ Len(events) \in Nat /\ Len(raised) \in Nat
      BY <2>1, <2>2
    <2>4. Len(q) = IF n <= EventCapacity THEN n ELSE EventCapacity
      BY EmittedIs
    <2>5. \A k \in 0..(Len(q) - 1) :
             q[Len(q) - k] = IF k < Len(raised) THEN raised[Len(raised) - k] ELSE events[n - k]
      BY EmittedIs
    <2> HIDE DEF q, n
    <2> QED
      BY <2>3, <2>4, <2>5
  <1> HIDE DEF q
  <1> SUFFICES ASSUME NEW i \in 1..Len(q)
               PROVE  \/ \E j \in 1..Len(raised) : q[i] = raised[j]
                      \/ \E j \in 1..Len(events) : q[i] = events[j]
    BY DEF q
  <1> DEFINE k == Len(q) - i
  <1>2. k \in 0..(Len(q) - 1) /\ Len(q) - k = i /\ k < n /\ EventCapacity \in Nat
    BY <1>1, Bounds
  <1> HIDE DEF k
  <1>3. CASE k < Len(raised)
    <2>1. Len(raised) - k \in 1..Len(raised) /\ q[i] = raised[Len(raised) - k]
      BY <1>1, <1>2, <1>3
    <2> QED
      BY <2>1
  <1>4. CASE ~(k < Len(raised))
    <2>1. n - k \in 1..Len(events)
      <3>1. Len(events) \in Nat /\ Len(raised) \in Nat /\ k \in Nat /\ k < n
        BY <1>1, <1>2
      <3> QED
        BY <3>1, <1>4, OldPlace
    <2>2. q[i] = events[n - k]
      BY <1>1, <1>2, <1>4
    <2> QED
      BY <2>1, <2>2
  <1> QED
    BY <1>3, <1>4

(* Raising light, news of a network or a genuine record keeps all genuine. *)
LEMMA EmittedStayGenuine ==
    ASSUME QueueOK, GenuineNews, NEW raised \in Seq(News), events' = Emitted(raised),
           \A j \in 1..Len(raised) :
              raised[j].kind = "CredentialsChanged" => Genuine(raised[j].saved)
    PROVE  GenuineNews'
  <1>1. \A i \in 1..Len(events') :
              \/ \E j \in 1..Len(raised) : events'[i] = raised[j]
              \/ \E j \in 1..Len(events) : events'[i] = events[j]
    BY EmittedAreKnown
  <1>2. \A i \in 1..Len(events') :
            events'[i].kind = "CredentialsChanged" => Genuine(events'[i].saved)
    BY <1>1 DEF GenuineNews
  <1> QED
    BY <1>2 DEF GenuineNews, Genuine

LEMMA NewsKinds ==
    /\ Left.kind = "Left" /\ Joined.kind = "Joined" /\ LightChanged.kind = "LightChanged"
    /\ \A c : CredentialsChanged(c).kind = "CredentialsChanged"
              /\ CredentialsChanged(c).saved = c
    /\ \A n \in Nat : \A i \in 1..Len(Light(n)) : Light(n)[i] = LightChanged
    /\ \A e \in News : \/ e.kind \in {"Left", "Joined", "LightChanged"}
                       \/ \E c \in Records : e = CredentialsChanged(c)
  <1>1. \A n \in Nat : \A i \in 1..Len(Light(n)) : Light(n)[i] = LightChanged
    BY NewsFacts DEF Light
  <1>2. /\ Left.kind = "Left" /\ Joined.kind = "Joined" /\ LightChanged.kind = "LightChanged"
        /\ \A c : CredentialsChanged(c).kind = "CredentialsChanged"
                  /\ CredentialsChanged(c).saved = c
    BY DEF Left, Joined, LightChanged, CredentialsChanged
  <1> QED
    BY <1>1, <1>2 DEF News

(* The shapes in which events are raised.                                  *)
LEMMA RaisingStaysGenuine ==
    ASSUME QueueOK, GenuineNews
    PROVE  /\ \A n \in LightEvents : events' = Emitted(Light(n)) => GenuineNews'
           /\ \A n \in LightEvents : events' = Emitted(Light(n) \o <<Left>>) => GenuineNews'
           /\ events' = Emitted(<<>> \o <<Left>>) => GenuineNews'
           /\ \A c \in Records : Genuine(c) =>
                 /\ events' = Emitted(<<CredentialsChanged(c)>>) => GenuineNews'
                 /\ events' = Emitted(<<CredentialsChanged(c), Joined>>) => GenuineNews'
                 /\ \A n \in LightEvents :
                       /\ events' = Emitted(<<CredentialsChanged(c)>> \o Light(n)) => GenuineNews'
                       /\ events' = Emitted(Light(n) \o <<CredentialsChanged(c)>>) => GenuineNews'
  <1>1. \A n \in LightEvents : /\ Light(n) \in Seq(News) /\ n \in Nat
                               /\ \A i \in 1..Len(Light(n)) : Light(n)[i] = LightChanged
    BY Bounds, NewsFacts, NewsKinds
  <1>2. ASSUME NEW n \in LightEvents, NEW e \in News,
               e.kind = "CredentialsChanged" => Genuine(e.saved)
        PROVE  /\ events' = Emitted(Light(n) \o <<e>>) => GenuineNews'
               /\ events' = Emitted(<<e>> \o Light(n)) => GenuineNews'
    <2>1. /\ Light(n) \o <<e>> \in Seq(News)
          /\ \A i \in 1..Len(Light(n) \o <<e>>) :
                (Light(n) \o <<e>>)[i] = e \/ (Light(n) \o <<e>>)[i] = LightChanged
      BY <1>1
    <2>2. /\ <<e>> \o Light(n) \in Seq(News)
          /\ \A i \in 1..Len(<<e>> \o Light(n)) :
                (<<e>> \o Light(n))[i] = e \/ (<<e>> \o Light(n))[i] = LightChanged
      BY <1>1
    <2>3. LightChanged.kind # "CredentialsChanged"
      BY NewsKinds
    <2> QED
      BY <1>2, <2>1, <2>2, <2>3, EmittedStayGenuine
  <1>3. ASSUME NEW n \in LightEvents, events' = Emitted(Light(n))
        PROVE  GenuineNews'
    <2>1. LightChanged.kind # "CredentialsChanged"
      BY NewsKinds
    <2> QED
      BY <1>1, <1>3, <2>1, EmittedStayGenuine
  <1>4. ASSUME NEW e \in News, e.kind = "CredentialsChanged" => Genuine(e.saved)
        PROVE  /\ events' = Emitted(<<e>>) => GenuineNews'
               /\ events' = Emitted(<<e, Joined>>) => GenuineNews'
    <2>1. <<e>> \in Seq(News) /\ <<e, Joined>> \in Seq(News) /\ Joined.kind = "Joined"
      BY NewsFacts, NewsKinds
    <2>2. /\ \A i \in 1..Len(<<e>>) : <<e>>[i] = e
          /\ \A i \in 1..Len(<<e, Joined>>) : <<e, Joined>>[i] = e \/ <<e, Joined>>[i] = Joined
      OBVIOUS
    <2> QED
      BY <1>4, <2>1, <2>2, EmittedStayGenuine
  <1>5. /\ Left \in News /\ Left.kind # "CredentialsChanged" /\ <<>> \o <<Left>> = <<Left>>
        /\ \A c \in Records : Genuine(c) =>
              /\ CredentialsChanged(c) \in News
              /\ CredentialsChanged(c).kind = "CredentialsChanged"
              /\ Genuine(CredentialsChanged(c).saved)
    BY NewsFacts, NewsKinds
  <1> QED
    BY <1>2, <1>3, <1>4, <1>5

(* A record is its fields.                                                 *)
LEMMA RecordIs ==
    ASSUME NEW c \in Records
    PROVE  c = [channel |-> c.channel, pan |-> c.pan, short |-> c.short,
                parent |-> c.parent, key |-> c.key, seq |-> c.seq]
  BY DEF Records

(* What a key, a switch of keys and a rejoin leave the device with, and the *)
(* record they raise for it, which is the same.                            *)
LEMMA TransportTakes ==
    ASSUME DeviceOK, NEW f \in Frames, OnTransportKey(f), ~joined
    PROVE  (Member)' /\ \E c \in Records :
              /\ c.key = f.new.key /\ c.seq = f.new.seq
              /\ c.pan = radio.pan /\ c.channel = radio.channel /\ Credentials' = c
              /\ events' = Emitted(<<CredentialsChanged(c), Joined>>)
  <1> DEFINE c == [Credentials EXCEPT !.key = f.new.key, !.seq = f.new.seq]
  <1>1. f.new.key \in Keys /\ f.new.seq \in KeySequences
    BY FrameFacts, RingFacts DEF OnTransportKey, Ring
  <1>2. /\ c \in Records /\ c.key = f.new.key /\ c.seq = f.new.seq
        /\ c.pan = radio.pan /\ c.channel = radio.channel
        /\ c.short = radio.short /\ c.parent = parent
    BY <1>1, CredentialsAreRecords DEF Records, Credentials
  <1>3. /\ key' = f.new.key /\ sequence' = f.new.seq /\ radio' = radio /\ parent' = parent
        /\ events' = Emitted(<<CredentialsChanged(c), Joined>>) /\ phase' = Phase("Joined")
    BY DEF OnTransportKey, TakeMembership
  <1> HIDE DEF c
  <1>4. Credentials' = c
    BY <1>2, <1>3, RecordIs DEF Credentials
  <1> QED
    BY <1>2, <1>3, <1>4 DEF Member, Phase

LEMMA SwitchTakes ==
    ASSUME DeviceOK, NEW f \in Frames, OnSwitchKey(f)
    PROVE  Member /\ (Member)' /\ \E r \in KeyRing, c \in Records :
              /\ r.seq = f.to /\ c.key = r.key /\ c.seq = r.seq
              /\ c.pan = radio.pan /\ c.channel = radio.channel /\ Credentials' = c
              /\ events' = Emitted(<<CredentialsChanged(c)>>)
  <1>1. PICK held \in nextKey :
           /\ held.seq = f.to /\ key' = held.key /\ sequence' = held.seq
           /\ events' = Emitted(<<CredentialsChanged(
                           [Credentials EXCEPT !.key = held.key, !.seq = held.seq])>>)
    BY DEF OnSwitchKey
  <1>2. PICK r \in KeyRing : held = [key |-> r.key, seq |-> r.seq]
    BY DEF DeviceOK, HeldKeys
  <1> DEFINE c == [Credentials EXCEPT !.key = held.key, !.seq = held.seq]
  <1>3. /\ c \in Records /\ c.key = held.key /\ c.seq = held.seq
        /\ c.pan = radio.pan /\ c.channel = radio.channel
        /\ c.short = radio.short /\ c.parent = parent
    BY <1>2, CredentialsAreRecords, RingFacts DEF Records, Credentials
  <1>4. UNCHANGED <<phase, radio, parent>>
    BY DEF OnSwitchKey
  <1>5. events' = Emitted(<<CredentialsChanged(c)>>)
    BY <1>1
  <1> HIDE DEF c
  <1>6. Credentials' = c
    BY <1>1, <1>3, <1>4, RecordIs DEF Credentials
  <1>7. Member /\ (Member)'
    BY <1>4, SwitchersAreMembers DEF Member
  <1> QED
    BY <1>1, <1>2, <1>3, <1>5, <1>6, <1>7

LEMMA RejoinTakes ==
    ASSUME DeviceOK, NEW f \in Frames, OnRejoinResponse(f)
    PROVE  (Member)' /\ \E c \in Records :
              /\ c.key = key /\ c.seq = sequence
              /\ c.pan = radio.pan /\ c.channel = radio.channel /\ Credentials' = c
              /\ events' = Emitted(<<CredentialsChanged(c), Joined>>)
  <1> DEFINE c == [Credentials EXCEPT !.short = f.short, !.parent = f.source]
  <1>1. f.short \in Shorts /\ f.source \in Routers
    BY FrameFacts DEF OnRejoinResponse
  <1>2. /\ c \in Records /\ c.key = key /\ c.seq = sequence
        /\ c.pan = radio.pan /\ c.channel = radio.channel
        /\ c.short = f.short /\ c.parent = f.source
    BY <1>1, CredentialsAreRecords DEF Records, Credentials
  <1>3. /\ events' = Emitted(<<CredentialsChanged(c), Joined>>) /\ phase' = Phase("Joined")
        /\ UNCHANGED <<key, sequence>> /\ parent' = f.source
        /\ radio' = [radio EXCEPT !.short = f.short]
    BY DEF OnRejoinResponse, TakeMembership
  <1>4. radio'.channel = radio.channel /\ radio'.pan = radio.pan /\ radio'.short = f.short
    BY <1>3 DEF DeviceOK, Configs
  <1> HIDE DEF c
  <1>5. Credentials' = c
    BY <1>2, <1>3, <1>4, RecordIs DEF Credentials
  <1> QED
    BY <1>2, <1>3, <1>5 DEF Member, Phase

(* A frame of the network acted on brings a key of that network.           *)
LEMMA HandleStaysGenuine ==
    ASSUME OwnNumbers, InRange, Placed, AllGenuine, stage = "receive",
           NEW f \in Frames, FromHere(f), Handle(f)
    PROVE  (Member => Genuine(Credentials))' /\ GenuineNews'
  <1>0. /\ DeviceOK /\ QueueOK /\ GenuineNews /\ Credentials \in Records
        /\ Member => Genuine(Credentials)
    BY CredentialsAreRecords DEF InRange, AllGenuine
  <1>1. f.kind # "beacon" /\ radio.pan # Unassigned =>
           radio.pan = f.pan /\ radio.channel = ChannelOf[f.pan]
    BY DEF Placed, FromHere
  <1>2. ASSUME NEW r \in KeyRing, r.pan = f.pan, f.kind # "beacon",
               NEW c, c.key = r.key, c.seq = r.seq, c.pan = radio.pan, c.channel = radio.channel
        PROVE  Genuine(c)
    BY <1>1, <1>2 DEF Genuine
  <1>3. CASE OnBeacon(f)
    <2>1. /\ UNCHANGED <<radio, parent, key, sequence, events>> /\ phase'.name = phase.name
      BY <1>0, <1>3 DEF OnBeacon, AskRouter, HoldCandidate, queueVars, DeviceOK, Phases
    <2> QED
      BY <1>0, <2>1 DEF Member, Genuine, Credentials, GenuineNews
  <1>4. ASSUME RestartScan(<<>>)
        PROVE  (Member => Genuine(Credentials))' /\ GenuineNews'
    <2>1. ~(Member)'
      BY <1>4 DEF RestartScan, Phase, Member
    <2> QED
      BY <1>0, <1>4, <2>1, RaisingStaysGenuine DEF RestartScan
  <1>5. CASE OnAssociationResponse(f)
    <2>1. CASE ~RestartScan(<<>>)
      <3>1. ~(Member)' /\ events' = events
        BY <1>5, <2>1 DEF OnAssociationResponse, Phase, Member, queueVars
      <3> QED
        BY <1>0, <3>1 DEF GenuineNews, Genuine
    <2> QED
      BY <1>4, <2>1
  <1>6. CASE OnTransportKey(f)
    <2>1. /\ f.new \in KeyRing /\ f.new.pan = f.pan /\ f.kind # "beacon"
          /\ f.new.key \in Keys /\ f.new.seq \in KeySequences
      BY <1>6, FrameFacts, RingFacts DEF OnTransportKey, Ring
    <2>2. CASE joined
      <3>1. UNCHANGED <<phase, radio, parent, key, sequence, events>>
        BY <1>6, <2>2 DEF OnTransportKey, queueVars
      <3> QED
        BY <1>0, <3>1 DEF Member, Genuine, Credentials, GenuineNews
    <2>3. CASE ~joined
      <3>1. PICK c \in Records :
               /\ c.key = f.new.key /\ c.seq = f.new.seq
               /\ c.pan = radio.pan /\ c.channel = radio.channel /\ Credentials' = c
               /\ events' = Emitted(<<CredentialsChanged(c), Joined>>)
        BY <1>0, <1>6, <2>3, TransportTakes
      <3>2. Genuine(c)
        BY <1>2, <2>1, <3>1
      <3> QED
        BY <1>0, <3>1, <3>2, RaisingStaysGenuine DEF Genuine
    <2> QED
      BY <2>2, <2>3
  <1>7. CASE OnLeave(f)
    BY <1>4, <1>7 DEF OnLeave
  <1>8. CASE OnSwitchKey(f)
    <2>1. PICK r \in KeyRing, c \in Records :
             /\ r.seq = f.to /\ c.key = r.key /\ c.seq = r.seq
             /\ c.pan = radio.pan /\ c.channel = radio.channel /\ Credentials' = c
             /\ events' = Emitted(<<CredentialsChanged(c)>>)
      BY <1>0, <1>8, SwitchTakes
    <2>2. PICK q \in Ring(f.pan) : q.seq = f.to
      BY <1>8, FrameFacts DEF OnSwitchKey
    <2>3. r.pan = f.pan /\ f.kind # "beacon"
      BY <1>8, <2>1, <2>2 DEF OwnNumbers, Ring, OnSwitchKey
    <2>4. Genuine(c)
      BY <1>2, <2>1, <2>3
    <2> QED
      BY <1>0, <2>1, <2>4, RaisingStaysGenuine DEF Genuine
  <1>9. CASE OnRejoinResponse(f)
    <2>1. PICK c \in Records :
             /\ c.key = key /\ c.seq = sequence
             /\ c.pan = radio.pan /\ c.channel = radio.channel /\ Credentials' = c
             /\ events' = Emitted(<<CredentialsChanged(c), Joined>>)
      BY <1>0, <1>9, RejoinTakes
    <2>2. Genuine(Credentials)
      BY <1>0, <1>9 DEF OnRejoinResponse, Member
    <2>3. Genuine(c)
      BY <2>1, <2>2 DEF Genuine, Credentials
    <2> QED
      BY <1>0, <2>1, <2>3, RaisingStaysGenuine DEF Genuine
  <1>10. CASE OnLightCommand(f)
    <2>1. PICK n \in LightEvents, m \in IF key = NoKey THEN {0} ELSE 0..2 :
             \/ events' = Emitted(Light(n))
             \/ m > 0 /\ events' = Emitted(<<CredentialsChanged(Credentials)>> \o Light(n))
      BY <1>10 DEF OnLightCommand
    <2>2. m > 0 => Member
      BY <1>0 DEF DeviceOK
    <2>3. GenuineNews'
      BY <1>0, <2>1, <2>2, RaisingStaysGenuine
    <2> QED
      BY <1>0, <1>10, <2>3 DEF OnLightCommand, deviceVars, Member, Genuine, Credentials
  <1>11. CASE Ignore(f)
    BY <1>0, <1>11 DEF Ignore, deviceVars, queueVars, Member, Genuine, Credentials, GenuineNews
  <1> QED
    BY <1>3, <1>4, <1>5, <1>6, <1>7, <1>8, <1>9, <1>10, <1>11 DEF Handle

LEMMA TickStaysGenuine ==
    ASSUME InRange, AllGenuine, Tick
    PROVE  AllGenuine'
  <1>0. /\ QueueOK /\ GenuineNews /\ Credentials \in Records /\ UNCHANGED <<flash, saving>>
        /\ Member => Genuine(Credentials)
        /\ \A c \in flash \cup saving : Genuine(c)
    BY CredentialsAreRecords
       DEF InRange, AllGenuine, Tick, TickJoined, TickWaits, TickNextChannel, TickAssociates,
           TickPolls, TickAttempts, TickGivesUp, Ticked, flashVars
  <1>1. CASE TickJoined
    <2>1. Genuine(Credentials)
      BY <1>0, <1>1 DEF TickJoined, joined, Member
    <2>2. PICK n \in LightEvents :
             \/ events' = Emitted(Light(n))
             \/ events' = Emitted(Light(n) \o <<CredentialsChanged(Credentials)>>)
      BY <1>1 DEF TickJoined
    <2>3. GenuineNews'
      BY <1>0, <2>1, <2>2, RaisingStaysGenuine
    <2> QED
      BY <1>0, <1>1, <2>3 DEF TickJoined, deviceVars, AllGenuine, Member, Genuine, Credentials
  <1>2. CASE TickGivesUp
    <2>1. PICK n \in LightEvents : RestartScan(Light(n))
      BY <1>2 DEF TickGivesUp
    <2>2. ~(Member)' /\ events' = Emitted(Light(n) \o <<Left>>)
      BY <2>1 DEF RestartScan, Phase, Member
    <2> QED
      BY <1>0, <2>2, RaisingStaysGenuine DEF AllGenuine, Genuine
  <1>3. CASE TickWaits \/ TickNextChannel \/ TickAssociates \/ TickPolls \/ TickAttempts
    <2>1. \E n \in LightEvents : events' = Emitted(Light(n))
      BY <1>3 DEF TickWaits, TickNextChannel, TickAssociates, TickPolls, TickAttempts
    <2>2. GenuineNews'
      BY <1>0, <2>1, RaisingStaysGenuine
    <2>3. \/ UNCHANGED <<radio, parent, key, sequence>> /\ (Member)' = Member
          \/ ~(Member)'
      <3>1. phase' = [phase EXCEPT !.name = "Associating"] => phase'.name = "Associating"
        BY DEF InRange, DeviceOK, Phases
      <3> QED
        BY <1>3, <3>1 DEF TickWaits, TickNextChannel, TickAssociates, TickPolls, TickAttempts,
                  deviceVars, Member, Phase
    <2> QED
      BY <1>0, <2>2, <2>3 DEF AllGenuine, Genuine, Credentials
  <1> QED
    BY <1>1, <1>2, <1>3 DEF Tick

LEMMA EventsStayGenuine ==
    ASSUME InRange, AllGenuine, Events
    PROVE  AllGenuine'
  <1>0. /\ UNCHANGED deviceVars /\ events \in Seq(News) /\ GenuineNews
        /\ Member => Genuine(Credentials)
        /\ \A c \in flash \cup saving : Genuine(c)
    BY DEF Events, ForgetNetwork, EraseCredentials, WriteCredentials, NoteEvent, TurnOver,
           InRange, QueueOK, AllGenuine
  <1>1. (Member => Genuine(Credentials))'
    BY <1>0 DEF deviceVars, Member, Genuine, Credentials
  <1>2. CASE events # <<>> /\ events' = Tail(events)
    <2>1. /\ Head(events) = events[1] /\ 1 \in 1..Len(events) /\ Head(events) \in News
          /\ \A i \in 1..Len(events') : events'[i] = events[i + 1] /\ i + 1 \in 1..Len(events)
      BY <1>0, <1>2, HeadTailProperties, EmptySeq
    <2>2. GenuineNews'
      BY <1>0, <2>1 DEF GenuineNews, Genuine
    <2>3. Head(events).kind = "CredentialsChanged" => Genuine(Head(events).saved)
      BY <1>0, <2>1 DEF GenuineNews
    <2>4. \A c \in flash' \cup saving' : Genuine(c)
      BY <1>0, <1>2, <2>3 DEF Events, ForgetNetwork, EraseCredentials, WriteCredentials,
                              NoteEvent, TurnOver, flashVars
    <2> QED
      BY <1>1, <2>2, <2>4 DEF AllGenuine, Genuine
  <1>3. CASE events' = events
    <2>1. \A c \in flash' \cup saving' : Genuine(c)
      BY <1>0, <1>3 DEF Events, ForgetNetwork, EraseCredentials, WriteCredentials,
                        NoteEvent, TurnOver, flashVars
    <2> QED
      BY <1>0, <1>1, <1>3, <2>1 DEF AllGenuine, Genuine, GenuineNews
  <1> QED
    BY <1>2, <1>3 DEF Events, ForgetNetwork, EraseCredentials, WriteCredentials,
                      NoteEvent, TurnOver, queueVars

LEMMA BootStaysGenuine ==
    ASSUME InRange, AllGenuine, PowerCut
    PROVE  AllGenuine'
  <1>1. flash' = flash /\ saving' = {} /\ \A c \in flash : Genuine(c)
    BY BootIs DEF AllGenuine
  <1>2. CASE flash = {} /\ events' = <<>> /\ phase' = Phase("Scanning")
    <2>1. ~(Member)'
      BY <1>2 DEF Member, Phase
    <2> QED
      BY <1>1, <1>2, <2>1 DEF AllGenuine, GenuineNews, Genuine
  <1>3. ASSUME NEW c \in Records, flash = {c}, events' = <<CredentialsChanged(c)>>,
               radio' = [channel |-> c.channel, pan |-> c.pan, short |-> c.short],
               parent' = c.parent, key' = c.key, sequence' = c.seq
        PROVE  AllGenuine'
    <2>1. Genuine(c)
      BY <1>1, <1>3
    <2>2. Genuine(Credentials)'
      BY <1>3, <2>1 DEF Genuine, Credentials
    <2>3. \A i \in 1..Len(events') : events'[i].saved = c
      <3>1. CredentialsChanged(c).saved = c
        BY NewsKinds
      <3> QED
        BY <1>3, <3>1
    <2> QED
      BY <1>1, <2>1, <2>2, <2>3 DEF AllGenuine, GenuineNews, Genuine
  <1> QED
    BY <1>2, <1>3, BootIs

LEMMA EveryStepStaysGenuine ==
    ASSUME OwnNumbers, InRange, Placed, Overheard, AllGenuine, [Next]_vars
    PROVE  AllGenuine'
  <1>1. CASE Receive
    <2>1. PICK f \in Frames : FromHere(f) /\ Handle(f)
      BY <1>1, HandledIsFromHere DEF InRange
    <2>2. (Member => Genuine(Credentials))' /\ GenuineNews'
      BY <1>1, <2>1, HandleStaysGenuine DEF Receive
    <2> QED
      BY <1>1, <2>2 DEF Receive, flashVars, AllGenuine, Genuine
  <1>2. CASE Drained \/ Tune \/ TransmissionDelivered \/ TransmissionFailed \/ Transmitted
             \/ LateFrame \/ UNCHANGED vars
    <2>1. /\ UNCHANGED <<radio, parent, key, sequence, events, flash, saving>>
          /\ (Member)' = Member
      BY <1>2 DEF Drained, Tune, TransmissionDelivered, TransmissionFailed, Transmitted,
            LateFrame, vars, deviceVars, queueVars, flashVars, Member, Phase, joined
    <2> QED
      BY <2>1 DEF AllGenuine, GenuineNews, Genuine, Credentials
  <1> QED
    BY <1>1, <1>2, TickStaysGenuine, EventsStayGenuine, BootStaysGenuine DEF Next, Loop

OnItsNetwork == InRange /\ Placed /\ Overheard /\ AllGenuine

LEMMA StartsOnItsNetwork ==
    ASSUME Init
    PROVE  OnItsNetwork
  <1>1. /\ phase.name = "Scanning" /\ phase.best = {} /\ radio = New.radio /\ tuned = radio
        /\ late = <<>> /\ events = <<>> /\ flash = {} /\ saving = {} /\ stage = "receive"
    BY DEF Init, Phase
  <1>2. New.radio.pan = Unassigned
    BY DEF New
  <1>3. Waiting = {}
    BY <1>1 DEF Waiting
  <1> QED
    BY <1>1, <1>2, <1>3, StartsInRange
       DEF OnItsNetwork, Placed, Overheard, Where, AllGenuine, GenuineNews, Member

LEMMA EveryStepStaysOnItsNetwork ==
    ASSUME OwnNumbers, OnItsNetwork, [Next]_vars
    PROVE  OnItsNetwork'
  BY EveryStepKeepsRange, EveryStepStaysPlaced, EveryStepStaysGenuine DEF OnItsNetwork

(* A member that has a PAN holds a key of that PAN, with its number, and   *)
(* is on its channel, through rotations, leaving, joining elsewhere, late  *)
(* frames and power cuts, where networks do not share sequence numbers.    *)
THEOREM MembersHoldTheirKey ==
    ASSUME OwnNumbers
    PROVE  Spec => []MemberOfItsNetwork
  <1>1. OnItsNetwork => MemberOfItsNetwork
    BY DEF OnItsNetwork, AllGenuine, Genuine, Credentials, MemberOfItsNetwork, Ring
  <1> QED
    BY <1>1, StartsOnItsNetwork, EveryStepStaysOnItsNetwork, PTL DEF Spec

(* Nor does a key held for a rotation, though it outlives its network,     *)
(* ever shadow the key in use.                                             *)
THEOREM HeldKeyNeverShadows ==
    ASSUME OwnNumbers
    PROVE  Spec => []CurrentKeyIsRead
  <1>1. OnItsNetwork => CurrentKeyIsRead
    <2> SUFFICES ASSUME OnItsNetwork, Member
                 PROVE  KeyFor(sequence) = key
      BY DEF CurrentKeyIsRead
    <2>1. PICK r \in KeyRing : r.key = key /\ r.seq = sequence
      BY DEF OnItsNetwork, AllGenuine, Genuine, Credentials
    <2>2. \A h \in nextKey : h.seq = sequence => h.key = key
      BY <2>1 DEF OnItsNetwork, InRange, DeviceOK, HeldKeys, OwnNumbers
    <2>3. \A a, b \in nextKey : a = b
      BY DEF OnItsNetwork, InRange, DeviceOK
    <2>4. CASE \E h \in nextKey : h.seq = sequence
      <3>1. PICK h \in nextKey : h.seq = sequence
        BY <2>4
      <3>2. (CHOOSE x \in nextKey : TRUE) \in nextKey
        BY <3>1
      <3>3. (CHOOSE x \in nextKey : TRUE).key = key
        BY <2>2, <2>3, <3>1, <3>2
      <3> QED
        BY <2>4, <3>3 DEF KeyFor
    <2>5. CASE ~\E h \in nextKey : h.seq = sequence
      BY <2>5 DEF KeyFor
    <2> QED
      BY <2>4, <2>5
  <1> QED
    BY <1>1, StartsOnItsNetwork, EveryStepStaysOnItsNetwork, PTL DEF Spec
-----------------------------------------------------------------------------
(* What flash will hold once the queue is drained                          *)

(* What the device would want to come back to.                             *)
Expected == IF Member THEN {Credentials} ELSE {}

(* An event the firmware acts on, and what it leaves in the sector.        *)
Relevant(e) == e.kind \in {"CredentialsChanged", "Left"}
Effect(e) == IF e.kind = "Left" THEN {} ELSE {e.saved}

(* The k-th event from the newest, counted from 0, is the last to matter.  *)
Decides(k) ==
    /\ k \in 0..(Len(events) - 1)
    /\ Relevant(events[Len(events) - k])
    /\ \A j \in 0..(k - 1) : ~Relevant(events[Len(events) - j])

(* How often events may still be raised before the queue is drained.       *)
Raises == CASE stage = "receive" -> Burst - handled + 1
            [] stage = "tick" -> 1
            [] OTHER -> 0

(* The room that takes, at m light events a time.                          *)
Room(m) == Raises * m

(* The event that decides is right, and what may still be raised does not  *)
(* push it out; or none waits that matters, and flash is right.            *)
Follows(m) ==
    \/ \E k \in Nat : /\ Decides(k)
                      /\ Effect(events[Len(events) - k]) = Expected
                      /\ k + 1 + Room(m) <= EventCapacity
    \/ /\ \A i \in 1..Len(events) : ~Relevant(events[i])
       /\ (IF saving # {} THEN saving ELSE flash) = Expected

LEMMA RaisesIs ==
    ASSUME LoopOK
    PROVE  Raises \in 0..(Burst + 1)
  BY Bounds DEF LoopOK, Raises

(* Multiplication, where it is needed.                                     *)
LEMMA Products ==
    ASSUME NEW a \in Nat, NEW b \in Nat, NEW m \in Nat
    PROVE  /\ a * m \in Nat
           /\ a <= b => a * m <= b * m
           /\ a + 1 <= b => a * m + m <= b * m
  <1>1. a * m \in Nat /\ b * m \in Nat
    OBVIOUS
  <1>2. ASSUME a <= b
        PROVE  a * m <= b * m
    <2>1. PICK d \in Nat : b = a + d
      BY <1>2
    <2>2. b * m = a * m + d * m /\ d * m \in Nat
      BY <2>1
    <2> QED
      BY <1>1, <2>2
  <1>3. ASSUME a + 1 <= b
        PROVE  a * m + m <= b * m
    <2>1. PICK d \in Nat : b = (a + 1) + d
      BY <1>3
    <2>2. b * m = (a * m + m) + d * m /\ d * m \in Nat
      BY <2>1
    <2> QED
      BY <1>1, <2>2
  <1> QED
    BY <1>1, <1>2, <1>3

LEMMA RoomIs ==
    ASSUME NEW m \in Nat, Raises \in Nat, Raises' \in Nat
    PROVE  /\ Room(m) \in Nat /\ Room(m)' \in Nat
           /\ Raises' <= Raises => Room(m)' <= Room(m)
           /\ Raises' + 1 <= Raises => Room(m)' + m <= Room(m)
  BY Products DEF Room

(* Nothing was raised, and nothing lost of what waited.                    *)
LEMMA UnmovedFollows ==
    ASSUME NEW m \in Nat, Raises \in Nat, Raises' \in Nat, Raises' <= Raises, Follows(m),
           Expected' = Expected, UNCHANGED <<events, saving, flash>>
    PROVE  Follows(m)'
  <1>1. Room(m)' \in Nat /\ Room(m) \in Nat /\ Room(m)' <= Room(m)
    BY RoomIs
  <1>2. ASSUME NEW k \in Nat, Decides(k), Effect(events[Len(events) - k]) = Expected,
               k + 1 + Room(m) <= EventCapacity
        PROVE  Follows(m)'
    <2>1. k + 1 + Room(m)' <= EventCapacity
      BY <1>1, <1>2, Bounds
    <2>2. Decides(k)' /\ Effect(events'[Len(events') - k]) = Expected'
      BY <1>2 DEF Decides
    <2> QED
      BY <2>1, <2>2 DEF Follows, Effect
  <1>3. ASSUME \A i \in 1..Len(events) : ~Relevant(events[i]),
               (IF saving # {} THEN saving ELSE flash) = Expected
        PROVE  Follows(m)'
    BY <1>3 DEF Follows, Relevant
  <1> QED
    BY <1>2, <1>3 DEF Follows

(* `n` more events, `n <= m`, of the `m` that the room made is for.        *)
LEMMA RoomEnough ==
    ASSUME NEW k \in Nat, NEW n \in Nat, NEW m \in Nat, NEW r \in Nat, NEW s \in Nat,
           NEW c \in Nat, n <= m, s + m <= r, k + 1 + r <= c
    PROVE  (k + n) + 1 + s <= c /\ k + n + 1 <= c
  OBVIOUS

(* Light events push what decides back by no more than was allowed for.    *)
LEMMA LightFollows ==
    ASSUME QueueOK, NEW m \in Nat, NEW n \in 0..m, Raises \in Nat, Raises' \in Nat,
           Raises' + 1 <= Raises, Follows(m), Expected' = Expected,
           UNCHANGED <<saving, flash>>, events' = Emitted(Light(n))
    PROVE  Follows(m)'
  <1>0. /\ Light(n) \in Seq(News) /\ Len(Light(n)) = n /\ ~Relevant(LightChanged)
        /\ \A i \in 1..n : Light(n)[i] = LightChanged
    <2>1. n \in Nat
      OBVIOUS
    <2>2. Light(n) \in Seq(News) /\ Len(Light(n)) = n
      BY <2>1, NewsFacts
    <2>3. \A i \in 1..n : Light(n)[i] = LightChanged
      BY <2>1, <2>2, NewsKinds
    <2>4. ~Relevant(LightChanged)
      BY NewsKinds DEF Relevant
    <2> QED
      BY <2>2, <2>3, <2>4
  <1>1. /\ Len(events) \in Nat /\ Len(events') \in Nat /\ n \in Nat /\ EventCapacity \in Nat
        /\ Len(events') = IF Len(events) + n <= EventCapacity THEN Len(events) + n
                          ELSE EventCapacity
        /\ \A j \in 0..(Len(events') - 1) :
              events'[Len(events') - j] = IF j < n THEN LightChanged
                                          ELSE events[(Len(events) + n) - j]
    <2>1. /\ Emitted(Light(n)) \in Seq(News) /\ events \in Seq(News)
      BY <1>0, EmittedIs DEF QueueOK
    <2>2. /\ Len(events') = IF Len(events) + n <= EventCapacity THEN Len(events) + n
                            ELSE EventCapacity
          /\ \A j \in 0..(Len(events') - 1) :
                events'[Len(events') - j] = IF j < n THEN Light(n)[n - j]
                                            ELSE events[(Len(events) + n) - j]
      BY <1>0, EmittedIs
    <2>3. \A j \in Nat : j < n => Light(n)[n - j] = LightChanged
      BY <1>0
    <2>4. Len(events') \in Nat /\ Len(events) \in Nat /\ EventCapacity \in Nat
      BY <2>1, Bounds
    <2>5. ASSUME NEW j \in 0..(Len(events') - 1)
          PROVE  events'[Len(events') - j] = IF j < n THEN LightChanged
                                             ELSE events[(Len(events) + n) - j]
      <3>1. j \in Nat
        BY <2>4
      <3> QED
        BY <2>2, <2>3, <3>1
    <2>6. n \in Nat
      OBVIOUS
    <2> QED
      BY <2>2, <2>4, <2>5, <2>6
  <1>2. Room(m)' \in Nat /\ Room(m) \in Nat /\ Room(m)' + m <= Room(m)
    BY RoomIs
  <1>3. ASSUME NEW k \in Nat, Decides(k), Effect(events[Len(events) - k]) = Expected,
               k + 1 + Room(m) <= EventCapacity
        PROVE  Follows(m)'
    <2>1. (k + n) + 1 + Room(m)' <= EventCapacity /\ k + n + 1 <= EventCapacity /\ n <= m
      <3>1. n \in Nat /\ n <= m
        OBVIOUS
      <3> QED
        BY <1>1, <1>2, <1>3, <3>1, RoomEnough
    <2>2. k \in 0..(Len(events) - 1)
      BY <1>3 DEF Decides
    <2>3. k + n \in 0..(Len(events') - 1) /\ k + n \in Nat
      BY <1>1, <2>1, <2>2
    <2>4. events'[Len(events') - (k + n)] = events[Len(events) - k]
      <3>1. (Len(events) + n) - (k + n) = Len(events) - k /\ ~(k + n < n)
        BY <1>1, <2>2
      <3> QED
        BY <1>1, <2>3, <3>1
    <2>5. \A j \in 0..((k + n) - 1) : ~Relevant(events'[Len(events') - j])
      <3> SUFFICES ASSUME NEW j \in 0..((k + n) - 1)
                   PROVE  ~Relevant(events'[Len(events') - j])
        OBVIOUS
      <3>1. j \in 0..(Len(events') - 1)
        BY <1>1, <2>3
      <3>2. CASE j < n
        BY <1>0, <1>1, <3>1, <3>2
      <3>3. CASE ~(j < n)
        <4>1. j - n \in 0..(k - 1) /\ (Len(events) + n) - j = Len(events) - (j - n)
          BY <1>1, <3>3
        <4>2. ~Relevant(events[Len(events) - (j - n)])
          BY <1>3, <4>1 DEF Decides
        <4> QED
          BY <1>1, <3>1, <3>3, <4>1, <4>2
      <3> QED
        BY <3>2, <3>3
    <2>6. Relevant(events'[Len(events') - (k + n)])
      BY <1>3, <2>4 DEF Decides
    <2>7. Decides(k + n)'
      BY <2>3, <2>5, <2>6 DEF Decides, Relevant
    <2>8. Effect(events'[Len(events') - (k + n)]) = Expected'
      BY <1>3, <2>4
    <2> QED
      BY <2>1, <2>3, <2>7, <2>8 DEF Follows, Effect
  <1>4. ASSUME \A i \in 1..Len(events) : ~Relevant(events[i]),
               (IF saving # {} THEN saving ELSE flash) = Expected
        PROVE  Follows(m)'
    <2>1. \A i \in 1..Len(events') : ~Relevant(events'[i])
      <3>1. \A i \in 1..Len(events') :
               \/ \E j \in 1..n : events'[i] = Light(n)[j]
               \/ \E j \in 1..Len(events) : events'[i] = events[j]
        BY <1>0, EmittedAreKnown
      <3> QED
        BY <1>0, <1>4, <3>1
    <2> QED
      BY <1>4, <2>1 DEF Follows, Relevant
  <1> QED
    BY <1>3, <1>4 DEF Follows

(* What was raised decides, and it is right.                               *)
LEMMA RaisedFollows ==
    ASSUME QueueOK, NEW m \in Nat, NEW raised \in Seq(News), events' = Emitted(raised),
           NEW k \in 0..(Len(raised) - 1), Relevant(raised[Len(raised) - k]),
           \A j \in 0..(k - 1) : ~Relevant(raised[Len(raised) - j]),
           Effect(raised[Len(raised) - k]) = Expected',
           Room(m)' \in Nat, k + 1 + Room(m)' <= EventCapacity
    PROVE  Follows(m)'
  <1>1. /\ Len(events) \in Nat /\ Len(raised) \in Nat /\ Len(events') \in Nat
        /\ EventCapacity \in Nat /\ k \in Nat
        /\ Len(events') = IF Len(events) + Len(raised) <= EventCapacity
                          THEN Len(events) + Len(raised) ELSE EventCapacity
        /\ \A j \in 0..(Len(events') - 1) :
              events'[Len(events') - j] = IF j < Len(raised) THEN raised[Len(raised) - j]
                                          ELSE events[(Len(events) + Len(raised)) - j]
    <2>1. Emitted(raised) \in Seq(News) /\ events \in Seq(News)
      BY EmittedIs DEF QueueOK
    <2>2. Len(events') \in Nat /\ Len(events) \in Nat /\ Len(raised) \in Nat /\ k \in Nat
      BY <2>1
    <2> QED
      BY <2>2, EmittedIs, Bounds
  <1>2. k \in 0..(Len(events') - 1) /\ k < Len(raised)
    BY <1>1
  <1>3. events'[Len(events') - k] = raised[Len(raised) - k]
    BY <1>1, <1>2
  <1>4. ASSUME NEW j \in 0..(k - 1)
        PROVE  events'[Len(events') - j] = raised[Len(raised) - j]
    <2>1. j \in 0..(Len(events') - 1) /\ j < Len(raised)
      BY <1>1, <1>2
    <2> QED
      BY <1>1, <2>1
  <1>5. Decides(k)'
    BY <1>2, <1>3, <1>4 DEF Decides, Relevant
  <1> QED
    BY <1>1, <1>3, <1>5 DEF Follows, Effect
(* News that is raised and matters, with what else is raised beside it.    *)
LEMMA NewsFollows ==
    ASSUME QueueOK, NEW m \in Nat, NEW e \in News, Relevant(e), Effect(e) = Expected',
           Room(m)' \in Nat, 1 + Room(m)' <= EventCapacity
    PROVE  /\ events' = Emitted(<<e>>) => Follows(m)'
           /\ events' = Emitted(<<e, Joined>>) /\ 2 + Room(m)' <= EventCapacity => Follows(m)'
           /\ \A n \in 0..m :
                 /\ events' = Emitted(Light(n) \o <<e>>) => Follows(m)'
                 /\ events' = Emitted(<<e>> \o Light(n)) /\ (m + 1) + Room(m)' <= EventCapacity
                       => Follows(m)'
  <1>1. ASSUME events' = Emitted(<<e>>)
        PROVE  Follows(m)'
    <2> DEFINE r == <<e>>
    <2>1. r \in Seq(News) /\ Len(r) = 1 /\ r[1] = e /\ events' = Emitted(r)
      BY <1>1
    <2> HIDE DEF r
    <2>2. 0 \in 0..(Len(r) - 1) /\ Len(r) - 0 = 1
      BY <2>1
    <2>3. \A j \in 0..(0 - 1) : ~Relevant(r[Len(r) - j])
      OBVIOUS
    <2>4. 0 + 1 + Room(m)' <= EventCapacity
      OBVIOUS
    <2> QED
      BY <2>1, <2>2, <2>3, <2>4, RaisedFollows
  <1>2. ASSUME events' = Emitted(<<e, Joined>>), 2 + Room(m)' <= EventCapacity
        PROVE  Follows(m)'
    <2> DEFINE r == <<e, Joined>>
    <2>1. r \in Seq(News) /\ Len(r) = 2 /\ r[1] = e /\ r[2] = Joined
      BY NewsFacts
    <2>2. events' = Emitted(r)
      BY <1>2
    <2> HIDE DEF r
    <2>3. 1 \in 0..(Len(r) - 1) /\ Len(r) - 1 = 1
      BY <2>1
    <2>4. \A j \in 0..(1 - 1) : ~Relevant(r[Len(r) - j])
      BY <2>1, NewsKinds DEF Relevant
    <2>5. 1 + 1 + Room(m)' <= EventCapacity
      BY <1>2
    <2> QED
      BY <2>1, <2>2, <2>3, <2>4, <2>5, RaisedFollows
  <1>3. ASSUME NEW n \in 0..m, events' = Emitted(Light(n) \o <<e>>)
        PROVE  Follows(m)'
    <2> DEFINE r == Light(n) \o <<e>>
    <2>1. Light(n) \in Seq(News) /\ Len(Light(n)) = n /\ n \in Nat
      BY NewsFacts
    <2>2. r \in Seq(News) /\ Len(r) = n + 1 /\ r[n + 1] = e
      BY <2>1
    <2>3. events' = Emitted(r)
      BY <1>3
    <2> HIDE DEF r
    <2>4. 0 \in 0..(Len(r) - 1) /\ Len(r) - 0 = n + 1
      BY <2>1, <2>2
    <2>5. \A j \in 0..(0 - 1) : ~Relevant(r[Len(r) - j])
      OBVIOUS
    <2>6. 0 + 1 + Room(m)' <= EventCapacity
      OBVIOUS
    <2> QED
      BY <2>2, <2>3, <2>4, <2>5, <2>6, RaisedFollows
  <1>4. ASSUME NEW n \in 0..m, events' = Emitted(<<e>> \o Light(n)),
               (m + 1) + Room(m)' <= EventCapacity
        PROVE  Follows(m)'
    <2> DEFINE r == <<e>> \o Light(n)
    <2>1. /\ Light(n) \in Seq(News) /\ Len(Light(n)) = n /\ n \in Nat
          /\ \A i \in 1..n : Light(n)[i] = LightChanged
      BY NewsFacts, NewsKinds
    <2>2. /\ r \in Seq(News) /\ Len(r) = n + 1 /\ r[1] = e
          /\ \A i \in 2..(n + 1) : r[i] = LightChanged
      BY <2>1
    <2>3. events' = Emitted(r)
      BY <1>4
    <2> HIDE DEF r
    <2>4. n \in 0..(Len(r) - 1) /\ Len(r) - n = 1
      BY <2>1, <2>2
    <2>5. \A j \in 0..(n - 1) : ~Relevant(r[Len(r) - j])
      <3>1. \A j \in 0..(n - 1) : Len(r) - j \in 2..(n + 1)
        BY <2>1, <2>2
      <3> QED
        BY <2>2, <3>1, NewsKinds DEF Relevant
    <2>6. n + 1 + Room(m)' <= EventCapacity
      BY <1>4, Bounds
    <2> QED
      BY <2>2, <2>3, <2>4, <2>5, <2>6, RaisedFollows
  <1> QED
    BY <1>1, <1>2, <1>3, <1>4

LEMMA WhatMatters ==
    /\ Left \in News /\ Relevant(Left) /\ Effect(Left) = {}
    /\ \A c \in Records : /\ CredentialsChanged(c) \in News
                          /\ Relevant(CredentialsChanged(c))
                          /\ Effect(CredentialsChanged(c)) = {c}
  BY NewsFacts, NewsKinds DEF Relevant, Effect

(* What one frame handled does to the membership and to the queue.         *)
LEMMA HandleRaises ==
    ASSUME DeviceOK, NEW f \in Frames, Handle(f)
    PROVE  \/ Expected' = Expected /\ events' = events
           \/ Expected' = Expected /\ \E n \in LightEvents : events' = Emitted(Light(n))
           \/ Expected' = {} /\ events' = Emitted(<<Left>>)
           \/ \E c \in Records :
                 /\ Expected' = {c}
                 /\ \/ events' = Emitted(<<CredentialsChanged(c)>>)
                    \/ events' = Emitted(<<CredentialsChanged(c), Joined>>)
                    \/ \E n \in LightEvents :
                          events' = Emitted(<<CredentialsChanged(c)>> \o Light(n))
  <1>1. CASE OnBeacon(f)
    <2>1. UNCHANGED <<radio, parent, key, sequence, events>> /\ phase'.name = phase.name
      BY <1>1 DEF OnBeacon, AskRouter, HoldCandidate, queueVars, DeviceOK, Phases
    <2> QED
      BY <2>1 DEF Expected, Member, Credentials
  <1>2. ASSUME RestartScan(<<>>)
        PROVE  Expected' = {} /\ events' = Emitted(<<Left>>)
    <2>1. <<>> \o <<Left>> = <<Left>>
      OBVIOUS
    <2> QED
      BY <1>2, <2>1 DEF RestartScan, Phase, Expected, Member
  <1>3. CASE OnAssociationResponse(f)
    <2>1. CASE ~RestartScan(<<>>)
      <3>1. ~Member /\ ~(Member)' /\ events' = events
        BY <1>3, <2>1 DEF OnAssociationResponse, Phase, Member, queueVars
      <3> QED
        BY <3>1 DEF Expected
    <2> QED
      BY <1>2, <2>1
  <1>4. CASE OnTransportKey(f)
    <2>1. CASE joined
      BY <1>4, <2>1 DEF OnTransportKey, queueVars, Expected, Member, Credentials
    <2>2. CASE ~joined
      BY <1>4, <2>2, TransportTakes DEF Expected
    <2> QED
      BY <2>1, <2>2
  <1>5. CASE OnLeave(f)
    BY <1>2, <1>5 DEF OnLeave
  <1>6. CASE OnSwitchKey(f)
    BY <1>6, SwitchTakes DEF Expected
  <1>7. CASE OnRejoinResponse(f)
    BY <1>7, RejoinTakes DEF Expected
  <1>8. CASE OnLightCommand(f)
    <2>1. PICK n \in LightEvents, k \in IF key = NoKey THEN {0} ELSE 0..2 :
             \/ events' = Emitted(Light(n))
             \/ k > 0 /\ events' = Emitted(<<CredentialsChanged(Credentials)>> \o Light(n))
      BY <1>8 DEF OnLightCommand
    <2>2. k > 0 => Member
      BY <2>1 DEF DeviceOK
    <2>3. Expected' = Expected
      BY <1>8 DEF OnLightCommand, deviceVars, Expected, Member, Credentials
    <2> QED
      BY <2>1, <2>2, <2>3, CredentialsAreRecords DEF Expected
  <1>9. CASE Ignore(f)
    BY <1>9 DEF Ignore, deviceVars, queueVars, Expected, Member, Credentials
  <1> QED
    BY <1>1, <1>2, <1>3, <1>4, <1>5, <1>6, <1>7, <1>8, <1>9 DEF Handle

(* The events of a turn fit: m light events for each frame and the tick,   *)
(* and the two of a device that takes up its membership.                   *)
TurnFits(m) ==
    /\ m \in Nat /\ LightEvents \subseteq 0..m
    /\ 2 + Burst * m <= EventCapacity
    /\ 1 + (Burst + 1) * m <= EventCapacity

LEMMA ReceiveFollows ==
    ASSUME NEW m, TurnFits(m), InRange, Follows(m), Receive
    PROVE  Follows(m)'
  <1>0. /\ m \in Nat /\ LightEvents \subseteq 0..m /\ DeviceOK /\ QueueOK
        /\ UNCHANGED <<saving, flash>>
    BY DEF TurnFits, InRange, Receive, flashVars
  <1>1. PICK f \in Frames : Handle(f)
    <2>1. late # <<>> => Head(late) \in Frames
      BY EmptySeq, HeadTailProperties DEF InRange, LoopOK
    <2> QED
      BY <2>1 DEF Receive
  <1>2. /\ Raises \in Nat /\ Raises' \in Nat /\ Raises' + 1 <= Raises
        /\ Raises' <= Raises /\ Raises' <= Burst
    BY Bounds DEF Receive, Raises, InRange, LoopOK
  <1>3. /\ Room(m)' \in Nat /\ 2 + Room(m)' <= EventCapacity
        /\ (m + 1) + Room(m)' <= EventCapacity
    <2>1. /\ Burst * m \in Nat /\ Raises' * m \in Nat /\ Raises' * m <= Burst * m
          /\ Burst * m + m <= (Burst + 1) * m /\ (Burst + 1) * m \in Nat
      <3>1. Burst \in Nat /\ Burst + 1 \in Nat /\ Burst + 1 <= Burst + 1
        BY Bounds
      <3>2. /\ Burst * m \in Nat /\ Burst * m + m <= (Burst + 1) * m
            /\ (Burst + 1) * m \in Nat
        BY <1>0, <3>1, Products
      <3>3. Raises' * m \in Nat /\ Raises' * m <= Burst * m
        BY <1>0, <1>2, <3>1, Products
      <3> QED
        BY <3>2, <3>3
    <2>2. Room(m)' = Raises' * m
      BY DEF Room
    <2>3. Room(m)' \in Nat /\ Room(m)' <= Burst * m
      BY <2>1, <2>2
    <2>4. PICK b \in Nat : b = Burst * m
      BY <2>1
    <2>5. PICK d \in Nat : d = (Burst + 1) * m
      BY <2>1
    <2>6. 2 + b <= EventCapacity /\ 1 + d <= EventCapacity
      BY <2>4, <2>5 DEF TurnFits
    <2>7. Room(m)' <= b /\ b + m <= d
      BY <2>1, <2>3, <2>4, <2>5
    <2> QED
      BY <1>0, <2>3, <2>6, <2>7, Bounds
  <1>4. CASE Expected' = Expected /\ events' = events
    BY <1>0, <1>2, <1>4, UnmovedFollows
  <1>5. CASE Expected' = Expected /\ \E n \in LightEvents : events' = Emitted(Light(n))
    BY <1>0, <1>2, <1>5, LightFollows
  <1>6. CASE Expected' = {} /\ events' = Emitted(<<Left>>)
    <2>1. 1 + Room(m)' <= EventCapacity
      BY <1>3, Bounds
    <2> QED
      BY <1>0, <1>3, <1>6, <2>1, WhatMatters, NewsFollows
  <1>7. ASSUME NEW c \in Records, Expected' = {c},
               \/ events' = Emitted(<<CredentialsChanged(c)>>)
               \/ events' = Emitted(<<CredentialsChanged(c), Joined>>)
               \/ \E n \in LightEvents :
                     events' = Emitted(<<CredentialsChanged(c)>> \o Light(n))
        PROVE  Follows(m)'
    <2>1. 1 + Room(m)' <= EventCapacity
      BY <1>3, Bounds
    <2>2. /\ CredentialsChanged(c) \in News /\ Relevant(CredentialsChanged(c))
          /\ Effect(CredentialsChanged(c)) = Expected'
      BY <1>7, WhatMatters
    <2> QED
      BY <1>0, <1>3, <1>7, <2>1, <2>2, NewsFollows
  <1> QED
    BY <1>0, <1>1, <1>4, <1>5, <1>6, <1>7, HandleRaises

LEMMA TickRaises ==
    ASSUME DeviceOK, Tick
    PROVE  \/ Expected' = Expected /\ \E n \in LightEvents : events' = Emitted(Light(n))
           \/ Expected' = {} /\ \E n \in LightEvents : events' = Emitted(Light(n) \o <<Left>>)
           \/ \E c \in Records, n \in LightEvents :
                 Expected' = {c} /\ events' = Emitted(Light(n) \o <<CredentialsChanged(c)>>)
  <1>1. CASE TickJoined
    <2>1. Member /\ Expected' = Expected
      BY <1>1 DEF TickJoined, joined, deviceVars, Expected, Member, Credentials
    <2>2. Expected' = {Credentials} /\ Credentials \in Records
      BY <2>1, CredentialsAreRecords DEF Expected
    <2>3. PICK n \in LightEvents :
             \/ events' = Emitted(Light(n))
             \/ events' = Emitted(Light(n) \o <<CredentialsChanged(Credentials)>>)
      BY <1>1 DEF TickJoined
    <2> QED
      BY <2>1, <2>2, <2>3
  <1>2. CASE TickGivesUp
    <2>1. PICK n \in LightEvents : RestartScan(Light(n))
      BY <1>2 DEF TickGivesUp
    <2>2. ~(Member)' /\ events' = Emitted(Light(n) \o <<Left>>)
      BY <2>1 DEF RestartScan, Phase, Member
    <2> QED
      BY <2>2 DEF Expected
  <1>3. CASE TickWaits \/ TickNextChannel \/ TickAssociates \/ TickPolls \/ TickAttempts
    <2>1. \E n \in LightEvents : events' = Emitted(Light(n))
      BY <1>3 DEF TickWaits, TickNextChannel, TickAssociates, TickPolls, TickAttempts
    <2>2. \/ UNCHANGED <<radio, parent, key, sequence>> /\ (Member)' = Member
          \/ ~Member /\ ~(Member)'
      <3>1. phase' = [phase EXCEPT !.name = "Associating"] => phase'.name = "Associating"
        BY DEF DeviceOK, Phases
      <3> QED
        BY <1>3, <3>1 DEF TickWaits, TickNextChannel, TickAssociates, TickPolls, TickAttempts,
                  deviceVars, Member, Phase
    <2>3. Expected' = Expected
      BY <2>2 DEF Expected, Credentials
    <2> QED
      BY <2>1, <2>3
  <1> QED
    BY <1>1, <1>2, <1>3 DEF Tick

LEMMA TickFollows ==
    ASSUME NEW m, TurnFits(m), InRange, Follows(m), Tick
    PROVE  Follows(m)'
  <1>0. /\ m \in Nat /\ LightEvents \subseteq 0..m /\ DeviceOK /\ QueueOK
        /\ UNCHANGED <<saving, flash>> /\ stage = "tick" /\ stage' = "tune"
    BY DEF TurnFits, InRange, Tick, TickJoined, TickWaits, TickNextChannel, TickAssociates,
           TickPolls, TickAttempts, TickGivesUp, Ticked, flashVars
  <1>1. Raises = 1 /\ Raises' = 0
    BY <1>0 DEF Raises
  <1>2. Room(m)' = 0 /\ Room(m)' \in Nat /\ 1 + Room(m)' <= EventCapacity
    BY <1>0, <1>1, Bounds DEF Room
  <1>3. CASE Expected' = Expected /\ \E n \in LightEvents : events' = Emitted(Light(n))
    BY <1>0, <1>1, <1>3, LightFollows
  <1>4. CASE Expected' = {} /\ \E n \in LightEvents : events' = Emitted(Light(n) \o <<Left>>)
    BY <1>0, <1>2, <1>4, WhatMatters, NewsFollows
  <1>5. ASSUME NEW c \in Records, NEW n \in LightEvents, Expected' = {c},
               events' = Emitted(Light(n) \o <<CredentialsChanged(c)>>)
        PROVE  Follows(m)'
    BY <1>0, <1>2, <1>5, WhatMatters, NewsFollows
  <1> QED
    BY <1>0, <1>3, <1>4, <1>5, TickRaises

(* Taking the oldest event off the queue takes its effect to the sector.   *)
LEMMA TakenFollows ==
    ASSUME NEW m \in Nat, QueueOK, Raises \in Nat, Raises' = Raises, Follows(m),
           Expected' = Expected, events # <<>>, events' = Tail(events), saving = {},
           ~Relevant(Head(events)) => UNCHANGED <<flash, saving>>,
           Relevant(Head(events)) =>
              (IF saving' # {} THEN saving' ELSE flash') = Effect(Head(events))
    PROVE  Follows(m)'
  <1>1. /\ Len(events) \in Nat /\ Len(events) >= 1 /\ Len(events') = Len(events) - 1
        /\ Head(events) = events[1]
        /\ \A i \in 1..Len(events') : events'[i] = events[i + 1] /\ i + 1 \in 1..Len(events)
    BY HeadTailProperties, EmptySeq DEF QueueOK
  <1>2. Room(m)' = Room(m)
    BY DEF Room
  <1>3. ASSUME NEW k \in Nat, Decides(k), Effect(events[Len(events) - k]) = Expected,
               k + 1 + Room(m) <= EventCapacity
        PROVE  Follows(m)'
    <2>1. /\ k \in 0..(Len(events) - 1) /\ Relevant(events[Len(events) - k])
          /\ \A j \in 0..(k - 1) : ~Relevant(events[Len(events) - j])
      BY <1>3 DEF Decides
    <2>2. CASE k < Len(events) - 1
      <3>1. \A j \in 0..k : events'[Len(events') - j] = events[Len(events) - j]
        <4> SUFFICES ASSUME NEW j \in 0..k
                     PROVE  events'[Len(events') - j] = events[Len(events) - j]
          OBVIOUS
        <4>1. Len(events') - j \in 1..Len(events') /\ (Len(events') - j) + 1 = Len(events) - j
          BY <1>1, <2>2
        <4> QED
          BY <1>1, <4>1
      <3>2. k \in 0..(Len(events') - 1) /\ k \in 0..k /\ \A j \in 0..(k - 1) : j \in 0..k
        BY <1>1, <2>1, <2>2
      <3>3. Decides(k)'
        BY <2>1, <3>1, <3>2 DEF Decides, Relevant
      <3>4. Effect(events'[Len(events') - k]) = Expected'
        BY <1>3, <3>1, <3>2
      <3> QED
        BY <1>2, <1>3, <3>3, <3>4 DEF Follows, Effect
    <2>3. CASE ~(k < Len(events) - 1)
      <3>1. Len(events) - k = 1
        <4>1. Len(events) \in Nat /\ k <= Len(events) - 1
          BY <1>1, <2>1
        <4> QED
          BY <2>3, <4>1
      <3>2. (IF saving' # {} THEN saving' ELSE flash') = Expected'
        BY <1>1, <1>3, <2>1, <3>1
      <3>3. \A i \in 1..Len(events') : ~Relevant(events'[i])
        <4> SUFFICES ASSUME NEW i \in 1..Len(events')
                     PROVE  ~Relevant(events'[i])
          OBVIOUS
        <4>1. Len(events) - (i + 1) \in 0..(k - 1) /\ Len(events) - (Len(events) - (i + 1)) = i + 1
          BY <1>1, <2>1, <2>3
        <4> QED
          BY <1>1, <2>1, <4>1
      <3> QED
        BY <3>2, <3>3 DEF Follows, Relevant
    <2> QED
      BY <2>2, <2>3
  <1>4. ASSUME \A i \in 1..Len(events) : ~Relevant(events[i]),
               (IF saving # {} THEN saving ELSE flash) = Expected
        PROVE  Follows(m)'
    <2>1. ~Relevant(Head(events)) /\ \A i \in 1..Len(events') : ~Relevant(events'[i])
      BY <1>1, <1>4
    <2> QED
      BY <1>4, <2>1 DEF Follows, Relevant
  <1> QED
    BY <1>3, <1>4 DEF Follows

LEMMA EventsFollow ==
    ASSUME NEW m, TurnFits(m), InRange, Follows(m), Events
    PROVE  Follows(m)'
  <1>0. /\ m \in Nat /\ QueueOK /\ Expected' = Expected
    BY DEF TurnFits, InRange, Events, ForgetNetwork, EraseCredentials, WriteCredentials,
           NoteEvent, TurnOver, deviceVars, Expected, Member, Credentials
  <1>1. CASE ForgetNetwork \/ EraseCredentials \/ NoteEvent
    <2>1. /\ events # <<>> /\ events' = Tail(events) /\ saving = {}
          /\ Raises \in Nat /\ Raises' = Raises
      BY <1>1 DEF ForgetNetwork, EraseCredentials, NoteEvent, Raises, loopVars
    <2>2. Relevant(Head(events)) =>
              (IF saving' # {} THEN saving' ELSE flash') = Effect(Head(events))
      BY <1>1 DEF ForgetNetwork, EraseCredentials, NoteEvent, Relevant, Effect
    <2>3. ~Relevant(Head(events)) => UNCHANGED <<flash, saving>>
      BY <1>1 DEF ForgetNetwork, EraseCredentials, NoteEvent, Relevant, flashVars
    <2> QED
      BY <1>0, <2>1, <2>2, <2>3, TakenFollows
  <1>2. CASE WriteCredentials
    <2>1. /\ events' = events /\ saving # {} /\ flash' = saving /\ saving' = {}
          /\ Room(m)' = Room(m)
      BY <1>2 DEF WriteCredentials, queueVars, loopVars, Room, Raises
    <2> QED
      BY <1>0, <2>1 DEF Follows, Decides, Relevant, Effect
  <1>3. CASE TurnOver
    <2>1. events = <<>> /\ Len(events) = 0 /\ UNCHANGED <<events, saving, flash>>
      BY <1>3 DEF TurnOver, queueVars, flashVars
    <2>2. ~\E k \in Nat : Decides(k)
      BY <2>1 DEF Decides
    <2> QED
      BY <1>0, <2>1, <2>2 DEF Follows, Relevant
  <1> QED
    BY <1>1, <1>2, <1>3 DEF Events

LEMMA BootFollows ==
    ASSUME NEW m, TurnFits(m), InRange, PowerCut
    PROVE  Follows(m)'
  <1>0. flash' = flash /\ saving' = {} /\ stage' = "receive" /\ handled' = 0
    BY BootIs
  <1>1. CASE flash = {} /\ events' = <<>> /\ phase' = Phase("Scanning")
    <2>1. Expected' = {} /\ Len(events') = 0
      BY <1>1 DEF Expected, Member, Phase
    <2> QED
      BY <1>0, <1>1, <2>1 DEF Follows
  <1>2. ASSUME NEW c \in Records, flash = {c}, events' = <<CredentialsChanged(c)>>,
               phase' = Phase("Joined"),
               radio' = [channel |-> c.channel, pan |-> c.pan, short |-> c.short],
               parent' = c.parent, key' = c.key, sequence' = c.seq
        PROVE  Follows(m)'
    <2>1. Credentials' = c
      BY <1>2, RecordIs DEF Credentials
    <2>2. Expected' = {c}
      BY <1>2, <2>1 DEF Expected, Member, Phase
    <2>3. Len(events') = 1 /\ events'[1] = CredentialsChanged(c)
      BY <1>2
    <2>4. Decides(0)' /\ Effect(events'[Len(events') - 0]) = Expected'
      <3>1. 0 \in 0..(Len(events') - 1) /\ Len(events') - 0 = 1
        BY <2>3
      <3>2. \A j \in 0..(0 - 1) : ~Relevant(events'[Len(events') - j])
        OBVIOUS
      <3> QED
        BY <2>2, <2>3, <3>1, <3>2, WhatMatters DEF Decides, Relevant
    <2>5. 0 + 1 + Room(m)' <= EventCapacity
      <3>1. Raises' = Burst + 1
        BY <1>0, Bounds DEF Raises
      <3>2. PICK d \in Nat : d = (Burst + 1) * m
        BY Bounds, Products DEF TurnFits
      <3>3. Room(m)' = d /\ 1 + d <= EventCapacity
        BY <3>1, <3>2 DEF Room, TurnFits
      <3> QED
        BY <3>2, <3>3
    <2> QED
      BY <2>4, <2>5 DEF Follows, Effect
  <1> QED
    BY <1>1, <1>2, BootIs

LEMMA EveryStepFollows ==
    ASSUME NEW m, TurnFits(m), InRange, (InRange)', Follows(m), [Next]_vars
    PROVE  Follows(m)'
  <1>0. m \in Nat /\ LoopOK /\ Raises \in Nat
    BY RaisesIs DEF TurnFits, InRange
  <1>1. CASE Drained \/ Tune \/ TransmissionDelivered \/ TransmissionFailed \/ Transmitted
             \/ LateFrame \/ UNCHANGED vars
    <2>1. UNCHANGED <<radio, parent, key, sequence, events, flash, saving>> /\ (Member)' = Member
      BY <1>1 DEF Drained, Tune, TransmissionDelivered, TransmissionFailed, Transmitted,
            LateFrame, vars, deviceVars, queueVars, flashVars, Member, Phase, joined
    <2>2. Expected' = Expected
      BY <2>1 DEF Expected, Credentials
    <2>3. Raises' \in Nat /\ Raises' <= Raises
      BY <1>0, <1>1, Bounds
         DEF Drained, Tune, TransmissionDelivered, TransmissionFailed, Transmitted,
             LateFrame, vars, loopVars, Raises, LoopOK
    <2> QED
      BY <1>0, <2>1, <2>2, <2>3, UnmovedFollows
  <1> QED
    BY <1>1, ReceiveFollows, TickFollows, EventsFollow, BootFollows DEF Next, Loop

(* Between two turns flash holds exactly the membership the device holds,  *)
(* whatever frames, failures and power cuts came before.  The hypothesis   *)
(* bounds what one turn may raise by the event queue (EVENT_CAPACITY,      *)
(* device.rs:29), which the code needs and does not enforce.               *)
THEOREM FlashFollowsMembership ==
    ASSUME NEW m, TurnFits(m)
    PROVE  Spec => []FlashAgrees
  <1>1. Init => InRange /\ Follows(m)
    <2> SUFFICES ASSUME Init
                 PROVE  InRange /\ Follows(m)
      OBVIOUS
    <2>1. Len(events) = 0 /\ saving = {} /\ flash = {} /\ Expected = {}
      BY DEF Init, Expected, Member, Phase
    <2> QED
      BY <2>1, StartsInRange DEF Follows
  <1>2. Init => FlashAgrees
    BY DEF Init, FlashAgrees, Member, Phase
  <1>3. InRange /\ Follows(m) /\ FlashAgrees /\ [Next]_vars => FlashAgrees'
    <2> SUFFICES ASSUME InRange, Follows(m), FlashAgrees, [Next]_vars, TurnIsOver'
                 PROVE  flash' = Expected'
      BY DEF FlashAgrees, Expected
    <2>1. CASE TurnOver
      <3>1. Expected' = Expected /\ UNCHANGED flash
        BY <2>1 DEF TurnOver, deviceVars, flashVars, Expected, Member, Credentials
      <3>2. Len(events) = 0 /\ saving = {}
        BY <2>1 DEF TurnOver
      <3>3. flash = Expected
        BY <3>2 DEF Follows, Decides
      <3> QED
        BY <3>1, <3>3
    <2>2. CASE PowerCut
      <3>1. CASE flash = {} /\ flash' = flash /\ phase' = Phase("Scanning")
        BY <3>1 DEF Expected, Member, Phase
      <3>2. ASSUME NEW c \in Records, flash = {c}, flash' = flash, phase' = Phase("Joined"),
                   radio' = [channel |-> c.channel, pan |-> c.pan, short |-> c.short],
                   parent' = c.parent, key' = c.key, sequence' = c.seq
            PROVE  flash' = Expected'
        <4>1. Credentials' = c
          BY <3>2, RecordIs DEF Credentials
        <4> QED
          BY <3>2, <4>1 DEF Expected, Member, Phase
      <3> QED
        BY <2>2, <3>1, <3>2, BootIs
    <2>3. CASE UNCHANGED vars
      BY <2>3 DEF vars, deviceVars, loopVars, flashVars, FlashAgrees, TurnIsOver, Expected,
                  Member, Credentials
    <2>4. CASE Receive
      BY <2>4 DEF Receive, TurnIsOver, InRange, LoopOK
    <2>5. CASE Drained \/ LateFrame \/ Tick \/ Tune \/ Transmitted
      BY <2>5 DEF Drained, LateFrame, Tick, TickJoined, TickWaits, TickNextChannel,
            TickAssociates, TickPolls, TickAttempts, TickGivesUp, Ticked, Tune, Transmitted,
            TurnIsOver
    <2>6. CASE TransmissionDelivered \/ TransmissionFailed \/ ForgetNetwork
               \/ EraseCredentials \/ NoteEvent \/ WriteCredentials
      BY <2>6 DEF TransmissionDelivered, TransmissionFailed, ForgetNetwork, EraseCredentials,
            NoteEvent, WriteCredentials, loopVars, TurnIsOver, InRange, FlashOK
    <2> QED
      BY <2>1, <2>2, <2>3, <2>4, <2>5, <2>6 DEF Next, Loop, Events
  <1>4. InRange /\ Follows(m) /\ [Next]_vars => (InRange /\ Follows(m))'
    BY EveryStepKeepsRange, EveryStepFollows
  <1> QED
    BY <1>1, <1>2, <1>3, <1>4, PTL DEF Spec
=============================================================================
