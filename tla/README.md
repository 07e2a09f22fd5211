# Formal models of the Zigbee light

TLA+ models of the Zigbee 3.0 end device in this repository: the protocol stack
(`src/zigbee`, a `no_std` crate that owns no clock, no radio and no storage) and
the firmware that drives it on an ESP32-H2 (`src/firmware`). TLC checks the
models on small instances; TLAPS proves what is said about the two tables, the
queues, the light, its scenes and its reports for every size.

Paths below are relative to the repository, with `device.rs` for
`src/zigbee/src/device.rs` and so on; `main.rs`, `store.rs`, `radio.rs` and
`button.rs` are the firmware's.

## 1. The system

Everything runs in one thread. `main.rs` turns a loop for ever:

    drain the radio's queue  -> Device::receive_with_quality for each frame
    button, Device::tick     -> deadlines: scan, poll, keepalive, reports, update
    next_firmware_block      -> Store::write_firmware
    Device::radio            -> Radio::tune when the stack wants another channel
    next_transmission        -> Radio::send, delivered or failed
    next_event               -> Store::save_credentials, forget_network, ...

Concurrency comes from outside the loop: the radio's interrupt queues up to
twenty frames at any moment, the power fails at any moment, and coordinator,
routers, senders and update server are processes of their own. The order of the
steps of a turn is therefore the heart of the matter: a frame that arrives
before the retune is handled after it, and a frame is on the air before the
event raised with it is in flash.

### Components

**Membership** (`device.rs`: `tick`, `restart_scan`, `on_beacon`,
`on_association_response`, `on_transport_key`, `on_switch_key`,
`on_rejoin_response`, `start_rejoin`, `transmission_failed`).
State: the phase with its deadlines and the candidate it holds, the radio
configuration, parent, network key and its sequence number, the key held for a
rotation, the run of failed transmissions. It talks to the loop through the
outbox, the event queue and the wanted radio configuration. Hard: frames of an
earlier phase handled in a later one; keys and candidates that outlive the
network they came from; searches nobody answers. Correct when a member holds a
key of the network it is on, flash agrees with memory, and every search ends.

**Frame counter** (`send_application`, `send_rejoin_request`,
`send_end_device_timeout_request`, `remember`, `restore`; `store.rs`). State:
the live counter, the end of the range reserved in flash, the credentials
sector. Hard: power cuts; two queues that drop; senders that do not look at the
range. Correct when no counter the network has accepted is ever used again.

**Outbox and event queue** (`Queue` in `device.rs`). State: a ring, its head
and its length. Hard: the wrap, and giving up the oldest entry when full.
Correct when it is a bounded first-in first-out queue, whoever uses it.

**Replay table** (`nwk.rs`, `Replays`). State: up to eight senders with their
highest counter, and the slot to reuse next. Hard: more senders than slots; a
sender in two slots. Correct when it refuses exactly what does not exceed what
it took before.

**Duplicate table** (`aps.rs`, `Duplicates`). State: a ring of eight pairs of
source and application counter. Correct when it knows the last eight frames
acted on and no others.

**Application delivery** (`on_network_frame`, `on_application_frame`,
`on_application_data`, `acknowledge`). From a sender's request to its effect and
the acknowledgement. Hard: loss, copies, reordering, repeats in new frames, a
rotation in the middle, a restart. Correct when a request is acted on once and
the sender hears the truth in the end.

**Over-the-air update** (`ota.rs`, `store.rs`, the two places in `main.rs`).
State: the client's phase and offset, one pending block, the store's sector
buffer and position, the slot. Hard: blocks and events travel to the store on
different paths; the event queue drops; flash fails; retries. Correct when only
a whole image is ever booted, and a download ends.

**Light** (`zcl.rs`: on/off, level with ramps, identify; `set_on_off`,
`set_level` in `device.rs`). State: the attributes, a ramp under way held as its
starting point, the deadline of identifying, the marks for a report. Hard: ramps
that meet commands, scenes and local decisions; a deadline on a clock that
wraps. Correct when a ramp goes one way and ends, a local brightness stands, and
every change is told.

**Groups and scenes** (`zcl.rs`, `Tables` in `device.rs`, the tables sector).
State: four groups, eight scenes, the light's settings and whether a recalled
scene is still live, the copy in flash. Hard: vacant slots in the middle of full
tables; commands, ticks and events that travel to flash through a queue that
drops; an erase before every write. Correct when the tables are a book of
settings under groups the light is in, flash follows memory, and a live scene is
what shows.

**Reporting** (`Reportable`, `configure_reporting`, `honour_reporting`).
State: per attribute the intervals, whether a change is pending, the time of the
last report. Hard: a mark is cleared when its report is queued, long before it is
heard. Correct when the coordinator hears of every change unless a report was
lost, and no change waits for ever.

**Clock** (`Instant` in `lib.rs`) and **button** (`button.rs`): a wrapping
millisecond count, and a debounced input.

**Radio driver** (`radio.rs`): tuning with its filters, send with back-off and a
wait for the transmission's report, the receive queue. Hard: the report comes in
an interrupt, maybe after the wait is over and for a frame of the past.

**Pure parts**: the codecs of `mac.rs`, `nwk.rs` and `aps.rs`, the responder
`zdo.rs`, `crypto.rs`, `buf.rs`, `led.rs`. They keep no state; the models take
what they parse or build as records, and a frame as readable exactly under the
key it was secured with.

## 2. The modules

| module | models | source |
|---|---|---|
| `BoundedFifo` | abstract: a queue that gives up its oldest entry | |
| `RingQueue` | the ring, refining `BoundedFifo` | `device.rs` 511-544 |
| `Membership` | phase machine, main loop, credentials sector | `device.rs`, `main.rs`, `store.rs` |
| `Membership_proofs` | its theorems | |
| `FrameCounter` | the counter from its senders to flash and back | `device.rs`, `main.rs`, `store.rs` |
| `FrameCounter_proofs` | its theorems | |
| `ReplayGuard` | abstract: refuse what does not exceed the best so far | |
| `Replays` | the replay table, refining `ReplayGuard` | `nwk.rs` 212-243 |
| `RecentWindow` | abstract: the last so many frames | |
| `Duplicates` | the duplicate table, refining `RecentWindow` | `aps.rs` 131-158 |
| `Tables_proofs` | the theorems of both tables | |
| `Delivery` | senders, network and device; extends `Replays` and `Duplicates` | `device.rs` 773-816, 1543-1739 |
| `Delivery_proofs` | its theorems; extends `Tables_proofs` | |
| `Upgrade` | server, client, store, slot and restart | `ota.rs`, `store.rs`, `main.rs` |
| `Upgrade_proofs` | its theorems | |
| `Light` | switch, brightness, ramps, identifying, local controls, marks for a report | `zcl.rs`, `device.rs`, `lib.rs` |
| `Light_proofs` | its theorems | |
| `SceneBook` | abstract: settings kept under groups and identifiers, and a copy | |
| `Scenes` | the tables, the colour, the way to flash and back, refining `SceneBook` | `zcl.rs`, `device.rs`, `main.rs`, `store.rs` |
| `Scenes_proofs` | its theorems | |
| `Reporting` | an attribute, its reports, the outbox (extends `RingQueue`), the radio's attempts | `zcl.rs`, `device.rs`, `main.rs`, `radio.rs` |
| `Reporting_proofs` | the theorems of the ring and of reporting | |

`MCxxx` extends `xxx` with the values a configuration picks from.

### How state and actions correspond

*Membership.* `phase` is `Phase` with what its variants carry (`best`, `asked`);
`radio` the configuration the stack wants and `tuned` the one the radio has;
`late` what the radio queued after the drain. Each handler is an action:
`OnBeacon`, `OnAssociationResponse`, `OnTransportKey`, `OnLeave`, `OnSwitchKey`,
`OnRejoinResponse`, `OnLightCommand`; `Handle` is the dispatch and `Ignore` its
early returns. `tick` is one action per branch. `Receive`, `Drained`, `Ticked`,
`Tune`, `TransmissionDelivered`/`Failed`, the event actions and `TurnOver` are the
loop. `EraseCredentials` and `WriteCredentials` are the two steps of
`Store::write`, so that the power can fail between them. Deadlines are a choice
made by the tick. Frames waiting in the outbox are only counted here.

*FrameCounter.* `stack` is the device's counter, the end of its range and both
queues with their contents. `SendApplication` checks the range after it has
queued the frame, `SendCommand` never does; `Remember` reserves. A *use* is one
key through one membership, the span in which a counter may not come back. The
environment accepts a frame whose counter exceeds those accepted before.

*Replays, Duplicates.* One action per outcome of `seen`; `ForgetSenders` and
`ForgetFrames` are what a restart, leaving and (for the first) a key switch do.

*Delivery.* `Takes` is `on_network_frame` up to the replay table, `Repeated` and
`ActedOn` are `on_application_data` on its two branches. The senders (`Ask`,
`Repeat`, `Answered`, `MoveToNextKey`) and the air (`LoseFrame`, `LoseAnswer`,
`Arrives`) are the environment. A reply sits in the outbox until `Transmit`.

*Upgrade.* Offsets count pieces of the image and blocks of the file. `OnOffer`,
`OnBlock`, `OnWait`, `OnRefusal`, `OnEnd` are `State::receive`; `TickWaits`,
`TickHoldsBack` and `TickAsks` are `State::due`; `WriteBlock`, `RefuseWrite`,
`BeginFirmware`, `AbandonFirmware`, `ActivateFirmware` are the store and the
places in `main.rs` that call it. `due` is whether `due_at` has certainly
passed; otherwise the tick may find it passed or not. The device is taken to be
on a network, for the client is not driven off one.

*Light.* One action per command of the On/Off, Level Control and Identify
clusters, with `Recall` for what a scene does to switch and brightness, and
`SetOnOff` and `SetLevel` for the button and the caller. `Tick` is `Device::tick` up
to `publish_change`: `Advance` carries a ramp on, `Identify` looks at the
deadline. `Report` is `honour_reporting` without the question when. Only
differences of instants matter to the code, so the ramp has an age and the
deadline a time left, both modulo the clock. Brightness and clock are small, and
`Second` is the number of clock units a rate refers to. `told`, `held`,
`recalled`, `wanted` and `busy` are history.

*Scenes.* One action per command that changes a table, `TableCommand` being what
they share: the event with a copy of the tables, sent whatever came of the
command. `SetColour`, `SetLevel`, `MoveHue`, `HoldHue` and `RecallScene` are what
moves the light; `Tick` turns the hue and moves a ramp. `Raise` is the event
queue, `Noise` how many other events a command or a tick may put in it. `EraseTables` and
`WriteTables` are the two steps of `Store::write`, `PowerCut` reads back what
`restore_tables` would. `Book` maps the slots to the set of what they hold.

*Reporting.* `Change` stands for whatever moves the attribute (`Light` shows that
each sets the mark). `Tick` is `honour_reporting`; `Traffic` is any other frame
that competes for the ring. `TakeFrame`, `OfferAgain`, `Delivered`, `GiveUp` and
`OutboxEmpty` are the loop of `main.rs` with `Radio::send` inside; `Offer` clears
the flags and hands the frame over; `TransmitDone`, `TransmitFailed` and
`LateReport` are the driver's callbacks, the last for a frame overtaken by the
next, whose report is taken for the next one's. `heard` and `lost` are history.

## 3. What is checked

Every passing run ends with its state space exhausted.

| run | properties | shows | bounds |
|---|---|---|---|
| `Membership` | `TypeOK`, `MemberOfItsNetwork`, `FlashAgrees`, `CurrentKeyIsRead`, `SearchEnds` | see below; under fairness every search ends | two PANs, two channels, three keys, two routers, two frames a turn, one late frame |
| `FrameCounter` | `TypeOK`, `InOrder`, `RangeProtects`, `FlashHoldsTheRange` | counters leave in order within a boot, flash holds the end of the range, and a counter comes back only by a cut in the middle of a turn or past the range | cuts in every stage, both kinds of keepalive, rejoins; two uses, counters to 9 with a range of 3; queues of four, two frames a turn |
| `Delivery` | `TypeOK`, `NotTwiceInAWindow`, `AnsweredWasDone`, `NothingLostEarly`, `ImplementsGuard`, `ImplementsWindow`, `AnsweredInTheEnd` | see below | two senders, three requests, tables of two, one trouble of any kind, one rotation |
| `Upgrade` | `TypeOK`, `WholeImage`, `FinishedIsStored`, `DownloadEnds` | see below | versions 1 to 3, images of three and two pieces, sectors of two, two requests in flight, three frames a turn |
| `Light` | `TypeOK`, `ChangesArePending`, `LocalLevelHolds`, `RampNeverRunsBack`, `RampEnds`, `IdentifyEnds` | see below | a range of a few levels, rates that take several ticks and one, a clock that wraps soon |
| `Scenes` | `TypeOK`, `ImplementsBook`, `FlashHoldsTheTables`, `LiveSceneIsShown` | see below | two groups of which one fits, two scenes of three possible, two brightnesses, both colour modes; a queue of two that one command with its tick overfills |
| `Reporting` | `TypeOK`, `ReportedOrLost`, `ImplementsFifo`, `ReportsGoOut` | see below | a ring of three, three other frames a turn, two attempts, a run of two failures, intervals without and with a least and a greatest, a clock that wraps at five |
| `MembershipLateKey` | `JoinedIsOnANetwork` | violated | |
| `FrameCounterCommands` | `NoReplay` | violated | |
| `DeliveryNextKey` | `FreshIsRead` | violated | |
| `LightRamp` | `RampRunsIntoItsEnd` | violated | |
| `LightIdentify` | `IdentifiesWhenAsked` | violated | |

`MemberOfItsNetwork`: whatever a device went through, a member that has a PAN
holds a key of it, with the right sequence number, and is on its channel.
`FlashAgrees`: when a turn is over, flash holds exactly the membership in memory,
or nothing off a network. `CurrentKeyIsRead`: a key held for a rotation never
shadows the key in use.

`NotTwiceInAWindow`: a boot acts on a request again only once a table's worth of
others came between, through copies, repeats, reordering, and a key switch, which
empties the replay table. `AnsweredWasDone`: an acknowledged request was acted
on. `AnsweredInTheEnd`: a sender that keeps asking is answered, except by a
device a restart has left on a key the network gave up.

`WholeImage`: what the bootloader is pointed at is every piece of one version.
`FinishedIsStored`: the client asks the server to end only with the image in the
store to its last piece, or with a store that knows better.

`ChangesArePending`: whatever moved the light, an attribute the coordinator was
told otherwise about is marked. `LocalLevelHolds`: a brightness set locally
stands until a command moves it, so no tick carries on a ramp it met.
`RampNeverRunsBack`: a ramp, which is held as its starting point, never pulls the
brightness back over what came in between; a scene recalled over a ramp is the
exception the code makes, for `recall_scene` does not stop it. `RampEnds` and
`IdentifyEnds`: left alone, both come to an end, over a wrap of the clock too.

`ImplementsBook`: through full tables, vacant slots and restarts the tables are
what the clusters promise, at most one setting under a group and an identifier,
and none that outlives its group. `FlashHoldsTheTables`: between two turns flash
holds the tables in memory; the exceptions are named, a queue that gave up the
event that carried them, and a network left since, which empties flash and leaves
memory as it is. `LiveSceneIsShown`: a scene said to be live is the light as it
shows.

`ReportedOrLost`: a value the coordinator has not heard is marked, or on its way
in the outbox or the radio, or a report of it was lost to a full outbox, the
radio, the network or the power. `ReportsGoOut`: a mark does not wait for ever.
`ImplementsFifo`: in use by all of this the ring is a bounded queue.

### Bounds

Bounds are constants with "bound" in their comment. `Burst` is the frames a turn
handles: two are enough for any pair of frames to meet within a turn, and the
order between turns is free; `Upgrade` takes three so that one turn can raise
more events than the queue of four holds. Queues hold four in `Membership`,
`FrameCounter` and `Upgrade`, three in `Reporting`, so that the frames of one
turn overfill them, and two in `Delivery`, where acknowledgements compete with
one report, and in `Scenes`; in the code both queues hold four (`device.rs:43`).
The theorems cover every capacity. Tables of two or three slots wrap after as
many steps; the replay table's theorems cover every size. `Margin` is 3 for
1024: what matters is that a range can be used up within a turn or across
several. Counters stop short of wrapping.

### Fairness

`Membership!FairSpec`: the loop keeps turning (the processor never stops, and no
step of a turn waits for another process), and a give-up deadline that stays
set is found reached by some later tick, because the clock passes. Every search
phase carries such a deadline from its start and no frame moves it.
`Delivery`: overdue requests are repeated, what is on its way arrives, the device
keeps running, and the switch command is repeated until heard; losses are
finite by their bound. `Upgrade`: the loop turns, a request made again and again
reaches the server, the server gets to every request and in the end gives what
was asked for. Without the last a download need not end: the client has no
deadline for a server that falls silent.

`Light`: the loop turns and the clock with it. `Reporting`: the loop over the
outbox does not stop, since the wait for a callback ends at its time-out and the
number of attempts is limited; and the clock moves on from one tick to the next
again and again. The latter is strong fairness, for a tick is possible only when
the outbox is empty, and a turn may be shorter than the clock can tell.

## 4. Where code and words disagree

`JoinedIsOnANetwork` (`device.rs:869`). A transport key is taken in every phase
but `Joined`. One queued in the radio behind a leave command finds the device
scanning, and makes it joined with no PAN and no address.

`NoReplay` under commands (`device.rs:32`). Rejoin requests and timeout requests
move the counter past the range in flash; after a power cut the counter goes on
from a value the network has seen exceeded.

`FreshIsRead` (`zigbee/README.md:84`). Both keys are live during a rotation, but
one replay table serves both: a frame under the next key, counted from the
start, is refused until the switch empties the table.

`RampRunsIntoItsEnd` (`zcl.rs:798`). A ramp is said to end once the brightness
runs into either end of the range. The code asks whether the brightness *is* at
an end, so a move down from full brightness, or up from zero, is over at the
first tick that comes before its first step is due.

`IdentifiesWhenAsked` (`device.rs:908`). The deadline of identifying is never
cleared when it is reached, and an instant counts as past for half the range of
the clock only: some 24 days later the light identifies itself though nobody
asked.

Read in the code and not the subject of a run: the duplicate table keeps an octet
counter that a sender shares among all it talks to, so a new request that comes
round to a remembered value is acknowledged and dropped; `State::due` of the
update moves its deadline on before it looks at the pending block, and the main
loop ticks before it takes the block, so every block costs a retry period of five
seconds; the comment at `zcl.rs:52` says that a restart starts the tables empty,
and `restore_tables` brings them back; `set_level` and the on/off commands leave
`scene_valid` set; the tables of a network left stay in memory and reach flash
with the next change; the debounce of the button measures the time since the last
poll that agreed.

Assumptions the passing runs rest on, each of which the code needs and does not
enforce: networks do not share key sequence numbers (the held key outlives its
network, `device.rs:1444`, and with a shared number `CurrentKeyIsRead` and
`MemberOfItsNetwork` fail); a turn raises no
more events than fit (`FlashAgrees`, and `RangeProtects` and `FlashHoldsTheRange`: an
event pushed out of the queue never reaches flash); a sender's counter does not come round
within the table (`Elsewhere = {0}` in `Delivery`); there are no more senders than
slots (`ImplementsGuard`); the update server answers in order, and no more than
two requests are on their way to it (`Ordered`, `InFlight`). The version in a block
response is ignored (`ota.rs:258`), so `WholeImage` fails with answers out of order,
and in order too with three requests on their way: after two power cuts the
answers to old requests put pieces of one version into another.

## 5. What is proved

For every value of the constants that the assumptions of the modules admit, and
under the hypotheses named. The code has no unbounded data; the theorems cover
its sizes with all others.

`Tables_proofs`, the replay table, for every table size, set of senders and set of
counters:

* `TypeCorrect`: `ReplaysSpec => []ReplaysTypeOK`.
* `NoEarlyLoss`: `ReplaysSpec => []NothingLostEarly`. No sender holds two slots,
  and nothing is taken over while a slot is free.
* `PerfectGuard`: with no more senders than slots, `ReplaysSpec` implements
  `ReplayGuard`.

The argument. `NothingLostEarly` is not inductive: nothing in it says where the
free slots are. The strengthening `FilledInOrder` adds that while any slot is
free, the slots in use are exactly those below `oldest`, so a new sender takes a
free slot; together with the types this is the inductive invariant. For
`PerfectGuard`, `Best` maps the table to the highest counter of each sender. A
known sender's step is the guard's step by the invariant that its slot is the
only one. An unknown sender's step is the guard's if it overwrites nobody, and
it overwrites nobody since a full table with one slot per sender already holds
every sender: a counting argument on the finite set of slots. Only
`ReplaysAssumption` and, for `PerfectGuard`, the number of senders are assumed.

`Tables_proofs`, the duplicate table, for every size and every set of senders and
counters:

* `ExactWindow`: `DuplicatesSpec` implements `RecentWindow`.

The argument. As in the replay table, the invariant says where the free slots
are: while there are any, the slots in use are those below the pointer. So the
window is those slots while the table fills, and the whole ring from the pointer
on afterwards. `WritingSlides` takes the three cases apart: a table with room,
the write that fills it, and a full table. `ContainedIsRemembered` shows that
what the code's search finds is what the window holds. Only
`DuplicatesAssumption` is assumed.

`Delivery_proofs`, for every number of senders, requests, losses and sizes:

* `DeliveryInRange`, `NoEarlyLossInDelivery`, `GuardInDelivery` (with no more
  senders than slots), `WindowInDelivery`: every step of the larger system is a
  step of each table or leaves it alone, so the theorems above apply.
* `OnceInAWindow`: `Spec => []NotTwiceInAWindow`.
* `AnswersTellTheTruth`: `Spec => []AnsweredWasDone`, if no sender's counter comes
  round while the model runs, which for this property is the only way to fail.

The argument. Table and air know a request by its counter only, and counters
wrap. `Consistent(g)` says that some numbering `g` of all requests explains what is
seen: each frame on the air carries its request's number, the duplicate table
holds the numbers of the last requests acted on, and no request is acted on
again within the window. A request just made extends the numbering. For the
answers the numbering also rises with the requests (`Rising`), so that an answer
with the number of the latest request is of no earlier one.

`FrameCounter_proofs`, for every margin, capacity and bound:

* `CounterInRange`: `Spec => []TypeOK`.
* `FramesLeaveInOrder`: `Spec => []InOrder`.
* `TheRangeProtects`: `Spec => []RangeProtects`, if `Burst < EventCapacity`.
* `FlashKeepsUp`: `Spec => []FlashHoldsTheRange`, under the same hypothesis.

The argument. `Order` ties the last frame that left to the frames in the outbox
and these to the counter, use by use; a full outbox only drops a prefix. For the
range, `Follows` says that the latest record of the range is in flash or in the
event queue, with no more events behind it than the turn can still push it back
by, and `Exceeds` that a waiting frame is above what the network accepted under
its use. The hypothesis is needed: with as many events in a turn as the queue
holds the record is pushed out. The code does not enforce it.

`Membership_proofs`, for every number of networks, channels, keys, routers and
queues:

* `MembershipInRange`: `Spec => []TypeOK`.
* `MembersHoldTheirKey`: `Spec => []MemberOfItsNetwork`, if `OwnNumbers`.
* `HeldKeyNeverShadows`: `Spec => []CurrentKeyIsRead`, if `OwnNumbers`.
* `FlashFollowsMembership`: `Spec => []FlashAgrees`, if `TurnFits(m)` for some `m`.

The argument. A member's channel and PAN come from frames, and a frame may be
acted on after the radio moved: the driver queues what it hears between the drain
and the retune. `Placed` says where candidates and radio are in each phase, and
`Overheard` that what is queued is of the network the radio will be on. `Genuine`
says that every record of a membership, in memory, in the event queue and in
flash, is of a key that some trust centre handed out for that network; `OwnNumbers`
(networks do not share key numbers) is needed since a switch command names a key
by its number only. For flash, `Follows(m)` speaks of the last event that decides
what flash will hold: it is right, and what the rest of the turn can raise does not
push it out; with none waiting, what is being written or lies in flash is right.
`TurnFits(m)` says that a turn's events fit the queue, which the code needs and
does not enforce.

`Upgrade_proofs`, for all versions, images, headers, sectors, queues and bursts:

* `UpgradeInRange`: `Spec => []TypeOK`, whatever the order of the answers.
* `WholeImagesOnly`: `Spec => []WholeImage`, if `AnswersInOrder`.
* `StoredWhenFinished`: `Spec => []FinishedIsStored`, if `AnswersInOrder`.

The argument. Client and store count separately and hear of each other late, so
the invariant `Following` says what each may believe. `Followed`: during a download
the store, if it still believes in its image, holds as many pieces of the offered
version as the client has taken, or all but the one that waits, or will refuse
that one (`Holding`). `Announced`: while the store has not heard of an offer, the
client has taken nothing of it. `Ended`: while it has not heard of the end, it
still holds some version whole. `InTurn`: no end follows an offer in one queue.
What a queue that is full drops may be any of these events, and the invariant
holds without them: a store that missed an offer refuses what comes. `Asking` and
`OneWaits` keep old requests apart: of two on their way only the first can be of
another version, and the client is then still at the header. That is where the
hypothesis comes in: `AnswersInOrder` is order, at most two requests on their way,
and a header that takes at least a block, as the code's does
(62 octets and blocks of 48).

`Light_proofs`, for every range of brightness, rates, sizes and clock:

* `LightInRange`: `Spec => []TypeOK`.
* `LightIsReported`: `Spec => []ChangesArePending`.
* `LocalLevelStands`: `Spec => LocalLevelHolds`.
* `RampGoesItsWay`: `Spec => RampNeverRunsBack`, if `ClockOutlastsARamp`.

The argument. `Settle` marks exactly what it changes, and a report clears a mark
only with what it tells. `LocalLevelHolds` needs the invariant that a brightness
set locally and not moved since excludes a ramp, so that the only step without a
command, the tick, has nothing to carry on.

A ramp is held as its starting point and its age, and each tick works out the
brightness anew, so nothing in a step says that the ramp goes on from where it
was. `OnItsWay` does: while no scene was recalled over it, the brightness is where
the ramp put it, and the ramp is young, for one that has come the whole range is
over. `ClockOutlastsARamp` is needed: the slowest rate crosses the range in
`MaxLevel` seconds, and the age must not come round within that time and a turn
(254 seconds and 49 days in the code). The products and quotients of `RampTo` are
kept away from the solver by lemmas (`ProductGrows`, `QuotientGrows`,
`ShortMeansYoung`).

`Scenes_proofs`, for tables, queues, bursts and sets of every size:

* `ScenesInRange`: `Spec => []TypeOK`.
* `FlashFollows`: `Spec => []FlashHoldsTheTables`.
* `LiveSceneStands`: `Spec => []LiveSceneIsShown`.
* `TablesAreABook`: `Spec => ImplementsBook`.

The argument. Flash may be behind in the middle of a turn, so the invariant
`Follows` speaks of what is on its way: the last event in the queue that carries
the tables carries those in memory; and with no such event left, they are being
written, or are in flash already, or flash is stale. `RaiseKeepsTheEnd` says what
a full queue keeps; `RaiseTables`, `RaiseNoTables` and `TakingLeavesTheRest` follow
the last copy through the queue.

For the refinement, `WellKept` says of a copy of the tables that no two slots hold
one key and that every entry sits in a group of that copy, and the invariant
`BookInv` says it of the tables in memory, of those queued, on their way to flash
and in it, for a power cut may bring back any that was written. `ForgettingSlots`,
`PuttingSlots` and `RemovingSlots` follow the slots; `TablesStep` turns what they
make of the book into its actions, `KeepStep` takes the erase and the write, and
`RestartStep` the boot. That the first vacant slot exists is the least-number
principle of the library (`FirstIsOne`), and that a book fits is a count of the
slots (`FewInSlots`). `ScenesAssumption` is assumed, and that an empty slot is no
entry (`EmptyAssumption`), which an `Option` of the code is not.

`Reporting_proofs`, the ring, for every capacity and every set of values:

* `RingInRange`: `RingSpec => []RingOK`.
* `RingIsFifo`: the ring implements `BoundedFifo`.

The argument. `Contents` reads the ring from its head on. The invariant adds to
the types that every live slot holds a value. Two lemmas carry the refinement:
moving the head on drops the oldest entry and no other (`MovingOnDropsOldest`),
and a write to the slot after the live ones appends (`WritingAppends`), since
distinct offsets below the capacity are distinct slots. A push into a full ring
is the first followed by the second. Only `RingCapacityAssumption` is assumed.

`Reporting_proofs`, reporting, for all values, intervals, attempts and capacities:

* `OutboxIsFifo`: `Spec => ImplementsFifo`. Every step of the larger system is a
  step of the ring or leaves it alone, so `RingIsFifo` applies.
* `ReportingInRange`: `Spec => []TypeOK`, with the ring's part by `RingInRange`.
* `NothingForgotten`: `Spec => []ReportedOrLost`.

The argument for the last. `ReportedOrLost` is not inductive: a report of the
value may be overtaken by an older one of another. The invariant `Owed` speaks of
the latest report in flight, which is the last in the outbox, or with none there
the frame in the radio's hand, or with none there the one the driver still owes
an outcome of; it carries the value, and with no report in flight the coordinator
heard the value. `HandOK` adds that the driver has the frame in hand or is done
with it, and that a frame not refused was heard. Each step is then followed on
the queue of the outbox, which `PushKeeps` and `PopOldestKeeps` of the ring give.
Only `ReportingAssumption` and those of the ring are assumed.

Only model-checked is all liveness, which with fairness and `ENABLED` is beyond
the prover; every safety property, action property and refinement the passing
runs check is a theorem, under the hypotheses named. What is defined by recursion
over data could not be proved either; the modules with theorems have none.

## 6. Plan

The runs are as many as the questions worth asking of the components, and their
safety is proved. Left is the hypothesis `TurnFits` of `FlashFollowsMembership` for
the sizes of the code, from what each handler raises.

## 7. Not modelled

Byte layouts and parsing, cryptography, the descriptors of the ZDO responder,
the indicator and the host-side examples: pure functions, better tested than
model-checked. The install code, which is read once at boot and never written.
The length of back-offs and of turns, and with them the button, whose debounce
is about nothing else. Reading attributes and the answers to commands. Start-up
settings, which scene the attributes name as current, and saturation apart from
hue. Group and broadcast frames in `Delivery`: they are not acknowledged, and go
through the same table.
