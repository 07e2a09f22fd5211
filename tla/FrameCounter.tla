---------------------------- MODULE FrameCounter ----------------------------
(***************************************************************************)
(* The outgoing frame counter: every secured frame carries one, a receiver *)
(* refuses one that does not exceed the last it accepted, and the device   *)
(* has to keep that promise across power cuts with a counter it seldom     *)
(* writes down.  A stored counter runs Margin ahead of the live one.       *)
(*                                                                         *)
(* The module follows the counter through the senders of                   *)
(* zigbee/src/device.rs (application frames check the reserved range,      *)
(* commands do not), the outbox and the event queue, the main loop of      *)
(* firmware/src/main.rs, which transmits before it acts on events, and the *)
(* credentials sector, which is erased before it is written.               *)
(*                                                                         *)
(* A `use` is one network key as held through one membership: leaving and  *)
(* switching keys both start the counter again, in a new use.              *)
(***************************************************************************)
EXTENDS Integers, Sequences

CONSTANTS
    Margin,          \* COUNTER_MARGIN
    OutboxCapacity,  \* OUTBOX_CAPACITY
    EventCapacity,   \* EVENT_CAPACITY
    RequestKeepalive,\* whether a parent may keep time by timeout requests
    ParentsFail,     \* whether a parent may stop answering, forcing a rejoin
    CutStages,       \* where in the loop the power may fail
    Burst,           \* bound: frames handled in one turn of the loop
    CounterBound,    \* bound: the counter stops the model here, short of wrapping
    UseBound         \* bound: uses of a key

Stages == {"receive", "transmit", "events"}

ASSUME FrameCounterAssumption ==
    /\ Margin \in Nat \ {0}
    /\ OutboxCapacity \in Nat \ {0} /\ EventCapacity \in Nat \ {0}
    /\ RequestKeepalive \in BOOLEAN /\ ParentsFail \in BOOLEAN
    /\ CutStages \subseteq Stages
    /\ Burst \in Nat /\ CounterBound \in Nat /\ UseBound \in Nat \ {0}

VARIABLES
    phase,      \* "out", "joined" or "rejoining"
    stack,      \* the counter, the end of its reserved range and the queues
    keepalive,  \* parent_keepalive: "poll" or "request"
    stage,      \* where the main loop is; the tick is the end of "receive"
    handled,    \* frames handled this turn
    saving,     \* the record whose sector is erased and not yet written, or none
    flash,      \* the credentials sector: none, or one [use, counter]
    uses,       \* history: how many uses there have been
    accepted,   \* history: per use, the highest counter the network accepted
    sent,       \* history: the last secured frame this boot put on the air
    exposed     \* history: the uses a power cut took up again from a stale record

vars == <<phase, stack, keepalive, stage, handled, saving, flash,
          uses, accepted, sent, exposed>>

-----------------------------------------------------------------------------
(* Frames and events                                                       *)

Secured == [use : Nat, counter : Nat]
Plain == [use |-> 0, counter |-> 0]      \* a frame with no network security
Saved == [kind : {"saved"}, use : Nat, counter : Nat]
Note == [kind |-> "note"]                \* an event that touches no flash
Left == [kind |-> "left"]

Record(event) == [use |-> event.use, counter |-> event.counter]

(* One frame comes before another on the air.                              *)
Before(f, g) == \/ f.use < g.use
                \/ f.use = g.use /\ f.counter < g.counter

Pushed(q, v, capacity) == Append(IF Len(q) = capacity THEN Tail(q) ELSE q, v)

(* A queue that never makes room.                                          *)
EnqueueUnbounded(s, frame) == [s EXCEPT !.outbox = Append(@, frame)]

Enqueue(s, frame) == [s EXCEPT !.outbox = Pushed(@, frame, OutboxCapacity)]
Emit(s, event) == [s EXCEPT !.events = Pushed(@, event, EventCapacity)]

(* `remember` that saves the live counter in place of the reserved one.    *)
RememberSavesLive(s) ==
    Emit([s EXCEPT !.persisted = s.counter + Margin],
         [kind |-> "saved", use |-> s.use, counter |-> s.counter])

(* `remember`: a new range is reserved and the credentials are offered.    *)
Remember(s) ==
    Emit([s EXCEPT !.persisted = s.counter + Margin],
         [kind |-> "saved", use |-> s.use, counter |-> s.counter + Margin])

(* A command frame: the rejoin request and the end device timeout request. *)
(* Neither looks at the reserved range.                                    *)
SendCommand(s) ==
    Enqueue([s EXCEPT !.counter = @ + 1],
            [use |-> s.use, counter |-> s.counter + 1])

(* `send_application`: the frame is queued, and only then is a used-up     *)
(* range renewed.                                                          *)
SendApplication(s) ==
    LET out == SendCommand(s)
    IN  IF out.counter >= s.persisted THEN Remember(out) ELSE out

SendApplications(s, n) ==
    CASE n = 0 -> s
      [] n = 1 -> SendApplication(s)
      [] OTHER -> SendApplication(SendApplication(s))

(* A stack whose counter starts again, for a use of a key not seen before. *)
NewUse(s) == [s EXCEPT !.use = uses + 1, !.counter = 0, !.persisted = 0]

Blank == [use |-> 1, counter |-> 0, persisted |-> 0, outbox |-> <<>>, events |-> <<>>]

(* `Device::restore`: the counter goes on from the stored one with a rejoin*)
(* request and an announcement.                                            *)
Restored(record) ==
    SendApplication(SendCommand(
        [Blank EXCEPT !.use = record.use, !.counter = record.counter,
                      !.persisted = record.counter]))

Room(n) == stack.counter + n <= CounterBound

-----------------------------------------------------------------------------
Init ==
    /\ phase = "out"
    /\ stack = Blank
    /\ keepalive = "poll"
    /\ stage = "receive"
    /\ handled = 0
    /\ saving = {}
    /\ flash = {}
    /\ uses = 1
    /\ accepted = [u \in 1..UseBound |-> 0]
    /\ sent = Plain
    /\ exposed = {}

(* Flash may be behind: anywhere but between two turns, where frames may   *)
(* have gone out ahead of the events raised with them, or when a command   *)
(* passed the reserved range.                                              *)
FlashIsBehind == \/ stage # "receive"
                 \/ handled > 0
                 \/ stack.counter > stack.persisted

(* The power fails and comes back: what is in flash is all there is.       *)
PowerCut ==
    /\ stage \in CutStages
    /\ exposed' = IF FlashIsBehind THEN exposed \cup {r.use : r \in flash} ELSE exposed
    /\ phase' = IF flash = {} THEN "out" ELSE "joined"
    /\ \/ flash = {} /\ uses < UseBound /\ uses' = uses + 1
          /\ stack' = [Blank EXCEPT !.use = uses + 1]
       \/ /\ UNCHANGED uses
          /\ \E record \in flash : /\ record.counter + 2 <= CounterBound
                                   /\ stack' = Restored(record)
    /\ keepalive' = "poll"
    /\ stage' = "receive"
    /\ handled' = 0
    /\ saving' = {}
    /\ sent' = Plain
    /\ UNCHANGED <<flash, accepted>>

-----------------------------------------------------------------------------
(* What a frame does                                                       *)

Handling ==
    /\ stage = "receive" /\ handled < Burst
    /\ handled' = handled + 1
    /\ UNCHANGED <<stage, saving, flash, accepted, sent, exposed>>

(* A membership taken up with the counter of a fresh key.                  *)
TakeMembershipResets ==
    /\ Handling
    /\ phase \in {"out", "rejoining"}
    /\ Room(2)
    /\ phase' = "joined"
    /\ stack' = LET fresh == [stack EXCEPT !.counter = 0]
                IN  Emit(SendApplication(SendCommand(Remember(fresh))), Note)
    /\ keepalive' \in {keepalive, "poll"}
    /\ UNCHANGED uses

(* The network key arrives, or a router takes the device back: the         *)
(* credentials are saved, and a timeout request and an announcement queued.*)
TakeMembership ==
    /\ Handling
    /\ phase \in {"out", "rejoining"}
    /\ Room(2)
    /\ phase' = "joined"
    /\ stack' = Emit(SendApplication(SendCommand(Remember(stack))), Note)
    /\ keepalive' \in {keepalive, "poll"}
    /\ UNCHANGED uses

(* `restart_scan` keeps nothing of the counter.                            *)
Leave ==
    /\ Handling
    /\ phase \in {"joined", "rejoining"}
    /\ uses < UseBound
    /\ phase' = "out"
    /\ stack' = Emit(NewUse(stack), Left)
    /\ keepalive' = "poll"
    /\ uses' = uses + 1

(* `on_switch_key` that leaves the reserved range of the old key standing. *)
SwitchKeyKeepsRange ==
    /\ Handling
    /\ phase \in {"joined", "rejoining"}
    /\ uses < UseBound
    /\ stack' = [NewUse(stack) EXCEPT !.persisted = stack.persisted]
    /\ uses' = uses + 1
    /\ UNCHANGED <<phase, keepalive>>

SwitchKey ==
    /\ Handling
    /\ phase \in {"joined", "rejoining"}
    /\ uses < UseBound
    /\ stack' = Remember(NewUse(stack))
    /\ uses' = uses + 1
    /\ UNCHANGED <<phase, keepalive>>

(* A command from the network: acknowledged, answered, acted on.           *)
AnswerCommand ==
    /\ Handling
    /\ phase \in {"joined", "rejoining"}
    /\ \E n \in 0..2, notes \in 0..1 :
          /\ Room(n)
          /\ stack' = IF notes = 0 THEN SendApplications(stack, n)
                      ELSE Emit(SendApplications(stack, n), Note)
    /\ UNCHANGED <<phase, keepalive, uses>>

(* A router heard while rejoining is asked to take the device.             *)
AskRouter ==
    /\ Handling
    /\ phase = "rejoining"
    /\ Room(1)
    /\ stack' = SendCommand(stack)
    /\ UNCHANGED <<phase, keepalive, uses>>

(* `on_end_device_timeout`: how the parent keeps time.                     *)
TimeoutResponse ==
    /\ Handling
    /\ phase \in {"joined", "rejoining"}
    /\ keepalive' \in IF RequestKeepalive THEN {"poll", "request"} ELSE {"poll"}
    /\ UNCHANGED <<phase, stack, uses>>

-----------------------------------------------------------------------------
(* tick, which closes the drain                                            *)

Ticked ==
    /\ stage = "receive"
    /\ stage' = "transmit"
    /\ handled' = 0
    /\ UNCHANGED <<saving, flash, accepted, sent, exposed>>

(* On a network: a report or a firmware request, and the keepalive when it *)
(* is due, which is a command frame only to a parent that counts those.    *)
TickJoined ==
    /\ Ticked
    /\ phase = "joined"
    /\ \E n \in 0..1, due \in BOOLEAN :
          /\ Room(IF due THEN n + 1 ELSE n)
          /\ LET out == SendApplications(stack, n)
             IN  stack' = IF ~due THEN out
                          ELSE IF keepalive = "request" THEN SendCommand(out)
                          ELSE Enqueue(out, Plain)
    /\ UNCHANGED <<phase, keepalive, uses>>

(* Off a network or looking for a parent: a beacon, data or association    *)
(* request, none of them secured, or nothing.                              *)
TickSearching ==
    /\ Ticked
    /\ phase \in {"out", "rejoining"}
    /\ stack' \in {stack, Enqueue(stack, Plain)}
    /\ UNCHANGED <<phase, keepalive, uses>>

TickGivesUp ==
    /\ Ticked
    /\ phase = "rejoining"
    /\ uses < UseBound
    /\ phase' = "out"
    /\ stack' = Emit(NewUse(stack), Left)
    /\ keepalive' = "poll"
    /\ uses' = uses + 1

(* A join that gives up has no counter to forget, but tells the caller.    *)
TickGivesUpJoining ==
    /\ Ticked
    /\ phase = "out"
    /\ stack' = Emit(stack, Left)
    /\ UNCHANGED <<phase, keepalive, uses>>

-----------------------------------------------------------------------------
(* Transmit, then act on the events                                        *)

(* The head of the outbox leaves.  The network accepts a secured frame that*)
(* exceeds what it accepted before; a failed one may have been heard all   *)
(* the same, and enough failures start a rejoin.                           *)
Transmit ==
    /\ stage = "transmit" /\ stack.outbox # <<>>
    /\ LET frame == Head(stack.outbox)
       IN  /\ stack' = [stack EXCEPT !.outbox = Tail(@)]
           /\ sent' = IF frame = Plain THEN sent ELSE frame
           /\ \/ UNCHANGED accepted
              \/ /\ frame # Plain
                 /\ frame.counter > accepted[frame.use]
                 /\ accepted' = [accepted EXCEPT ![frame.use] = frame.counter]
    /\ \/ UNCHANGED phase
       \/ ParentsFail /\ phase = "joined" /\ phase' = "rejoining"
    /\ UNCHANGED <<keepalive, stage, handled, saving, flash, uses, exposed>>

Transmitted ==
    /\ stage = "transmit" /\ stack.outbox = <<>>
    /\ stage' = "events"
    /\ UNCHANGED <<phase, stack, keepalive, handled, saving, flash,
                   uses, accepted, sent, exposed>>

TakeEvent(kind) ==
    /\ stage = "events" /\ saving = {} /\ stack.events # <<>>
    /\ Head(stack.events).kind = kind
    /\ stack' = [stack EXCEPT !.events = Tail(@)]
    /\ UNCHANGED <<phase, keepalive, stage, handled, uses, accepted, sent, exposed>>

ForgetNetwork ==
    /\ TakeEvent("left")
    /\ flash' = {}
    /\ UNCHANGED saving

EraseCredentials ==
    /\ TakeEvent("saved")
    /\ flash' = {}
    /\ saving' = {Record(Head(stack.events))}

NoteEvent ==
    /\ TakeEvent("note")
    /\ UNCHANGED <<saving, flash>>

WriteCredentials ==
    /\ saving # {}
    /\ flash' = saving
    /\ saving' = {}
    /\ UNCHANGED <<phase, stack, keepalive, stage, handled, uses, accepted, sent, exposed>>

TurnOver ==
    /\ stage = "events" /\ saving = {} /\ stack.events = <<>>
    /\ stage' = "receive"
    /\ UNCHANGED <<phase, stack, keepalive, handled, saving, flash,
                   uses, accepted, sent, exposed>>

Next ==
    \/ TakeMembership \/ Leave \/ SwitchKey \/ AnswerCommand
    \/ AskRouter \/ TimeoutResponse
    \/ TickJoined \/ TickSearching \/ TickGivesUp \/ TickGivesUpJoining
    \/ Transmit \/ Transmitted
    \/ ForgetNetwork \/ EraseCredentials \/ NoteEvent \/ WriteCredentials
    \/ TurnOver
    \/ PowerCut

Spec == Init /\ [][Next]_vars

-----------------------------------------------------------------------------
(* Properties                                                              *)

TypeOK ==
    /\ phase \in {"out", "joined", "rejoining"}
    /\ stack \in [use : 1..UseBound, counter : Nat, persisted : Nat,
                  outbox : Seq(Secured), events : Seq(Saved \cup {Note, Left})]
    /\ Len(stack.outbox) <= OutboxCapacity
    /\ Len(stack.events) <= EventCapacity
    /\ keepalive \in {"poll", "request"}
    /\ stage \in Stages
    /\ handled \in 0..Burst
    /\ flash \subseteq Secured
    /\ saving \subseteq Secured
    /\ uses \in 1..UseBound
    /\ accepted \in [1..UseBound -> Nat]
    /\ sent \in Secured
    /\ exposed \subseteq 1..UseBound

(* Within one boot the network sees the counters of a use strictly grow:   *)
(* of two secured frames waiting the older one has the smaller counter, and*)
(* both exceed every one already sent, across full queues that give up     *)
(* their oldest frame, key switches, leaving and joining again.            *)
InOrder ==
    LET waiting == stack.outbox
    IN  \A i \in DOMAIN waiting : waiting[i] # Plain =>
            /\ Before(sent, waiting[i])
            /\ \A j \in 1..(i - 1) : waiting[j] # Plain => Before(waiting[j], waiting[i])
            /\ waiting[i].use = stack.use => waiting[i].counter <= stack.counter

(* A frame waiting to be sent exceeds every counter the network accepted   *)
(* under its use of the key, unless the power failed in the middle of a    *)
(* turn or while a command had taken the counter past its range: through   *)
(* rejoins, both kinds of keepalive, key switches and restarts.            *)
RangeProtects ==
    \A i \in DOMAIN stack.outbox :
        LET frame == stack.outbox[i]
        IN  frame # Plain /\ frame.use \notin exposed =>
                frame.counter > accepted[frame.use]

(* device.rs:32-33: a power cut can never replay a frame counter the       *)
(* coordinator has already accepted.  A secured frame waiting to be sent   *)
(* exceeds every counter the network accepted under its use of the key.    *)
NoReplay ==
    \A i \in DOMAIN stack.outbox :
        LET frame == stack.outbox[i]
        IN  frame # Plain => frame.counter > accepted[frame.use]

(* With no event left to act on, flash holds the end of the range the live *)
(* counter draws on, and nothing once the device is off its network.       *)
FlashHoldsTheRange ==
    stage = "receive" /\ stack.events = <<>> =>
        flash = IF phase = "out" THEN {}
                ELSE {[use |-> stack.use, counter |-> stack.persisted]}
=============================================================================
