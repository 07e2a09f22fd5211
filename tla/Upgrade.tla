------------------------------ MODULE Upgrade ------------------------------
(***************************************************************************)
(* An update over the air, from the server's offer to the restart into the *)
(* new slot.                                                               *)
(*                                                                         *)
(* Three programs have to agree here and none of them sees the others'     *)
(* state: the client of zigbee/src/ota.rs, which follows the file; the     *)
(* store of firmware/src/store.rs, which follows the slot; and the main    *)
(* loop between them, which hands blocks over in one place and events in   *)
(* another.  The server and the air are the environment: requests may be   *)
(* lost, and answers delayed, lost or refused.                             *)
(*                                                                         *)
(* A file is a row of blocks; the block FirstImageBlock ends the header    *)
(* and holds the first piece of the image, and every later one a piece.    *)
(***************************************************************************)
EXTENDS Integers, Sequences, SequencesExt

CONSTANTS
    Running,         \* the version the device starts with
    Newer,           \* the versions a server may come to hold
    SizeOf,          \* [Versions -> pieces in the image of a version]
    FirstImageBlock, \* the block that ends the header
    SectorPieces,    \* SECTOR, in pieces
    EventCapacity,   \* EVENT_CAPACITY
    Notes,           \* how many other events a frame may raise
    FlashFails,      \* whether an erase or a write of the slot may fail
    Ordered,         \* whether answers come in the order of their requests
    Burst,           \* bound: frames handled in one turn of the loop
    InFlight         \* bound: requests the server has not answered yet

Versions == {Running} \cup Newer
LargestImage == CHOOSE n \in {SizeOf[v] : v \in Versions} :
                    \A v \in Versions : SizeOf[v] <= n

ASSUME UpgradeAssumption ==
    /\ Versions \subseteq Nat /\ \A v \in Newer : v > Running
    /\ SizeOf \in [Versions -> Nat \ {0}]
    /\ \E v \in Versions : \A w \in Versions : SizeOf[w] <= SizeOf[v]
    /\ FirstImageBlock \in Nat
    /\ SectorPieces \in Nat \ {0} /\ EventCapacity \in Nat \ {0}
    /\ Notes \subseteq Nat
    /\ FlashFails \in BOOLEAN /\ Ordered \in BOOLEAN
    /\ Burst \in Nat /\ InFlight \in Nat \ {0}

VARIABLES
    phase,      \* "Idle", "Querying", "Downloading" or "Finishing"
    offered,    \* the version being downloaded
    at,         \* file_offset, in blocks
    size,       \* image_size, in pieces; 0 while image_at is None
    taken,      \* taken, in pieces
    due,        \* whether due_at has certainly been reached
    pending,    \* the block of firmware waiting for the caller, or none
    asked,      \* history: whether the block at `at` has been asked for
    events,     \* the event queue, oldest first
    outbox,     \* the requests waiting to be sent
    stage,      \* where the main loop is
    handled,    \* frames handled this turn
    healthy,    \* the store believes in the image so far
    filled,     \* the pieces in the sector buffer
    writtenTo,  \* written_to, in pieces
    slot,       \* what the slot that does not run holds
    running,    \* what the slot that runs holds
    requests,   \* requests on their way to an answer
    newest      \* the newest version the server holds

clientVars == <<phase, offered, at, size, taken, due, pending, asked>>
queueVars == <<events, outbox>>
loopVars == <<stage, handled>>
storeVars == <<healthy, filled, writtenTo, slot>>
serverVars == <<requests, newest>>
vars == <<clientVars, queueVars, loopVars, storeVars, running, serverVars>>

-----------------------------------------------------------------------------
(* Data                                                                    *)

Piece(v, i) == [version |-> v, index |-> i]
Erased == [version |-> 0, index |-> 0]
Blank == [i \in 0..(LargestImage + SectorPieces - 1) |-> Erased]
Image(v) == [i \in DOMAIN Blank |-> IF i < SizeOf[v] THEN Piece(v, i) ELSE Erased]

(* The bootloader reads the image's own length, so what lies past it in    *)
(* the slot does not matter.                                               *)
Holds(content, v) == \A i \in 0..(SizeOf[v] - 1) : content[i] = Piece(v, i)
Whole(content) == \E v \in Versions : Holds(content, v)
RunningVersion == running[0].version

Query == [kind |-> "query", version |-> RunningVersion, at |-> 0]
BlockRequest == [kind |-> "block", version |-> offered, at |-> at]
End(status) == [kind |-> status, version |-> offered, at |-> 0]

Raised(more) == LET q == events \o more
                IN  IF Len(q) <= EventCapacity THEN q
                    ELSE SubSeq(q, Len(q) - EventCapacity + 1, Len(q))
Note == "Note"

Downloads == phase \in {"Downloading", "Finishing"}

-----------------------------------------------------------------------------
(* Boot                                                                    *)

(* What a restart leaves of the memory: the client asks as soon as it is   *)
(* restored, and the store trusts nothing.                                 *)
Booted ==
    /\ phase' = "Querying"
    /\ offered' = Running
    /\ at' = 0 /\ size' = 0 /\ taken' = 0
    /\ due' = TRUE
    /\ pending' = {}
    /\ asked' = FALSE
    /\ events' = <<>> /\ outbox' = <<>>
    /\ stage' = "receive" /\ handled' = 0
    /\ healthy' = FALSE
    /\ filled' = <<>>
    /\ writtenTo' = 0

Init ==
    /\ phase = "Querying"
    /\ offered = Running
    /\ at = 0 /\ size = 0 /\ taken = 0
    /\ due = TRUE
    /\ pending = {}
    /\ asked = FALSE
    /\ events = <<>> /\ outbox = <<>>
    /\ stage = "receive" /\ handled = 0
    /\ healthy = FALSE
    /\ filled = <<>>
    /\ writtenTo = 0
    /\ slot = Blank
    /\ running = Image(Running)
    /\ requests = <<>>
    /\ newest = Running

PowerCut ==
    /\ Booted
    /\ UNCHANGED <<slot, running, serverVars>>

-----------------------------------------------------------------------------
(* What an answer does                                                     *)

Stop ==
    /\ phase' = "Idle"
    /\ size' = 0 /\ taken' = 0
    /\ UNCHANGED <<offered, at, due, asked>>

(* `ask`: on joining, and when a server says something is available.       *)
Ask ==
    /\ ~Downloads
    /\ phase' = "Querying"
    /\ due' = TRUE
    /\ UNCHANGED <<offered, at, size, taken, pending, asked, events>>

OnOffer(v) ==
    /\ phase = "Querying"
    /\ phase' = "Downloading"
    /\ offered' = v
    /\ at' = 0 /\ size' = 0 /\ taken' = 0
    /\ due' = TRUE
    /\ asked' = FALSE
    /\ events' = Raised(<<"Offered">>)
    /\ UNCHANGED pending

OnNoImage ==
    /\ phase = "Querying"
    /\ Stop
    /\ UNCHANGED <<pending, events>>

(* The block the client is at: nothing of the image, its first piece and   *)
(* its length, or a further piece.  The last piece ends the download.      *)
OnBlock(v, b) ==
    LET i == b - FirstImageBlock
    IN  /\ phase = "Downloading"
        /\ b = at
        /\ at' = at + 1
        /\ due' = TRUE
        /\ asked' = FALSE
        /\ size' = IF i = 0 THEN SizeOf[v] ELSE size
        /\ \/ /\ i \in 0..(size' - 1)
              /\ pending' = {Piece(v, i)}
              /\ taken' = i + 1
           \/ /\ i \notin 0..(size' - 1)
              /\ UNCHANGED <<pending, taken>>
        /\ phase' = IF size' # 0 /\ taken' >= size' THEN "Finishing" ELSE phase
        /\ UNCHANGED <<offered, events>>

OnWait ==
    /\ phase = "Downloading"
    /\ due' = FALSE
    /\ UNCHANGED <<phase, offered, at, size, taken, pending, asked, events>>

OnRefusal ==
    /\ phase = "Downloading"
    /\ Stop
    /\ events' = Raised(<<"Abandoned">>)
    /\ UNCHANGED pending

OnEnd ==
    /\ phase = "Finishing"
    /\ phase' = "Idle"
    /\ events' = Raised(<<"Ready">>)
    /\ UNCHANGED <<offered, at, size, taken, due, pending, asked>>

-----------------------------------------------------------------------------
(* The server and the air                                                  *)

(* The request answered next, and those left.                              *)
Answerable == IF Ordered THEN {1} \cap DOMAIN requests ELSE DOMAIN requests

Answering(i) ==
    /\ stage = "receive" /\ handled < Burst
    /\ handled' = handled + 1
    /\ requests' = RemoveAt(requests, i)
    /\ UNCHANGED <<outbox, stage, storeVars, running, newest>>

LastBlock(v) == FirstImageBlock + SizeOf[v] - 1

AnswerQuery ==
    \E i \in Answerable :
        /\ requests[i].kind = "query"
        /\ Answering(i)
        /\ IF newest > requests[i].version THEN OnOffer(newest) ELSE OnNoImage

(* The block asked for, of the version asked for.                          *)
AnswerBlock ==
    \E i \in Answerable :
        /\ requests[i].kind = "block"
        /\ requests[i].at <= LastBlock(requests[i].version)
        /\ Answering(i)
        /\ OnBlock(requests[i].version, requests[i].at)

RefuseBlock ==
    \E i \in Answerable :
        /\ requests[i].kind = "block"
        /\ Answering(i)
        /\ OnWait \/ OnRefusal

AnswerEnd ==
    \E i \in Answerable :
        /\ requests[i].kind = "success"
        /\ Answering(i)
        /\ OnEnd

(* An answer that never comes, or comes when it means nothing.             *)
Unanswered ==
    \E i \in Answerable :
        /\ stage = "receive"
        /\ requests' = RemoveAt(requests, i)
        /\ UNCHANGED <<clientVars, queueVars, loopVars, storeVars, running, newest>>

(* An Image Notify, or the device joining again.                           *)
ImageNotify ==
    /\ stage = "receive" /\ handled < Burst
    /\ handled' = handled + 1
    /\ Ask
    /\ UNCHANGED <<outbox, stage, storeVars, running, serverVars>>

(* Any other frame, which may raise events of its own.                     *)
OtherFrame ==
    /\ stage = "receive" /\ handled < Burst
    /\ handled' = handled + 1
    /\ \E n \in Notes : events' = Raised([i \in 1..n |-> Note])
    /\ UNCHANGED <<clientVars, outbox, stage, storeVars, running, serverVars>>

Publish ==
    /\ \E v \in Newer : v > newest /\ newest' = v
    /\ UNCHANGED <<clientVars, queueVars, loopVars, storeVars, running, requests>>

-----------------------------------------------------------------------------
(* tick                                                                    *)

Ticked ==
    /\ stage = "receive"
    /\ stage' = "blocks"
    /\ handled' = 0
    /\ UNCHANGED <<phase, offered, at, size, taken, pending, events,
                   storeVars, running, serverVars>>

TickWaits ==
    /\ Ticked
    /\ ~due \/ phase = "Idle"
    /\ UNCHANGED <<due, asked, outbox>>

(* The deadline has come, but the caller still holds a block: it is put    *)
(* off for the whole retry period all the same.                            *)
TickHoldsBack ==
    /\ Ticked
    /\ phase = "Downloading" /\ pending # {}
    /\ due' = FALSE
    /\ UNCHANGED <<asked, outbox>>

(* A client that never repeats a request.                                  *)
TickAsksOnce ==
    /\ Ticked
    /\ phase # "Idle" /\ ~(phase = "Downloading" /\ pending # {}) /\ ~asked
    /\ due' = FALSE
    /\ asked' = TRUE
    /\ outbox' = Append(outbox, CASE phase = "Querying" -> Query
                                  [] phase = "Downloading" -> BlockRequest
                                  [] phase = "Finishing" -> End("success"))

TickAsks ==
    /\ Ticked
    /\ phase # "Idle" /\ ~(phase = "Downloading" /\ pending # {})
    /\ due' = FALSE
    /\ asked' = TRUE
    /\ outbox' = Append(outbox, CASE phase = "Querying" -> Query
                                  [] phase = "Downloading" -> BlockRequest
                                  [] phase = "Finishing" -> End("success"))

Tick == TickWaits \/ TickHoldsBack \/ TickAsks

-----------------------------------------------------------------------------
(* Blocks go to the store                                                  *)

(* What the slot holds once a sector has been flushed into it.             *)
Flushed(pieces) ==
    [i \in DOMAIN slot |->
        IF i \in writtenTo..(writtenTo + SectorPieces - 1)
        THEN IF i - writtenTo < Len(pieces) THEN pieces[i - writtenTo + 1] ELSE Erased
        ELSE slot[i]]

Fits(piece) == healthy /\ piece.index = writtenTo + Len(filled)

(* `write_firmware` that takes what comes.                                 *)
WriteBlockUnchecked ==
    \E piece \in pending :
        /\ stage = "blocks"
        /\ healthy
        /\ pending' = {}
        /\ \/ /\ Len(filled) + 1 < SectorPieces
              /\ filled' = Append(filled, piece)
              /\ UNCHANGED <<writtenTo, slot>>
           \/ /\ Len(filled) + 1 = SectorPieces
              /\ slot' = Flushed(Append(filled, piece))
              /\ writtenTo' = writtenTo + SectorPieces
              /\ filled' = <<>>
        /\ UNCHANGED <<phase, offered, at, size, taken, due, asked, queueVars,
                       loopVars, healthy, running, serverVars>>

(* `write_firmware` that flushes one piece too late.                       *)
WriteBlockFlushesLate ==
    \E piece \in pending :
        /\ stage = "blocks"
        /\ Fits(piece)
        /\ pending' = {}
        /\ \/ /\ Len(filled) < SectorPieces
              /\ filled' = Append(filled, piece)
              /\ UNCHANGED <<writtenTo, slot>>
           \/ /\ Len(filled) = SectorPieces
              /\ slot' = Flushed(filled)
              /\ writtenTo' = writtenTo + SectorPieces
              /\ filled' = <<piece>>
        /\ UNCHANGED <<phase, offered, at, size, taken, due, asked, queueVars,
                       loopVars, healthy, running, serverVars>>

(* `write_firmware` takes the next piece, and flushes a full sector.       *)
WriteBlock ==
    \E piece \in pending :
        /\ stage = "blocks"
        /\ Fits(piece)
        /\ pending' = {}
        /\ \/ /\ Len(filled) + 1 < SectorPieces
              /\ filled' = Append(filled, piece)
              /\ UNCHANGED <<writtenTo, slot>>
           \/ /\ Len(filled) + 1 = SectorPieces
              /\ slot' = Flushed(Append(filled, piece))
              /\ writtenTo' = writtenTo + SectorPieces
              /\ filled' = <<>>
        /\ UNCHANGED <<phase, offered, at, size, taken, due, asked, queueVars,
                       loopVars, healthy, running, serverVars>>

(* The slot refuses a block: the client gives up a download that still     *)
(* runs, tells the server, and tells the caller.                           *)
RefuseWrite ==
    \E piece \in pending :
        /\ stage = "blocks"
        /\ \/ /\ ~Fits(piece)
              /\ UNCHANGED <<filled, slot>>
           \/ /\ FlashFails /\ Fits(piece) /\ Len(filled) + 1 = SectorPieces
              /\ filled' = Append(filled, piece)
              /\ slot' = Flushed(<<>>)
        /\ healthy' = FALSE
        /\ pending' = {}
        /\ IF phase = "Idle"
           THEN UNCHANGED <<phase, offered, at, size, taken, due, asked, queueVars>>
           ELSE /\ Stop
                /\ outbox' = Append(outbox, End("abort"))
                /\ events' = Raised(<<"Abandoned">>)
        /\ UNCHANGED <<loopVars, writtenTo, running, serverVars>>

BlocksTaken ==
    /\ stage = "blocks" /\ pending = {}
    /\ stage' = "transmit"
    /\ UNCHANGED <<clientVars, queueVars, handled, storeVars, running, serverVars>>

-----------------------------------------------------------------------------
(* Transmit, then act on the events                                        *)

Reaches ==
    /\ stage = "transmit" /\ outbox # <<>>
    /\ Len(requests) < InFlight
    /\ outbox' = Tail(outbox)
    /\ requests' = Append(requests, Head(outbox))
    /\ UNCHANGED <<clientVars, events, loopVars, storeVars, running, newest>>

IsLost ==
    /\ stage = "transmit" /\ outbox # <<>>
    /\ outbox' = Tail(outbox)
    /\ UNCHANGED <<clientVars, events, loopVars, storeVars, running, serverVars>>

Transmitted ==
    /\ stage = "transmit" /\ outbox = <<>>
    /\ stage' = "events"
    /\ UNCHANGED <<clientVars, queueVars, handled, storeVars, running, serverVars>>

TakeEvent(event) ==
    /\ stage = "events" /\ events # <<>> /\ Head(events) = event
    /\ events' = Tail(events)
    /\ UNCHANGED <<clientVars, outbox, loopVars, running, serverVars>>

BeginFirmware ==
    /\ TakeEvent("Offered")
    /\ healthy' = TRUE
    /\ filled' = <<>>
    /\ writtenTo' = 0
    /\ UNCHANGED slot

AbandonFirmware ==
    /\ TakeEvent("Abandoned")
    /\ healthy' = FALSE
    /\ filled' = <<>>
    /\ UNCHANGED <<writtenTo, slot>>

NoteEvent ==
    /\ TakeEvent(Note)
    /\ UNCHANGED storeVars

(* `activate_firmware` that forgets what is still in the sector buffer.    *)
ActivateForgetsTail ==
    /\ stage = "events" /\ events # <<>> /\ Head(events) = "Ready"
    /\ healthy
    /\ running' = slot
    /\ slot' = running
    /\ Booted
    /\ UNCHANGED serverVars

(* `activate_firmware` writes the tail and swaps the slots, and the device *)
(* restarts into the new one, whatever events it had not yet handled.      *)
ActivateFirmware ==
    /\ stage = "events" /\ events # <<>> /\ Head(events) = "Ready"
    /\ healthy
    /\ running' = IF filled = <<>> THEN slot ELSE Flushed(filled)
    /\ slot' = running
    /\ Booted
    /\ UNCHANGED serverVars

ActivationFails ==
    /\ TakeEvent("Ready")
    /\ \/ /\ ~healthy
          /\ UNCHANGED storeVars
       \/ /\ FlashFails /\ healthy /\ filled # <<>>
          /\ healthy' = FALSE
          /\ slot' = Flushed(<<>>)
          /\ UNCHANGED <<filled, writtenTo>>

TurnOver ==
    /\ stage = "events" /\ events = <<>>
    /\ stage' = "receive"
    /\ UNCHANGED <<clientVars, queueVars, handled, storeVars, running, serverVars>>

-----------------------------------------------------------------------------
Loop == \/ Tick \/ WriteBlock \/ RefuseWrite \/ BlocksTaken
        \/ Reaches \/ IsLost \/ Transmitted
        \/ BeginFirmware \/ AbandonFirmware \/ NoteEvent
        \/ ActivateFirmware \/ ActivationFails \/ TurnOver

Answer == AnswerQuery \/ AnswerBlock \/ RefuseBlock \/ AnswerEnd \/ Unanswered

Next == Loop \/ Answer \/ ImageNotify \/ OtherFrame \/ Publish \/ PowerCut

(* The loop turns and the clock passes; a request sent again and again     *)
(* reaches the server, which gets to every request in its turn, and in the *)
(* end answers one made again and again with what it asks for.             *)
Fairness == /\ WF_vars(Loop) /\ SF_vars(TickAsks)
            /\ SF_vars(Reaches) /\ SF_vars(Answer)
            /\ SF_vars(AnswerBlock) /\ SF_vars(AnswerEnd)

Spec == Init /\ [][Next]_vars
FairSpec == Spec /\ Fairness

-----------------------------------------------------------------------------
(* Properties                                                              *)

TypeOK ==
    /\ phase \in {"Idle", "Querying", "Downloading", "Finishing"}
    /\ offered \in Versions
    /\ at \in Nat /\ size \in Nat /\ taken \in 0..size
    /\ due \in BOOLEAN /\ asked \in BOOLEAN /\ healthy \in BOOLEAN
    /\ pending \subseteq [version : Versions, index : 0..(LargestImage - 1)]
    /\ Len(events) <= EventCapacity /\ Len(requests) <= InFlight
    /\ Len(filled) <= SectorPieces /\ (healthy => Len(filled) < SectorPieces)
    /\ stage \in {"receive", "blocks", "transmit", "events"}
    /\ handled \in 0..Burst
    /\ writtenTo \in Nat
    /\ newest \in Versions

(* README.md:139: an update that is interrupted leaves the running slot    *)
(* untouched.  What the bootloader is pointed at is always every piece of  *)
(* one version in its place, whatever was lost, refused, repeated, cut off *)
(* by a power failure or pushed out of the event queue on the way.         *)
WholeImage == Whole(running)

(* What the store has taken down and still trusts.                         *)
Stored == [i \in 0..(writtenTo + Len(filled) - 1) |->
              IF i < writtenTo THEN slot[i] ELSE filled[i - writtenTo + 1]]

(* The client tells the server it is done (main.rs:220, after the blocks   *)
(* have been handed over) only when the store holds the offered image to   *)
(* its last piece, or knows that it does not: they count separately, in    *)
(* file offsets and in sectors, and hear of a new download at different    *)
(* times.                                                                  *)
FinishedIsStored ==
    phase = "Finishing" /\ stage = "transmit" /\ healthy =>
        Stored = [i \in 0..(SizeOf[offered] - 1) |-> Piece(offered, i)]

(* A download that has begun ends: in a restart, or given up.              *)
DownloadEnds == Downloads ~> ~Downloads
=============================================================================
