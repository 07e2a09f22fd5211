--------------------------- MODULE Upgrade_proofs ---------------------------
(***************************************************************************)
(* Client, store and main loop follow an update without seeing each other. *)
(* What they keep is well formed; and where answers come in order and no   *)
(* more than two requests are on their way, the device boots whole images  *)
(* only: for any versions, sizes, sectors, queues, refusals and cuts.      *)
(***************************************************************************)
EXTENDS Upgrade, SequenceTheorems, TLAPS

Pieces == [version : Versions, index : Nat]
Slots == [DOMAIN Blank -> Pieces \cup {Erased}]
News == {"Offered", "Abandoned", "Ready", Note}

(* A query may name no version: the slot that runs need not hold an image. *)
Messages == {m \in [kind : {"query", "block", "success", "abort"}, version : Nat, at : Nat] :
                m.kind = "block" => m.version \in Versions}

ClientOK ==
    /\ phase \in {"Idle", "Querying", "Downloading", "Finishing"}
    /\ offered \in Versions
    /\ at \in Nat /\ size \in Nat /\ size <= LargestImage /\ taken \in 0..size
    /\ due \in BOOLEAN /\ asked \in BOOLEAN
    /\ pending \subseteq [version : Versions, index : 0..(LargestImage - 1)]

MessagesOK ==
    /\ events \in Seq(News) /\ Len(events) <= EventCapacity
    /\ outbox \in Seq(Messages)
    /\ requests \in Seq(Messages) /\ Len(requests) <= InFlight
    /\ newest \in Versions

LoopOK ==
    /\ stage \in {"receive", "blocks", "transmit", "events"}
    /\ handled \in 0..Burst

StoreOK ==
    /\ healthy \in BOOLEAN
    /\ filled \in Seq(Pieces) /\ Len(filled) <= SectorPieces
    /\ healthy => Len(filled) < SectorPieces
    /\ writtenTo \in Nat
    /\ slot \in Slots /\ running \in Slots

InRange == ClientOK /\ MessagesOK /\ LoopOK /\ StoreOK

-----------------------------------------------------------------------------
(* The constants                                                           *)

LEMMA Bounds ==
    /\ EventCapacity \in Nat /\ EventCapacity >= 1 /\ Burst \in Nat
    /\ SectorPieces \in Nat /\ SectorPieces >= 1 /\ FirstImageBlock \in Nat
    /\ InFlight \in Nat /\ InFlight >= 1
    /\ Running \in Versions /\ Newer \subseteq Versions /\ Versions \subseteq Nat
    /\ \A v \in Versions : SizeOf[v] \in Nat /\ SizeOf[v] >= 1
    /\ \A n \in Notes : n \in Nat
  BY UpgradeAssumption DEF Versions

LEMMA LargestIs ==
    /\ LargestImage \in Nat /\ LargestImage >= 1
    /\ \A v \in Versions : SizeOf[v] <= LargestImage
  <1>1. \E m \in {SizeOf[v] : v \in Versions} : \A v \in Versions : SizeOf[v] <= m
    BY UpgradeAssumption
  <1>2. /\ LargestImage \in {SizeOf[v] : v \in Versions}
        /\ \A v \in Versions : SizeOf[v] <= LargestImage
    BY <1>1 DEF LargestImage
  <1> QED
    BY <1>2, Bounds

LEMMA BlankIs ==
    /\ DOMAIN Blank = 0..(LargestImage + SectorPieces - 1)
    /\ Blank \in Slots
    /\ \A v \in Versions : /\ Image(v) \in Slots
                           /\ \A i \in 0..(SizeOf[v] - 1) : Image(v)[i] = Piece(v, i)
  <1>1. DOMAIN Blank = 0..(LargestImage + SectorPieces - 1) /\ Blank \in Slots
    BY DEF Blank, Slots
  <1>2. \A v \in Versions, i \in Nat : Piece(v, i) \in Pieces
    BY DEF Piece, Pieces
  <1>3. \A v \in Versions : Image(v) \in Slots
    <2>1. \A i \in DOMAIN Blank : i \in Nat
      BY <1>1, LargestIs, Bounds
    <2> QED
      BY <1>2, <2>1 DEF Image, Slots
  <1>4. \A v \in Versions : \A i \in 0..(SizeOf[v] - 1) : Image(v)[i] = Piece(v, i)
    <2>1. \A v \in Versions : \A i \in 0..(SizeOf[v] - 1) :
             i \in 0..(LargestImage + SectorPieces - 1) /\ i < SizeOf[v]
      BY LargestIs, Bounds
    <2> QED
      BY <1>1, <2>1 DEF Image
  <1> QED
    BY <1>1, <1>3, <1>4

-----------------------------------------------------------------------------
(* The queues                                                              *)

LEMMA RaisedIs ==
    ASSUME MessagesOK, NEW more \in Seq(News)
    PROVE  Raised(more) \in Seq(News) /\ Len(Raised(more)) <= EventCapacity
  <1> DEFINE q == events \o more
  <1>1. q \in Seq(News) /\ EventCapacity \in Nat /\ EventCapacity >= 1 /\ Len(q) \in Nat
    BY Bounds DEF MessagesOK
  <1>2. Raised(more) = IF Len(q) <= EventCapacity THEN q
                       ELSE SubSeq(q, Len(q) - EventCapacity + 1, Len(q))
    BY DEF Raised
  <1> HIDE DEF q
  <1>3. CASE Len(q) <= EventCapacity
    BY <1>1, <1>2, <1>3
  <1>4. CASE ~(Len(q) <= EventCapacity)
    <2> DEFINE a == Len(q) - EventCapacity + 1
    <2>1. a \in 1..(Len(q) + 1) /\ Len(q) \in (a - 1)..Len(q) /\ Len(q) - a + 1 = EventCapacity
      BY <1>1, <1>4
    <2>2. SubSeq(q, a, Len(q)) \in Seq(News) /\ Len(SubSeq(q, a, Len(q))) = Len(q) - a + 1
      BY <1>1, <2>1, SubSeqProperties
    <2> QED
      BY <1>2, <1>4, <2>1, <2>2
  <1> QED
    BY <1>3, <1>4

LEMMA NewsFacts ==
    /\ <<"Offered">> \in Seq(News) /\ <<"Abandoned">> \in Seq(News) /\ <<"Ready">> \in Seq(News)
    /\ \A n \in Nat : [i \in 1..n |-> Note] \in Seq(News)
  BY DEF News

(* A request answered out of its turn leaves the others.                   *)
LEMMA RemovedIs ==
    ASSUME MessagesOK, NEW i \in 1..Len(requests)
    PROVE  /\ RemoveAt(requests, i) \in Seq(Messages)
           /\ Len(RemoveAt(requests, i)) = Len(requests) - 1
           /\ \A j \in 1..(Len(requests) - 1) :
                 RemoveAt(requests, i)[j] = IF j < i THEN requests[j] ELSE requests[j + 1]
  <1>1. requests \in Seq(Messages)
    BY DEF MessagesOK
  <1> DEFINE a == SubSeq(requests, 1, i - 1)
             b == SubSeq(requests, i + 1, Len(requests))
  <1>2. Len(requests) \in Nat
    BY <1>1
  <1>3. a \in Seq(Messages) /\ Len(a) = i - 1 /\ \A j \in 1..(i - 1) : a[j] = requests[j]
    BY <1>1, <1>2, SubSeqProperties
  <1>4. b \in Seq(Messages) /\ Len(b) = Len(requests) - i
        /\ \A j \in 1..(Len(requests) - i) : b[j] = requests[i + j]
    <2>1. /\ i + 1 \in 1..(Len(requests) + 1) /\ Len(requests) \in ((i + 1) - 1)..Len(requests)
          /\ Len(requests) - (i + 1) + 1 = Len(requests) - i
      BY <1>2
    <2> DEFINE lo == i + 1
               hi == Len(requests)
    <2>2. lo \in 1..(Len(requests) + 1) /\ hi \in (lo - 1)..Len(requests) /\ lo \in Int
      BY <2>1
    <2> HIDE DEF lo, hi
    <2>3. /\ SubSeq(requests, lo, hi) \in Seq(Messages) /\ Len(SubSeq(requests, lo, hi)) = hi - lo + 1
          /\ \A j \in 1..(hi - lo + 1) : SubSeq(requests, lo, hi)[j] = requests[lo + j - 1]
      BY <1>1, <2>2, SubSeqProperties
    <2>4. lo = i + 1 /\ hi = Len(requests) /\ b = SubSeq(requests, lo, hi)
      BY DEF lo, hi
    <2>5. hi - lo + 1 = Len(requests) - i /\ \A j \in 1..(Len(requests) - i) : lo + j - 1 = i + j
      BY <1>2, <2>4
    <2> HIDE DEF b
    <2> QED
      BY <2>3, <2>4, <2>5
  <1> HIDE DEF a, b
  <1>5. a \o b \in Seq(Messages) /\ Len(a \o b) = Len(requests) - 1
        /\ \A j \in 1..(Len(requests) - 1) :
              (a \o b)[j] = IF j <= i - 1 THEN a[j] ELSE b[j - (i - 1)]
    <2>1. /\ a \o b \in Seq(Messages) /\ Len(a \o b) = Len(a) + Len(b)
          /\ \A j \in 1..(Len(a) + Len(b)) :
                (a \o b)[j] = IF j <= Len(a) THEN a[j] ELSE b[j - Len(a)]
      BY <1>3, <1>4, ConcatProperties
    <2>2. Len(a) + Len(b) = Len(requests) - 1
      BY <1>2, <1>3, <1>4
    <2> QED
      BY <1>3, <2>1, <2>2
  <1>6. ASSUME NEW j \in 1..(Len(requests) - 1)
        PROVE  (a \o b)[j] = IF j < i THEN requests[j] ELSE requests[j + 1]
    <2>1. CASE j < i
      <3>1. j \in 1..(i - 1) /\ j <= i - 1
        BY <1>2, <2>1
      <3> QED
        BY <1>3, <1>5, <2>1, <3>1
    <2>2. CASE ~(j < i)
      <3>1. /\ ~(j <= i - 1) /\ j - (i - 1) \in 1..(Len(requests) - i)
            /\ i + (j - (i - 1)) = j + 1
        BY <1>2, <2>2
      <3> QED
        BY <1>4, <1>5, <2>2, <3>1
    <2> QED
      BY <2>1, <2>2
  <1>7. RemoveAt(requests, i) = a \o b
    BY DEF RemoveAt, a, b
  <1> QED
    BY <1>1, <1>5, <1>6, <1>7
-----------------------------------------------------------------------------
(* What the program keeps is well formed                                   *)

LEMMA SentIsMessage ==
    ASSUME InRange
    PROVE  /\ Query \in Messages /\ BlockRequest \in Messages
           /\ \A status \in {"success", "abort"} : End(status) \in Messages
  <1>1. offered \in Versions /\ at \in Nat /\ Versions \subseteq Nat
    BY Bounds DEF InRange, ClientOK
  <1>2. RunningVersion \in Nat
    <2>1. 0 \in DOMAIN Blank
      BY BlankIs, LargestIs, Bounds
    <2>2. running[0] \in Pieces \cup {Erased}
      BY <2>1 DEF InRange, StoreOK, Slots
    <2>3. \A p \in Pieces \cup {Erased} : p.version \in Nat
      <3>1. \A p \in Pieces : p.version \in Nat
        <4>1. \A p \in Pieces : p.version \in Versions
          BY DEF Pieces
        <4> QED
          BY <4>1, Bounds
      <3>2. Erased.version \in Nat
        BY DEF Erased
      <3> QED
        BY <3>1, <3>2
    <2> QED
      BY <2>2, <2>3 DEF RunningVersion
  <1>3. Query \in Messages
    BY <1>2 DEF Query, Messages
  <1>4. BlockRequest \in Messages
    BY <1>1 DEF BlockRequest, Messages
  <1>5. \A status \in {"success", "abort"} : End(status) \in Messages
    BY <1>1 DEF End, Messages
  <1> QED
    BY <1>3, <1>4, <1>5

LEMMA AppendedIs ==
    ASSUME InRange, NEW m \in Messages
    PROVE  Append(outbox, m) \in Seq(Messages)
  BY AppendProperties DEF InRange, MessagesOK

LEMMA FlushedInRange ==
    ASSUME InRange, NEW pieces \in Seq(Pieces)
    PROVE  Flushed(pieces) \in Slots
  <1>1. DOMAIN slot = DOMAIN Blank /\ \A i \in DOMAIN Blank : i \in Nat
    BY BlankIs, LargestIs, Bounds DEF InRange, StoreOK, Slots
  <1>2. writtenTo \in Nat /\ SectorPieces \in Nat /\ Len(pieces) \in Nat
    BY Bounds DEF InRange, StoreOK
  <1> DEFINE at1(i) == IF i \in writtenTo..(writtenTo + SectorPieces - 1)
                       THEN IF i - writtenTo < Len(pieces) THEN pieces[i - writtenTo + 1] ELSE Erased
                       ELSE slot[i]
  <1>3. ASSUME NEW i \in DOMAIN Blank
        PROVE  at1(i) \in Pieces \cup {Erased}
    <2>1. CASE i \in writtenTo..(writtenTo + SectorPieces - 1) /\ i - writtenTo < Len(pieces)
      <3>1. i - writtenTo + 1 \in 1..Len(pieces)
        BY <1>1, <1>2, <2>1
      <3>2. pieces[i - writtenTo + 1] \in Pieces
        BY <3>1
      <3> QED
        BY <2>1, <3>2
    <2>2. CASE i \in writtenTo..(writtenTo + SectorPieces - 1) /\ ~(i - writtenTo < Len(pieces))
      BY <2>2
    <2>3. CASE i \notin writtenTo..(writtenTo + SectorPieces - 1)
      <3>1. slot[i] \in Pieces \cup {Erased}
        BY DEF InRange, StoreOK, Slots
      <3> QED
        BY <2>3, <3>1
    <2> QED
      BY <2>1, <2>2, <2>3
  <1>4. Flushed(pieces) = [i \in DOMAIN Blank |-> at1(i)]
    BY <1>1 DEF Flushed
  <1> HIDE DEF at1
  <1> QED
    BY <1>3, <1>4 DEF Slots

LEMMA BootedInRange ==
    ASSUME InRange, Booted, slot' \in Slots, running' \in Slots, UNCHANGED serverVars
    PROVE  InRange'
  <1>1. ClientOK'
    <2>1. Running \in Versions /\ 0 <= LargestImage
      BY Bounds, LargestIs
    <2>2. /\ phase' = "Querying" /\ offered' = Running
          /\ at' = 0 /\ size' = 0 /\ taken' = 0
          /\ due' = TRUE /\ asked' = FALSE /\ pending' = {}
      BY DEF Booted
    <2>3. /\ at' \in Nat /\ size' \in Nat /\ size' <= LargestImage
          /\ taken' \in 0..size'
      BY <2>1, <2>2
    <2>4. /\ phase' \in {"Idle", "Querying", "Downloading", "Finishing"}
          /\ offered' \in Versions
          /\ due' \in BOOLEAN /\ asked' \in BOOLEAN
          /\ pending' \subseteq [version : Versions, index : 0..(LargestImage - 1)]
      BY <2>1, <2>2
    <2> QED
      BY <2>3, <2>4 DEF ClientOK
  <1>2. MessagesOK'
    <2>1. <<>> \in Seq(News) /\ <<>> \in Seq(Messages) /\ Len(<<>>) = 0
      OBVIOUS
    <2> QED
      BY <2>1, Bounds DEF Booted, MessagesOK, InRange, serverVars
  <1>3. LoopOK'
    BY Bounds DEF Booted, LoopOK
  <1>4. StoreOK'
    <2>1. <<>> \in Seq(Pieces) /\ Len(<<>>) <= SectorPieces
      BY Bounds
    <2>2. healthy' = FALSE /\ filled' = <<>> /\ writtenTo' = 0
      BY DEF Booted
    <2> QED
      BY <2>1, <2>2 DEF StoreOK
  <1> QED
    BY <1>1, <1>2, <1>3, <1>4 DEF InRange

LEMMA InRangeInit ==
    Init => InRange
  <1> SUFFICES ASSUME Init PROVE InRange
    OBVIOUS
  <1>1. ClientOK
    <2>1. Running \in Versions /\ 0 <= LargestImage
      BY Bounds, LargestIs
    <2>2. /\ phase = "Querying" /\ offered = Running
          /\ at = 0 /\ size = 0 /\ taken = 0
          /\ due = TRUE /\ asked = FALSE /\ pending = {}
      BY DEF Init
    <2>3. /\ at \in Nat /\ size \in Nat /\ size <= LargestImage
          /\ taken \in 0..size
      BY <2>1, <2>2
    <2>4. /\ phase \in {"Idle", "Querying", "Downloading", "Finishing"}
          /\ offered \in Versions
          /\ due \in BOOLEAN /\ asked \in BOOLEAN
          /\ pending \subseteq [version : Versions, index : 0..(LargestImage - 1)]
      BY <2>1, <2>2
    <2> QED
      BY <2>3, <2>4 DEF ClientOK
  <1>2. MessagesOK
    <2>1. <<>> \in Seq(News) /\ <<>> \in Seq(Messages) /\ Len(<<>>) = 0
      OBVIOUS
    <2> QED
      BY <2>1, Bounds DEF Init, MessagesOK
  <1>3. LoopOK
    BY Bounds DEF Init, LoopOK
  <1>4. StoreOK
    <2>1. <<>> \in Seq(Pieces) /\ Len(<<>>) <= SectorPieces
      BY Bounds
    <2>2. Blank \in Slots /\ Image(Running) \in Slots
      BY BlankIs, Bounds
    <2>3. /\ healthy = FALSE /\ filled = <<>> /\ writtenTo = 0
          /\ slot = Blank /\ running = Image(Running)
      BY DEF Init
    <2> QED
      BY <2>1, <2>2, <2>3 DEF StoreOK
  <1> QED
    BY <1>1, <1>2, <1>3, <1>4 DEF InRange
LEMMA Kept ==
    /\ ClientOK /\ UNCHANGED clientVars => ClientOK'
    /\ MessagesOK /\ UNCHANGED <<queueVars, serverVars>> => MessagesOK'
    /\ LoopOK /\ UNCHANGED loopVars => LoopOK'
    /\ StoreOK /\ UNCHANGED <<storeVars, running>> => StoreOK'
  <1>1. ClientOK /\ UNCHANGED clientVars => ClientOK'
    BY DEF ClientOK, clientVars
  <1>2. MessagesOK /\ UNCHANGED <<queueVars, serverVars>> => MessagesOK'
    BY DEF MessagesOK, queueVars, serverVars
  <1>3. LoopOK /\ UNCHANGED loopVars => LoopOK'
    BY DEF LoopOK, loopVars
  <1>4. StoreOK /\ UNCHANGED <<storeVars, running>> => StoreOK'
    BY DEF StoreOK, storeVars
  <1> QED
    BY <1>1, <1>2, <1>3, <1>4

(* What an answer does, taken out of the way it came.                      *)
LEMMA AnsweredInRange ==
    ASSUME InRange, NEW i \in DOMAIN requests, Answering(i),
           ClientOK', events' \in Seq(News), Len(events') <= EventCapacity
    PROVE  InRange'
  <1>1. i \in 1..Len(requests) /\ Len(requests) \in Nat
    BY DEF InRange, MessagesOK
  <1>2. RemoveAt(requests, i) \in Seq(Messages) /\ Len(RemoveAt(requests, i)) = Len(requests) - 1
    BY <1>1, RemovedIs DEF InRange
  <1>3. MessagesOK'
    <2>1. Len(requests) <= InFlight /\ InFlight \in Nat
      BY Bounds DEF InRange, MessagesOK
    <2>2. requests' \in Seq(Messages) /\ Len(requests') <= InFlight
      BY <1>1, <1>2, <2>1 DEF Answering
    <2>3. outbox' \in Seq(Messages) /\ newest' \in Versions
      BY DEF Answering, InRange, MessagesOK
    <2> QED
      BY <2>2, <2>3 DEF MessagesOK
  <1>4. LoopOK'
    <2>1. handled' = handled + 1 /\ handled < Burst /\ stage' = stage
      BY DEF Answering
    <2>2. handled \in Nat /\ Burst \in Nat
      BY Bounds DEF InRange, LoopOK
    <2>3. handled' \in 0..Burst
      BY <2>1, <2>2
    <2> QED
      BY <2>1, <2>3 DEF InRange, LoopOK
  <1>5. StoreOK'
    BY Kept DEF Answering, InRange
  <1> QED
    BY <1>3, <1>4, <1>5 DEF InRange

LEMMA AnswerableAre ==
    ASSUME NEW i \in Answerable
    PROVE  i \in DOMAIN requests
  BY DEF Answerable

(* The events the client raises of itself.                                 *)
LEMMA NewsRaised ==
    ASSUME InRange, NEW e \in {"Offered", "Abandoned", "Ready"}
    PROVE  Raised(<<e>>) \in Seq(News) /\ Len(Raised(<<e>>)) <= EventCapacity
  <1>1. <<e>> \in Seq(News)
    BY NewsFacts
  <1> DEFINE more == <<e>>
  <1>2. more \in Seq(News)
    BY <1>1
  <1> HIDE DEF more
  <1>3. Raised(more) \in Seq(News) /\ Len(Raised(more)) <= EventCapacity
    BY <1>2, RaisedIs DEF InRange
  <1> QED
    BY <1>3 DEF more

LEMMA Within ==
    \A n, m \in Nat : n <= m => \A i \in 0..(n - 1) : i \in 0..(m - 1) /\ i + 1 \in 0..n
  OBVIOUS

LEMMA BlockInRange ==
    ASSUME InRange
    PROVE  \A v \in Versions, b \in Nat : OnBlock(v, b) => ClientOK'
  <1>1. /\ at \in Nat /\ size \in Nat /\ size <= LargestImage /\ taken \in 0..size
        /\ pending \subseteq [version : Versions, index : 0..(LargestImage - 1)]
        /\ offered \in Versions /\ phase \in {"Idle", "Querying", "Downloading", "Finishing"}
    BY DEF InRange, ClientOK
  <1>2. ASSUME NEW v \in Versions, NEW i \in Int,
               at' = at + 1, due' = TRUE, asked' = FALSE, offered' = offered,
               size' = IF i = 0 THEN SizeOf[v] ELSE size,
               \/ i \in 0..(size' - 1) /\ pending' = {Piece(v, i)} /\ taken' = i + 1
               \/ i \notin 0..(size' - 1) /\ pending' = pending /\ taken' = taken,
               phase' = IF size' # 0 /\ taken' >= size' THEN "Finishing" ELSE phase
        PROVE  ClientOK'
    <2>1. /\ LargestImage \in Nat
          /\ SizeOf[v] \in Nat /\ SizeOf[v] >= 1 /\ SizeOf[v] <= LargestImage
      BY Bounds, LargestIs
    <2>2. size' \in Nat /\ size' <= LargestImage
      BY <1>1, <1>2, <2>1
    <2>3. taken' \in 0..size' /\ pending' \subseteq [version : Versions, index : 0..(LargestImage - 1)]
      <3>1. CASE i \in 0..(size' - 1) /\ pending' = {Piece(v, i)} /\ taken' = i + 1
        <4>3. i \in 0..(size' - 1)
          BY <3>1
        <4>4. LargestImage \in Nat
          BY <2>1
        <4>1. i \in 0..(LargestImage - 1) /\ i + 1 \in 0..size'
          BY <2>2, <4>3, <4>4, Within
        <4>2. Piece(v, i) \in [version : Versions, index : 0..(LargestImage - 1)]
          BY <4>1 DEF Piece
        <4> QED
          BY <3>1, <4>1, <4>2
      <3>2. CASE i \notin 0..(size' - 1) /\ pending' = pending /\ taken' = taken
        <4>1. i # 0
          BY <1>2, <2>1, <3>2
        <4> QED
          BY <1>1, <1>2, <3>2, <4>1
      <3> QED
        BY <1>2, <3>1, <3>2
    <2>6. at' \in Nat
      BY <1>1, <1>2
    <2>4. due' \in BOOLEAN /\ asked' \in BOOLEAN /\ offered' \in Versions
      BY <1>1, <1>2
    <2>5. phase' \in {"Idle", "Querying", "Downloading", "Finishing"}
      BY <1>1, <1>2
    <2> QED
      BY <2>2, <2>3, <2>4, <2>5, <2>6 DEF ClientOK
  <1>3. ASSUME NEW v \in Versions, NEW b \in Nat, OnBlock(v, b)
        PROVE  ClientOK'
    <2>1. b - FirstImageBlock \in Int
      BY Bounds
    <2> QED
      BY <1>2, <1>3, <2>1 DEF OnBlock
  <1> QED
    BY <1>3

LEMMA StopInRange ==
    ASSUME ClientOK, Stop, pending' \subseteq pending
    PROVE  ClientOK'
  <1>1. /\ offered \in Versions /\ at \in Nat /\ due \in BOOLEAN /\ asked \in BOOLEAN
        /\ pending \subseteq [version : Versions, index : 0..(LargestImage - 1)]
    BY DEF ClientOK
  <1>2. /\ phase' = "Idle" /\ size' = 0 /\ taken' = 0
        /\ offered' = offered /\ at' = at /\ due' = due /\ asked' = asked
    BY DEF Stop
  <1>3. size' \in Nat /\ size' <= LargestImage /\ taken' \in 0..size'
    BY <1>2, LargestIs
  <1>4. pending' \subseteq [version : Versions, index : 0..(LargestImage - 1)]
    BY <1>1
  <1> QED
    BY <1>1, <1>2, <1>3, <1>4 DEF ClientOK

LEMMA AnswerInRange ==
    ASSUME InRange, Answer
    PROVE  InRange'
  <1>1. CASE AnswerQuery
    <2>1. PICK i \in Answerable :
              /\ Answering(i)
              /\ IF newest > requests[i].version THEN OnOffer(newest) ELSE OnNoImage
      BY <1>1 DEF AnswerQuery
    <2>2. i \in DOMAIN requests
      BY AnswerableAre
    <2>3. CASE OnOffer(newest)
      <3>1. newest \in Versions /\ 0 <= LargestImage
        BY LargestIs DEF InRange, MessagesOK
      <3>2. /\ phase' = "Downloading" /\ offered' = newest /\ at' = 0 /\ size' = 0 /\ taken' = 0
            /\ due' = TRUE /\ asked' = FALSE /\ pending' = pending /\ events' = Raised(<<"Offered">>)
        BY <2>3 DEF OnOffer
      <3>3. pending' \subseteq [version : Versions, index : 0..(LargestImage - 1)]
        BY <3>2 DEF InRange, ClientOK
      <3>4. at' \in Nat /\ size' \in Nat /\ size' <= LargestImage /\ taken' \in 0..size'
        BY <3>1, <3>2
      <3>5. ClientOK'
        BY <3>1, <3>2, <3>3, <3>4 DEF ClientOK
      <3>6. events' \in Seq(News) /\ Len(events') <= EventCapacity
        BY <3>2, NewsRaised
      <3> QED
        BY <2>1, <2>2, <3>5, <3>6, AnsweredInRange
    <2>4. CASE OnNoImage
      <3>1. ClientOK'
        BY <2>4, StopInRange DEF OnNoImage, InRange
      <3>2. events' \in Seq(News) /\ Len(events') <= EventCapacity
        BY <2>4 DEF OnNoImage, InRange, MessagesOK
      <3> QED
        BY <2>1, <2>2, <3>1, <3>2, AnsweredInRange
    <2> QED
      BY <2>1, <2>3, <2>4
  <1>2. CASE AnswerBlock
    <2>1. PICK i \in Answerable : /\ requests[i].kind = "block" /\ Answering(i)
                                  /\ OnBlock(requests[i].version, requests[i].at)
      BY <1>2 DEF AnswerBlock
    <2>2. i \in DOMAIN requests
      BY AnswerableAre
    <2>3. requests[i].version \in Versions /\ requests[i].at \in Nat
      <3>1. requests[i] \in Messages
        BY <2>2 DEF InRange, MessagesOK
      <3> QED
        BY <2>1, <3>1 DEF Messages
    <2>4. ClientOK'
      BY <2>1, <2>3, BlockInRange
    <2>5. events' \in Seq(News) /\ Len(events') <= EventCapacity
      BY <2>1 DEF OnBlock, InRange, MessagesOK
    <2> QED
      BY <2>1, <2>2, <2>4, <2>5, AnsweredInRange
  <1>3. CASE RefuseBlock
    <2>1. PICK i \in Answerable : Answering(i) /\ (OnWait \/ OnRefusal)
      BY <1>3 DEF RefuseBlock
    <2>2. i \in DOMAIN requests
      BY AnswerableAre
    <2>3. CASE OnWait
      <3>1. ClientOK' /\ events' = events
        BY <2>3 DEF OnWait, InRange, ClientOK
      <3> QED
        BY <2>1, <2>2, <3>1, AnsweredInRange DEF InRange, MessagesOK
    <2>4. CASE OnRefusal
      <3>1. ClientOK'
        BY <2>4, StopInRange DEF OnRefusal, InRange
      <3>2. events' \in Seq(News) /\ Len(events') <= EventCapacity
        BY <2>4, NewsRaised DEF OnRefusal
      <3> QED
        BY <2>1, <2>2, <3>1, <3>2, AnsweredInRange
    <2> QED
      BY <2>1, <2>3, <2>4
  <1>4. CASE AnswerEnd
    <2>1. PICK i \in Answerable : Answering(i) /\ OnEnd
      BY <1>4 DEF AnswerEnd
    <2>2. i \in DOMAIN requests
      BY AnswerableAre
    <2>3. ClientOK'
      BY <2>1 DEF OnEnd, InRange, ClientOK
    <2>4. events' \in Seq(News) /\ Len(events') <= EventCapacity
      BY <2>1, NewsRaised DEF OnEnd
    <2> QED
      BY <2>1, <2>2, <2>3, <2>4, AnsweredInRange
  <1>5. CASE Unanswered
    <2>1. PICK i \in Answerable :
              /\ requests' = RemoveAt(requests, i)
              /\ UNCHANGED <<clientVars, queueVars, loopVars, storeVars, running, newest>>
      BY <1>5 DEF Unanswered
    <2>2. i \in 1..Len(requests) /\ Len(requests) \in Nat /\ Len(requests) <= InFlight
      BY AnswerableAre DEF InRange, MessagesOK
    <2>3. requests' \in Seq(Messages) /\ Len(requests') <= InFlight
      BY <2>1, <2>2, RemovedIs, Bounds DEF InRange
    <2>4. MessagesOK'
      BY <2>1, <2>3 DEF InRange, MessagesOK, queueVars
    <2>5. ClientOK' /\ LoopOK' /\ StoreOK'
      BY <2>1, Kept DEF InRange
    <2> QED
      BY <2>4, <2>5 DEF InRange
  <1> QED
    BY <1>1, <1>2, <1>3, <1>4, <1>5 DEF Answer
LEMMA TickInRange ==
    ASSUME InRange, Tick
    PROVE  InRange'
  <1>1. /\ stage' = "blocks" /\ handled' = 0
        /\ UNCHANGED <<phase, offered, at, size, taken, pending, events,
                       storeVars, running, serverVars>>
    BY DEF Tick, TickWaits, TickHoldsBack, TickAsks, Ticked
  <1>2. /\ due' = due \/ due' = FALSE
        /\ asked' = asked \/ asked' = TRUE
        /\ \/ outbox' = outbox
           \/ \E m \in {Query, BlockRequest, End("success")} : outbox' = Append(outbox, m)
    <2>1. CASE TickWaits
      BY <2>1 DEF TickWaits
    <2>2. CASE TickHoldsBack
      BY <2>2 DEF TickHoldsBack
    <2>3. CASE TickAsks
      <3>1. phase \in {"Querying", "Downloading", "Finishing"}
        BY <2>3 DEF TickAsks, InRange, ClientOK
      <3> QED
        BY <2>3, <3>1 DEF TickAsks
    <2> QED
      BY <2>1, <2>2, <2>3 DEF Tick
  <1>3. ClientOK'
    <2>1. due' \in BOOLEAN /\ asked' \in BOOLEAN
      BY <1>2 DEF InRange, ClientOK
    <2> QED
      BY <1>1, <2>1 DEF InRange, ClientOK
  <1>4. MessagesOK'
    <2>1. outbox' \in Seq(Messages)
      <3>1. CASE outbox' = outbox
        BY <3>1 DEF InRange, MessagesOK
      <3>2. ASSUME NEW m \in {Query, BlockRequest, End("success")}, outbox' = Append(outbox, m)
            PROVE  outbox' \in Seq(Messages)
        <4>1. m \in Messages
          BY SentIsMessage
        <4> QED
          BY <3>2, <4>1, AppendedIs
      <3> QED
        BY <1>2, <3>1, <3>2
    <2> QED
      BY <1>1, <2>1 DEF InRange, MessagesOK, serverVars
  <1>5. LoopOK'
    BY <1>1, Bounds DEF LoopOK
  <1>6. StoreOK'
    BY <1>1, Kept DEF InRange
  <1> QED
    BY <1>3, <1>4, <1>5, <1>6 DEF InRange

(* A full sector goes to the slot; one that is not waits.                  *)
LEMMA AppendedPiece ==
    ASSUME InRange, NEW piece \in pending
    PROVE  /\ piece \in Pieces /\ Append(filled, piece) \in Seq(Pieces)
           /\ Len(Append(filled, piece)) = Len(filled) + 1
  <1>1. piece \in Pieces
    <2>1. \A i \in 0..(LargestImage - 1) : i \in Nat
      BY LargestIs
    <2> QED
      BY <2>1 DEF InRange, ClientOK, Pieces
  <1> QED
    BY <1>1, AppendProperties DEF InRange, StoreOK

LEMMA WriteInRange ==
    ASSUME InRange, WriteBlock
    PROVE  InRange'
  <1>1. PICK piece \in pending :
            /\ Fits(piece) /\ pending' = {}
            /\ \/ /\ Len(filled) + 1 < SectorPieces
                  /\ filled' = Append(filled, piece)
                  /\ UNCHANGED <<writtenTo, slot>>
               \/ /\ Len(filled) + 1 = SectorPieces
                  /\ slot' = Flushed(Append(filled, piece))
                  /\ writtenTo' = writtenTo + SectorPieces
                  /\ filled' = <<>>
            /\ UNCHANGED <<phase, offered, at, size, taken, due, asked, queueVars,
                           loopVars, healthy, running, serverVars>>
    BY DEF WriteBlock
  <1>2. ClientOK'
    BY <1>1 DEF InRange, ClientOK
  <1>3. MessagesOK' /\ LoopOK'
    BY <1>1, Kept DEF InRange
  <1>4. StoreOK'
    <2>1. /\ Append(filled, piece) \in Seq(Pieces) /\ Len(Append(filled, piece)) = Len(filled) + 1
          /\ SectorPieces \in Nat /\ SectorPieces >= 1 /\ <<>> \in Seq(Pieces) /\ Len(<<>>) = 0
          /\ writtenTo \in Nat
      BY AppendedPiece, Bounds DEF InRange, StoreOK
    <2>2. healthy' \in BOOLEAN /\ running' \in Slots
      BY <1>1 DEF InRange, StoreOK
    <2>3. CASE Len(filled) + 1 < SectorPieces /\ filled' = Append(filled, piece)
               /\ UNCHANGED <<writtenTo, slot>>
      <3>1. Len(filled') < SectorPieces /\ Len(filled') <= SectorPieces /\ filled' \in Seq(Pieces)
        <4>1. Len(Append(filled, piece)) < SectorPieces
          BY <2>1, <2>3
        <4>2. filled' \in Seq(Pieces) /\ Len(filled') < SectorPieces
          BY <2>1, <2>3, <4>1
        <4> QED
          BY <2>1, <4>2
      <3>2. writtenTo' \in Nat /\ slot' \in Slots
        BY <2>3 DEF InRange, StoreOK
      <3> QED
        BY <2>2, <3>1, <3>2 DEF StoreOK
    <2>4. CASE slot' = Flushed(Append(filled, piece)) /\ writtenTo' = writtenTo + SectorPieces
               /\ filled' = <<>>
      <3>1. slot' \in Slots /\ writtenTo' \in Nat
        <4>1. writtenTo' \in Nat
          BY <2>1, <2>4
        <4>2. Flushed(Append(filled, piece)) \in Slots
          BY <2>1, FlushedInRange
        <4> QED
          BY <2>4, <4>1, <4>2
      <3>2. Len(filled') < SectorPieces /\ Len(filled') <= SectorPieces /\ filled' \in Seq(Pieces)
        BY <2>1, <2>4
      <3> QED
        BY <2>2, <3>1, <3>2 DEF StoreOK
    <2> QED
      BY <1>1, <2>3, <2>4
  <1> QED
    BY <1>2, <1>3, <1>4 DEF InRange

LEMMA RefusalInRange ==
    ASSUME InRange, RefuseWrite
    PROVE  InRange'
  <1>1. PICK piece \in pending :
            /\ \/ UNCHANGED <<filled, slot>>
               \/ /\ Len(filled) + 1 = SectorPieces
                  /\ filled' = Append(filled, piece)
                  /\ slot' = Flushed(<<>>)
            /\ healthy' = FALSE /\ pending' = {}
            /\ \/ UNCHANGED <<phase, offered, at, size, taken, due, asked, queueVars>>
               \/ /\ Stop
                  /\ outbox' = Append(outbox, End("abort"))
                  /\ events' = Raised(<<"Abandoned">>)
            /\ UNCHANGED <<loopVars, writtenTo, running, serverVars>>
    BY DEF RefuseWrite
  <1>2. ClientOK'
    <2>1. CASE UNCHANGED <<phase, offered, at, size, taken, due, asked>>
      BY <1>1, <2>1 DEF InRange, ClientOK
    <2>2. CASE Stop
      BY <1>1, <2>2, StopInRange DEF InRange
    <2> QED
      BY <1>1, <2>1, <2>2
  <1>3. MessagesOK'
    <2>1. CASE UNCHANGED queueVars
      BY <1>1, <2>1, Kept DEF InRange
    <2>2. CASE outbox' = Append(outbox, End("abort")) /\ events' = Raised(<<"Abandoned">>)
      <3>1. outbox' \in Seq(Messages)
        <4>1. End("abort") \in Messages
          BY SentIsMessage
        <4> QED
          BY <2>2, <4>1, AppendedIs
      <3>2. events' \in Seq(News) /\ Len(events') <= EventCapacity
        BY <2>2, NewsRaised
      <3> QED
        BY <1>1, <3>1, <3>2 DEF InRange, MessagesOK, serverVars
    <2> QED
      BY <1>1, <2>1, <2>2
  <1>4. LoopOK'
    BY <1>1, Kept DEF InRange
  <1>5. StoreOK'
    <2>1. /\ Append(filled, piece) \in Seq(Pieces) /\ Len(Append(filled, piece)) = Len(filled) + 1
          /\ <<>> \in Seq(Pieces)
      BY AppendedPiece
    <2>2. filled' \in Seq(Pieces) /\ Len(filled') <= SectorPieces
      <3>1. CASE UNCHANGED filled
        BY <3>1 DEF InRange, StoreOK
      <3>2. CASE Len(filled) + 1 = SectorPieces /\ filled' = Append(filled, piece)
        <4>1. Len(Append(filled, piece)) <= SectorPieces
          BY <2>1, <3>2, Bounds
        <4> QED
          BY <2>1, <3>2, <4>1
      <3> QED
        BY <1>1, <3>1, <3>2
    <2>3. slot' \in Slots
      BY <1>1, <2>1, FlushedInRange DEF InRange, StoreOK
    <2>4. healthy' = FALSE /\ writtenTo' \in Nat /\ running' \in Slots
      BY <1>1 DEF InRange, StoreOK
    <2> QED
      BY <2>2, <2>3, <2>4 DEF StoreOK
  <1> QED
    BY <1>2, <1>3, <1>4, <1>5 DEF InRange

LEMMA TransmitInRange ==
    ASSUME InRange, Reaches \/ IsLost
    PROVE  InRange'
  <1>1. /\ outbox # <<>> /\ outbox' = Tail(outbox)
        /\ UNCHANGED <<clientVars, events, loopVars, storeVars, running, newest>>
        /\ \/ Len(requests) < InFlight /\ requests' = Append(requests, Head(outbox))
           \/ requests' = requests
    BY DEF Reaches, IsLost, serverVars
  <1>2. outbox' \in Seq(Messages) /\ Head(outbox) \in Messages
    BY <1>1, HeadTailProperties DEF InRange, MessagesOK
  <1>3. requests' \in Seq(Messages) /\ Len(requests') <= InFlight
    <2>1. CASE requests' = requests
      BY <2>1 DEF InRange, MessagesOK
    <2>2. CASE Len(requests) < InFlight /\ requests' = Append(requests, Head(outbox))
      <3>1. requests \in Seq(Messages) /\ Len(requests) \in Nat /\ InFlight \in Nat
        BY Bounds DEF InRange, MessagesOK
      <3>2. /\ Append(requests, Head(outbox)) \in Seq(Messages)
            /\ Len(Append(requests, Head(outbox))) = Len(requests) + 1
        BY <1>2, <3>1, AppendProperties
      <3>3. Len(Append(requests, Head(outbox))) <= InFlight
        BY <2>2, <3>1, <3>2
      <3> QED
        BY <2>2, <3>2, <3>3
    <2> QED
      BY <1>1, <2>1, <2>2
  <1>4. MessagesOK'
    BY <1>1, <1>2, <1>3 DEF InRange, MessagesOK
  <1>5. ClientOK' /\ LoopOK' /\ StoreOK'
    BY <1>1, Kept DEF InRange
  <1> QED
    BY <1>4, <1>5 DEF InRange

LEMMA EventInRange ==
    ASSUME InRange, NEW e, TakeEvent(e), StoreOK'
    PROVE  InRange'
  <1>1. events # <<>> /\ events' = Tail(events) /\ UNCHANGED <<clientVars, outbox, loopVars, running, serverVars>>
    BY DEF TakeEvent
  <1>2. events' \in Seq(News) /\ Len(events') <= EventCapacity
    <2>1. events \in Seq(News) /\ Len(events) \in Nat /\ Len(events) <= EventCapacity /\ EventCapacity \in Nat
      BY Bounds DEF InRange, MessagesOK
    <2>2. events' \in Seq(News) /\ Len(events') = Len(events) - 1
      BY <1>1, <2>1, HeadTailProperties
    <2> QED
      BY <2>1, <2>2
  <1>3. MessagesOK'
    BY <1>1, <1>2 DEF InRange, MessagesOK, serverVars
  <1>4. ClientOK' /\ LoopOK'
    BY <1>1, Kept DEF InRange
  <1> QED
    BY <1>3, <1>4 DEF InRange

LEMMA StoreReacts ==
    ASSUME InRange, BeginFirmware \/ AbandonFirmware \/ NoteEvent \/ ActivationFails
    PROVE  InRange'
  <1>1. <<>> \in Seq(Pieces) /\ Len(<<>>) < SectorPieces /\ Len(<<>>) <= SectorPieces
    BY Bounds
  <1>2. CASE BeginFirmware
    <2>1. healthy' = TRUE /\ filled' = <<>> /\ writtenTo' = 0 /\ slot' = slot /\ running' = running
      BY <1>2 DEF BeginFirmware, TakeEvent
    <2>2. StoreOK'
      BY <1>1, <2>1 DEF InRange, StoreOK
    <2> QED
      BY <1>2, <2>2, EventInRange DEF BeginFirmware
  <1>3. CASE AbandonFirmware
    <2>1. healthy' = FALSE /\ filled' = <<>> /\ writtenTo' = writtenTo /\ slot' = slot /\ running' = running
      BY <1>3 DEF AbandonFirmware, TakeEvent
    <2>2. StoreOK'
      BY <1>1, <2>1 DEF InRange, StoreOK
    <2> QED
      BY <1>3, <2>2, EventInRange DEF AbandonFirmware
  <1>4. CASE NoteEvent
    <2>1. StoreOK'
      BY <1>4, Kept DEF NoteEvent, TakeEvent, InRange
    <2> QED
      BY <1>4, <2>1, EventInRange DEF NoteEvent
  <1>5. CASE ActivationFails
    <2>1. StoreOK'
      <3>1. running' = running
        BY <1>5 DEF ActivationFails, TakeEvent
      <3>2. CASE UNCHANGED storeVars
        BY <3>1, <3>2, Kept DEF InRange
      <3>3. CASE healthy' = FALSE /\ slot' = Flushed(<<>>) /\ UNCHANGED <<filled, writtenTo>>
        <4>1. slot' \in Slots
          BY <1>1, <3>3, FlushedInRange
        <4> QED
          BY <3>1, <3>3, <4>1 DEF InRange, StoreOK
      <3> QED
        BY <1>5, <3>2, <3>3 DEF ActivationFails
    <2> QED
      BY <1>5, <2>1, EventInRange DEF ActivationFails
  <1> QED
    BY <1>2, <1>3, <1>4, <1>5

LEMMA LoopInRange ==
    ASSUME InRange, Loop
    PROVE  InRange'
  <1>1. CASE Tick
    BY <1>1, TickInRange
  <1>2. CASE WriteBlock
    BY <1>2, WriteInRange
  <1>3. CASE RefuseWrite
    BY <1>3, RefusalInRange
  <1>4. CASE BlocksTaken \/ Transmitted \/ TurnOver
    <2>1. /\ stage' \in {"receive", "transmit", "events"} /\ handled' = handled
          /\ UNCHANGED <<clientVars, queueVars, storeVars, running, serverVars>>
      BY <1>4 DEF BlocksTaken, Transmitted, TurnOver
    <2>2. LoopOK'
      BY <2>1 DEF InRange, LoopOK
    <2> QED
      BY <2>1, <2>2, Kept DEF InRange
  <1>5. CASE Reaches \/ IsLost
    BY <1>5, TransmitInRange
  <1>6. CASE BeginFirmware \/ AbandonFirmware \/ NoteEvent \/ ActivationFails
    BY <1>6, StoreReacts
  <1>7. CASE ActivateFirmware
    <2>1. /\ Booted /\ UNCHANGED serverVars /\ slot' = running
          /\ running' = IF filled = <<>> THEN slot ELSE Flushed(filled)
      BY <1>7 DEF ActivateFirmware
    <2>2. slot' \in Slots /\ running' \in Slots
      BY <2>1, FlushedInRange DEF InRange, StoreOK
    <2> QED
      BY <2>1, <2>2, BootedInRange
  <1> QED
    BY <1>1, <1>2, <1>3, <1>4, <1>5, <1>6, <1>7 DEF Loop

LEMMA FrameInRange ==
    ASSUME InRange, ImageNotify \/ OtherFrame
    PROVE  InRange'
  <1>1. /\ handled < Burst /\ handled' = handled + 1
        /\ UNCHANGED <<outbox, stage, storeVars, running, serverVars>>
    BY DEF ImageNotify, OtherFrame
  <1>2. LoopOK'
    <2>1. handled \in Nat /\ Burst \in Nat
      BY Bounds DEF InRange, LoopOK
    <2>2. handled' \in 0..Burst
      BY <1>1, <2>1
    <2> QED
      BY <1>1, <2>2 DEF InRange, LoopOK
  <1>3. StoreOK'
    BY <1>1, Kept DEF InRange
  <1>4. ClientOK' /\ events' \in Seq(News) /\ Len(events') <= EventCapacity
    <2>1. CASE ImageNotify
      <3>1. /\ phase' = "Querying" /\ due' = TRUE
            /\ UNCHANGED <<offered, at, size, taken, pending, asked, events>>
        BY <2>1 DEF ImageNotify, Ask
      <3> QED
        BY <3>1 DEF InRange, ClientOK, MessagesOK
    <2>2. CASE OtherFrame
      <3>1. PICK n \in Notes : events' = Raised([i \in 1..n |-> Note])
        BY <2>2 DEF OtherFrame
      <3>2. [i \in 1..n |-> Note] \in Seq(News)
        BY NewsFacts, Bounds
      <3> DEFINE more == [i \in 1..n |-> Note]
      <3>3. more \in Seq(News) /\ events' = Raised(more)
        BY <3>1, <3>2
      <3> HIDE DEF more
      <3>4. events' \in Seq(News) /\ Len(events') <= EventCapacity
        BY <3>3, RaisedIs DEF InRange
      <3>5. ClientOK'
        BY <2>2, Kept DEF InRange, OtherFrame
      <3> QED
        BY <3>4, <3>5
    <2> QED
      BY <2>1, <2>2
  <1>5. MessagesOK'
    BY <1>1, <1>4 DEF InRange, MessagesOK, serverVars
  <1> QED
    BY <1>2, <1>3, <1>4, <1>5 DEF InRange

LEMMA InRangeStep ==
    ASSUME InRange, [Next]_vars
    PROVE  InRange'
  <1>1. CASE Loop
    BY <1>1, LoopInRange
  <1>2. CASE Answer
    BY <1>2, AnswerInRange
  <1>3. CASE ImageNotify \/ OtherFrame
    BY <1>3, FrameInRange
  <1>4. CASE Publish
    <2>1. /\ newest' \in Versions
          /\ UNCHANGED <<clientVars, queueVars, loopVars, storeVars, running, requests>>
      BY <1>4, Bounds DEF Publish
    <2>2. MessagesOK'
      BY <2>1 DEF InRange, MessagesOK, queueVars
    <2> QED
      BY <2>1, <2>2, Kept DEF InRange
  <1>5. CASE PowerCut
    <2>1. Booted /\ slot' = slot /\ running' = running /\ UNCHANGED serverVars
      BY <1>5 DEF PowerCut
    <2> QED
      BY <2>1, BootedInRange DEF InRange, StoreOK
  <1>6. CASE UNCHANGED vars
    BY <1>6, Kept DEF vars, InRange
  <1> QED
    BY <1>1, <1>2, <1>3, <1>4, <1>5, <1>6 DEF Next

(* Whatever is offered, answered, refused, lost or cut off: the client     *)
(* never takes more than the image has, the queues stay within their       *)
(* capacities, and the sector buffer never runs over.                      *)
THEOREM UpgradeInRange ==
    Spec => []TypeOK
  <1>1. Init => InRange
    BY InRangeInit
  <1>2. InRange /\ [Next]_vars => InRange'
    BY InRangeStep
  <1>3. InRange => TypeOK
    BY DEF InRange, ClientOK, MessagesOK, LoopOK, StoreOK, TypeOK
  <1> QED
    BY <1>1, <1>2, <1>3, PTL DEF Spec
-----------------------------------------------------------------------------
(* Whole images                                                            *)

(* What the theorems below suppose of the air.  A block's answer says what *)
(* version it is of, and the client does not look (ota.rs:258): an old     *)
(* request answered late, or a third one on its way when the power fails,  *)
(* may put a piece of one version into another.                            *)
AnswersInOrder == Ordered /\ FirstImageBlock >= 1 /\ InFlight <= 2

Has(e) == \E i \in 1..Len(events) : events[i] = e

Received == writtenTo + Len(filled)
At(i) == IF i < writtenTo THEN slot[i] ELSE filled[i - writtenTo + 1]
Prefix(v, k) == Received = k /\ \A i \in 0..(k - 1) : At(i) = Piece(v, i)

(* A store that believes in its image holds k pieces of it, or will once   *)
(* the block that waits is handed over, unless it refuses that block.      *)
Holding(v, k) ==
    healthy => \/ pending = {} /\ Prefix(v, k)
               \/ /\ k >= 1 /\ pending = {Piece(v, k - 1)}
                  /\ Prefix(v, k - 1) \/ Received # k - 1

(* The stage says what has been handed over.                               *)
Staged ==
    /\ stage \in {"receive", "events"} => Len(outbox) = 0
    /\ stage \in {"transmit", "events"} => pending = {}

(* A block request that asks for no more than the client has come to.      *)
Fresh(m) == m.kind = "block" => m.at = 0 \/ (m.version = offered /\ m.at <= at)

Asking ==
    /\ \A j \in 1..Len(outbox) :
          outbox[j].kind = "block" => outbox[j].version = offered /\ outbox[j].at = at
    /\ Downloads => /\ Len(requests) >= 1 => Fresh(requests[1]) \/ at = 0
                    /\ Len(requests) >= 2 => Fresh(requests[2])

(* While a block waits, no answer can bring another.                       *)
OneWaits ==
    stage = "receive" /\ pending # {} =>
        /\ Len(requests) <= 1 /\ (~Downloads => Len(requests) = 0)
        /\ Len(requests) >= 1 /\ requests[1].kind = "block" => requests[1].at < at

(* An offer the store has not heard of: nothing of its image has come.     *)
Announced ==
    Has("Offered") =>
        /\ pending = {} /\ size = 0 /\ taken = 0 /\ phase # "Finishing"
        /\ stage = "receive" =>
              /\ Len(requests) <= 1
              /\ Len(requests) = 0 \/ (phase = "Downloading" /\ at = 0)

(* An end the store has not heard of: what it has is still whole.          *)
Ended ==
    Has("Ready") =>
        /\ stage = "receive" => Len(requests) <= 1 /\ (Downloads => Len(requests) = 0)
        /\ \E v \in Versions : Holding(v, SizeOf[v])

InTurn ==
    \A i, j \in 1..Len(events) :
        i < j /\ events[i] = "Offered" => events[j] # "Ready"

(* Client and store are at the same piece of the same version.             *)
Followed ==
    Downloads =>
        IF size = 0 THEN taken = 0 /\ at <= FirstImageBlock /\ phase = "Downloading"
        ELSE /\ at = FirstImageBlock + taken /\ taken >= 1 /\ size = SizeOf[offered]
             /\ Holding(offered, taken)
             /\ IF phase = "Finishing" THEN taken = size ELSE taken < size

Together ==
    /\ Staged /\ Asking /\ OneWaits /\ Announced /\ Ended /\ InTurn /\ Followed
    /\ WholeImage

Following == InRange /\ Together

LEMMA TwoRequests ==
    ASSUME InRange, AnswersInOrder
    PROVE  Len(requests) \in Nat /\ Len(requests) <= 2
  <1>1. Len(requests) \in Nat /\ Len(requests) <= InFlight /\ InFlight \in Nat
    BY Bounds DEF InRange, MessagesOK
  <1>2. InFlight <= 2
    BY DEF AnswersInOrder
  <1> QED
    BY <1>1, <1>2

LEMMA FewAre ==
    \A n \in {0, 1} : n <= 1 /\ (n >= 1 => n = 1)
  OBVIOUS

LEMMA FirstAnswered ==
    ASSUME InRange, AnswersInOrder, NEW i \in Answerable, requests' = RemoveAt(requests, i)
    PROVE  /\ i = 1 /\ Len(requests) \in {1, 2}
           /\ Len(requests') = Len(requests) - 1
           /\ Len(requests) = 2 => requests'[1] = requests[2]
  <1>1. Len(requests) \in Nat /\ Len(requests) <= 2 /\ requests \in Seq(Messages)
    BY TwoRequests DEF InRange, MessagesOK
  <1>2. i = 1 /\ i \in DOMAIN requests
    BY DEF Answerable, AnswersInOrder
  <1>3. 1 \in 1..Len(requests)
    BY <1>1, <1>2
  <1>4. Len(requests) \in {1, 2}
    <2>1. Len(requests) \in Nat /\ Len(requests) <= 2 /\ 1 <= Len(requests)
      BY <1>1, <1>3
    <2>2. \A n \in Nat : n <= 2 /\ 1 <= n => n = 1 \/ n = 2
      OBVIOUS
    <2>3. Len(requests) = 1 \/ Len(requests) = 2
      BY <2>1, <2>2
    <2> QED
      BY <2>3
  <1>5. /\ Len(RemoveAt(requests, 1)) = Len(requests) - 1
        /\ \A j \in 1..(Len(requests) - 1) :
              RemoveAt(requests, 1)[j] = IF j < 1 THEN requests[j] ELSE requests[j + 1]
    BY <1>3, RemovedIs DEF InRange
  <1>6. Len(requests) = 2 => RemoveAt(requests, 1)[1] = requests[2]
    <2>1. Len(requests) = 2 => 1 \in 1..(Len(requests) - 1) /\ ~(1 < 1) /\ 1 + 1 = 2
      OBVIOUS
    <2> QED
      BY <1>5, <2>1
  <1> QED
    BY <1>2, <1>4, <1>5, <1>6

(* What a full queue drops leaves the order of the rest.                   *)
LEMMA RaisedFrom ==
    ASSUME MessagesOK, NEW more \in Seq(News)
    PROVE  \E d \in Nat : \A j \in 1..Len(Raised(more)) :
              /\ j + d \in 1..(Len(events) + Len(more))
              /\ Raised(more)[j] = IF j + d <= Len(events) THEN events[j + d]
                                   ELSE more[j + d - Len(events)]
  <1> DEFINE q == events \o more
  <1>1. /\ q \in Seq(News) /\ Len(q) \in Nat /\ Len(q) = Len(events) + Len(more)
        /\ \A k \in 1..(Len(events) + Len(more)) :
              q[k] = IF k <= Len(events) THEN events[k] ELSE more[k - Len(events)]
        /\ Len(events) \in Nat /\ Len(more) \in Nat
        /\ EventCapacity \in Nat /\ EventCapacity >= 1
    BY ConcatProperties, Bounds DEF MessagesOK
  <1>2. Raised(more) = IF Len(q) <= EventCapacity THEN q
                       ELSE SubSeq(q, Len(q) - EventCapacity + 1, Len(q))
    BY DEF Raised
  <1> HIDE DEF q
  <1>3. \E d \in Nat : \A j \in 1..Len(Raised(more)) : j + d \in 1..Len(q) /\ Raised(more)[j] = q[j + d]
    <2>1. CASE Len(q) <= EventCapacity
      <3>1. Raised(more) = q /\ \A j \in 1..Len(q) : j + 0 \in 1..Len(q) /\ q[j] = q[j + 0]
        BY <1>1, <1>2, <2>1
      <3> QED
        BY <3>1
    <2>2. CASE ~(Len(q) <= EventCapacity)
      <3> DEFINE d == Len(q) - EventCapacity
                 lo == d + 1
                 hi == Len(q)
      <3>6. Len(q) \in Nat /\ EventCapacity \in Nat /\ EventCapacity >= 1
        BY <1>1
      <3>7. d \in Nat /\ lo \in Int /\ hi \in Int /\ lo <= hi /\ hi - lo + 1 = EventCapacity
        BY <2>2, <3>6
      <3>8. \A k \in lo..hi : k \in 1..Len(q)
        BY <2>2, <3>6
      <3>9. \A j \in 1..EventCapacity : j + d \in 1..Len(q) /\ lo + j - 1 = j + d
        BY <2>2, <3>6
      <3>1. /\ d \in Nat /\ lo \in Int /\ hi \in Int /\ lo <= hi
            /\ hi - lo + 1 = EventCapacity /\ \A k \in lo..hi : k \in 1..Len(q)
            /\ \A j \in 1..EventCapacity : j + d \in 1..Len(q) /\ lo + j - 1 = j + d
        BY <3>7, <3>8, <3>9
      <3>2. Raised(more) = SubSeq(q, lo, hi)
        BY <1>2, <2>2
      <3> HIDE DEF d, lo, hi
      <3>3. \A k \in lo..hi : q[k] \in News
        BY <1>1, <3>1
      <3>4. /\ Len(SubSeq(q, lo, hi)) = hi - lo + 1
            /\ \A j \in 1..(hi - lo + 1) : SubSeq(q, lo, hi)[j] = q[lo + j - 1]
        BY <3>1, <3>3, SubSeqProperties
      <3>5. \A j \in 1..Len(Raised(more)) : j + d \in 1..Len(q) /\ Raised(more)[j] = q[j + d]
        BY <3>1, <3>2, <3>4
      <3> QED
        BY <3>1, <3>5
    <2> QED
      BY <2>1, <2>2
  <1>4. PICK d \in Nat : \A j \in 1..Len(Raised(more)) :
            j + d \in 1..Len(q) /\ Raised(more)[j] = q[j + d]
    BY <1>3
  <1>5. ASSUME NEW j \in 1..Len(Raised(more))
        PROVE  /\ j + d \in 1..(Len(events) + Len(more))
               /\ Raised(more)[j] = IF j + d <= Len(events) THEN events[j + d]
                                    ELSE more[j + d - Len(events)]
    <2>1. j + d \in 1..(Len(events) + Len(more)) /\ Raised(more)[j] = q[j + d]
      BY <1>1, <1>4
    <2> QED
      BY <1>1, <2>1
  <1> QED
    BY <1>5

LEMMA RaisedHas ==
    ASSUME MessagesOK, NEW more \in Seq(News), events' = Raised(more), NEW e, Has(e)'
    PROVE  Has(e) \/ \E i \in 1..Len(more) : more[i] = e
  <1>1. PICK d \in Nat : \A j \in 1..Len(Raised(more)) :
              /\ j + d \in 1..(Len(events) + Len(more))
              /\ Raised(more)[j] = IF j + d <= Len(events) THEN events[j + d]
                                   ELSE more[j + d - Len(events)]
    BY RaisedFrom
  <1>2. PICK j \in 1..Len(Raised(more)) : Raised(more)[j] = e
    BY DEF Has
  <1>3. Len(events) \in Nat /\ Len(more) \in Nat /\ Len(Raised(more)) \in Nat
    BY RaisedIs DEF MessagesOK
  <1> DEFINE k == j + d
  <1>4. /\ k \in 1..(Len(events) + Len(more))
        /\ e = IF k <= Len(events) THEN events[k] ELSE more[k - Len(events)]
    BY <1>1, <1>2
  <1> HIDE DEF k
  <1>5. CASE k <= Len(events)
    <2>1. k \in 1..Len(events) /\ events[k] = e
      BY <1>3, <1>4, <1>5
    <2> QED
      BY <2>1 DEF Has
  <1>6. CASE ~(k <= Len(events))
    <2>1. k - Len(events) \in 1..Len(more) /\ more[k - Len(events)] = e
      BY <1>3, <1>4, <1>6
    <2> QED
      BY <2>1
  <1> QED
    BY <1>5, <1>6

LEMMA RaisedInTurn ==
    ASSUME MessagesOK, InTurn, NEW more \in Seq(News), events' = Raised(more),
           \/ \A i \in 1..Len(more) : more[i] # "Ready"
           \/ ~Has("Offered") /\ \A i \in 1..Len(more) : more[i] # "Offered"
    PROVE  InTurn'
  <1>1. PICK d \in Nat : \A j \in 1..Len(Raised(more)) :
              /\ j + d \in 1..(Len(events) + Len(more))
              /\ Raised(more)[j] = IF j + d <= Len(events) THEN events[j + d]
                                   ELSE more[j + d - Len(events)]
    BY RaisedFrom
  <1>2. Len(events) \in Nat /\ Len(more) \in Nat /\ Len(Raised(more)) \in Nat
    BY RaisedIs DEF MessagesOK
  <1>3. ASSUME NEW a \in 1..Len(Raised(more)), NEW b \in 1..Len(Raised(more)), a < b,
               Raised(more)[a] = "Offered", Raised(more)[b] = "Ready"
        PROVE  FALSE
    <2>1. PICK k \in Nat, l \in Nat :
              /\ k \in 1..(Len(events) + Len(more)) /\ l \in 1..(Len(events) + Len(more)) /\ k < l
              /\ "Offered" = IF k <= Len(events) THEN events[k] ELSE more[k - Len(events)]
              /\ "Ready" = IF l <= Len(events) THEN events[l] ELSE more[l - Len(events)]
      <3> DEFINE k == a + d
                 l == b + d
      <3>1. k \in Nat /\ l \in Nat /\ k < l
        BY <1>2, <1>3
      <3>2. /\ k \in 1..(Len(events) + Len(more))
            /\ "Offered" = IF k <= Len(events) THEN events[k] ELSE more[k - Len(events)]
        BY <1>1, <1>3
      <3>3. /\ l \in 1..(Len(events) + Len(more))
            /\ "Ready" = IF l <= Len(events) THEN events[l] ELSE more[l - Len(events)]
        BY <1>1, <1>3
      <3> HIDE DEF k, l
      <3> QED
        BY <3>1, <3>2, <3>3
    <2>2. CASE l <= Len(events)
      <3>1. k \in 1..Len(events) /\ l \in 1..Len(events) /\ events[k] = "Offered" /\ events[l] = "Ready"
        BY <1>2, <2>1, <2>2
      <3> QED
        BY <2>1, <3>1 DEF InTurn
    <2>3. CASE ~(l <= Len(events))
      <3>1. l - Len(events) \in 1..Len(more) /\ more[l - Len(events)] = "Ready"
        BY <1>2, <2>1, <2>3
      <3>2. CASE k <= Len(events)
        <4>1. k \in 1..Len(events) /\ events[k] = "Offered"
          BY <1>2, <2>1, <3>2
        <4> QED
          BY <3>1, <4>1 DEF Has
      <3>3. CASE ~(k <= Len(events))
        <4>1. k - Len(events) \in 1..Len(more) /\ more[k - Len(events)] = "Offered"
          BY <1>2, <2>1, <3>3
        <4> QED
          BY <3>1, <4>1
      <3> QED
        BY <3>2, <3>3
    <2> QED
      BY <2>2, <2>3
  <1> QED
    BY <1>3 DEF InTurn

LEMMA TailHas ==
    ASSUME MessagesOK, InTurn, events # <<>>, events' = Tail(events)
    PROVE  /\ \A e : Has(e)' => Has(e)
           /\ InTurn'
           /\ Head(events) = "Offered" => ~Has("Ready")'
  <1>1. /\ Len(events) \in Nat /\ Len(Tail(events)) = Len(events) - 1
        /\ \A i \in 1..Len(Tail(events)) : Tail(events)[i] = events[i + 1]
        /\ Head(events) = events[1] /\ Len(events) >= 1
    <2>1. events \in Seq(News)
      BY DEF MessagesOK
    <2> QED
      BY <2>1, HeadTailProperties
  <1>2. \A i \in 1..Len(events') : i + 1 \in 1..Len(events) /\ events'[i] = events[i + 1] /\ 1 < i + 1
    BY <1>1
  <1>3. \A e : Has(e)' => Has(e)
    BY <1>2 DEF Has
  <1>4. InTurn'
    <2>1. ASSUME NEW i \in 1..Len(events'), NEW j \in 1..Len(events'), i < j
          PROVE  i + 1 < j + 1
      BY <1>1, <2>1
    <2> QED
      BY <1>2, <2>1 DEF InTurn
  <1>5. Head(events) = "Offered" => ~Has("Ready")'
    <2>1. 1 \in 1..Len(events)
      BY <1>1
    <2> QED
      BY <1>1, <1>2, <2>1 DEF InTurn, Has
  <1> QED
    BY <1>3, <1>4, <1>5
(* The slot and the sector buffer, read as one.                            *)
LEMMA FlushedAt ==
    ASSUME InRange, NEW pieces \in Seq(Pieces), Len(pieces) <= SectorPieces,
           NEW i \in 0..(LargestImage - 1), i < writtenTo + Len(pieces)
    PROVE  Flushed(pieces)[i] = IF i < writtenTo THEN slot[i] ELSE pieces[i - writtenTo + 1]
  <1>1. /\ writtenTo \in Nat /\ SectorPieces \in Nat /\ SectorPieces >= 1
        /\ Len(pieces) \in Nat /\ LargestImage \in Nat
    BY Bounds, LargestIs DEF InRange, StoreOK
  <1>2. i \in 0..(LargestImage + SectorPieces - 1)
    BY <1>1
  <1>3. i \in DOMAIN slot
    BY <1>2, BlankIs DEF InRange, StoreOK, Slots
  <1>4. Flushed(pieces)[i] =
           IF i \in writtenTo..(writtenTo + SectorPieces - 1)
           THEN IF i - writtenTo < Len(pieces) THEN pieces[i - writtenTo + 1] ELSE Erased
           ELSE slot[i]
    BY <1>3 DEF Flushed
  <1>5. CASE i < writtenTo
    <2>1. i \notin writtenTo..(writtenTo + SectorPieces - 1)
      BY <1>1, <1>5
    <2> QED
      BY <1>4, <1>5, <2>1
  <1>6. CASE ~(i < writtenTo)
    <2>1. i \in writtenTo..(writtenTo + SectorPieces - 1) /\ i - writtenTo < Len(pieces)
      BY <1>1, <1>6
    <2> QED
      BY <1>4, <1>6, <2>1
  <1> QED
    BY <1>5, <1>6

LEMMA HoldingKept ==
    ASSUME NEW v, NEW k, UNCHANGED storeVars, UNCHANGED pending
    PROVE  Holding(v, k)' <=> Holding(v, k)
  BY DEF Holding, Prefix, Received, At, storeVars

(* Handing the block over makes good what was promised.                    *)
LEMMA WriteExtends ==
    ASSUME InRange, WriteBlock, NEW v \in Versions, NEW k \in 1..LargestImage, Holding(v, k)
    PROVE  Holding(v, k)'
  <1>1. PICK piece \in pending :
            /\ Fits(piece) /\ pending' = {}
            /\ \/ /\ Len(filled) + 1 < SectorPieces
                  /\ filled' = Append(filled, piece)
                  /\ UNCHANGED <<writtenTo, slot>>
               \/ /\ Len(filled) + 1 = SectorPieces
                  /\ slot' = Flushed(Append(filled, piece))
                  /\ writtenTo' = writtenTo + SectorPieces
                  /\ filled' = <<>>
    BY DEF WriteBlock
  <1>2. healthy /\ piece.index = writtenTo + Len(filled) /\ pending # {}
    BY <1>1 DEF Fits
  <1>3. pending = {Piece(v, k - 1)} /\ (Prefix(v, k - 1) \/ Received # k - 1)
    BY <1>2 DEF Holding
  <1>4. piece = Piece(v, k - 1) /\ piece.index = k - 1
    BY <1>3 DEF Piece
  <1>5. Received = k - 1 /\ \A i \in 0..(k - 1 - 1) : At(i) = Piece(v, i)
    BY <1>2, <1>3, <1>4 DEF Received, Prefix
  <1>6. /\ writtenTo \in Nat /\ Len(filled) \in Nat /\ writtenTo + Len(filled) = k - 1
        /\ SectorPieces \in Nat /\ SectorPieces >= 1 /\ LargestImage \in Nat
    BY <1>5, Bounds, LargestIs DEF InRange, StoreOK, Received
  <1> DEFINE more == Append(filled, piece)
  <1>7. more \in Seq(Pieces) /\ Len(more) = Len(filled) + 1
    BY AppendedPiece
  <1>8. ASSUME NEW i \in 0..(k - 1)
        PROVE  Piece(v, i) = IF i < writtenTo THEN slot[i] ELSE more[i - writtenTo + 1]
    <2>1. CASE i < k - 1
      <3>1. i \in 0..(k - 1 - 1)
        BY <2>1
      <3>2. At(i) = Piece(v, i)
        BY <1>5, <3>1
      <3>3. ~(i < writtenTo) => i - writtenTo + 1 \in 1..Len(filled)
        BY <1>6, <2>1
      <3>4. \A j \in 1..Len(filled) : more[j] = filled[j]
        BY AppendProperties DEF InRange, StoreOK
      <3> QED
        BY <3>2, <3>3, <3>4 DEF At
    <2>2. CASE ~(i < k - 1)
      <3>1. i = k - 1 /\ ~(i < writtenTo) /\ i - writtenTo + 1 = Len(filled) + 1
        BY <1>6, <2>2
      <3>2. more[Len(filled) + 1] = piece
        BY AppendProperties DEF InRange, StoreOK
      <3> QED
        BY <1>4, <3>1, <3>2
    <2> QED
      BY <2>1, <2>2
  <1> HIDE DEF more
  <1>9. Prefix(v, k)'
    <2>1. CASE filled' = more /\ UNCHANGED <<writtenTo, slot>>
      <3>1. writtenTo + Len(more) = k
        BY <1>6, <1>7
      <3>2. Received' = k
        BY <2>1, <3>1 DEF Received
      <3>3. \A i \in 0..(k - 1) : At(i)' = Piece(v, i)
        BY <1>8, <2>1 DEF At
      <3> QED
        BY <3>2, <3>3 DEF Prefix
    <2>2. CASE /\ Len(filled) + 1 = SectorPieces /\ slot' = Flushed(more)
               /\ writtenTo' = writtenTo + SectorPieces /\ filled' = <<>>
      <3>1. Len(more) = SectorPieces /\ writtenTo + SectorPieces = k /\ writtenTo + Len(more) = k
        BY <1>6, <1>7, <2>2
      <3>2. Received' = k
        <4>1. Len(filled') = 0 /\ writtenTo' = k /\ k + 0 = k
          BY <2>2, <3>1
        <4> QED
          BY <4>1 DEF Received
      <3>3. ASSUME NEW i \in 0..(k - 1)
            PROVE  At(i)' = Piece(v, i)
        <4>1. i \in 0..(LargestImage - 1) /\ i < k
          BY <1>6
        <4>2. Flushed(more)[i] = IF i < writtenTo THEN slot[i] ELSE more[i - writtenTo + 1]
          BY <1>7, <3>1, <4>1, FlushedAt
        <4>3. At(i)' = slot'[i]
          BY <2>2, <3>1, <4>1 DEF At
        <4> QED
          BY <1>8, <2>2, <4>2, <4>3
      <3> QED
        BY <3>2, <3>3 DEF Prefix
    <2> QED
      BY <1>1, <2>1, <2>2 DEF more
  <1> QED
    BY <1>1, <1>9 DEF Holding

(* The tail goes to the slot, and the slot is the image.                   *)
LEMMA ActivatedWhole ==
    ASSUME InRange, NEW v \in Versions, Prefix(v, SizeOf[v]),
           running' = IF filled = <<>> THEN slot ELSE Flushed(filled)
    PROVE  WholeImage'
  <1>1. /\ writtenTo \in Nat /\ filled \in Seq(Pieces) /\ Len(filled) \in Nat
        /\ Len(filled) <= SectorPieces /\ SizeOf[v] \in Nat /\ SizeOf[v] <= LargestImage
        /\ LargestImage \in Nat
    BY Bounds, LargestIs DEF InRange, StoreOK
  <1>2. writtenTo + Len(filled) = SizeOf[v] /\ \A i \in 0..(SizeOf[v] - 1) : At(i) = Piece(v, i)
    BY DEF Prefix, Received
  <1>3. ASSUME NEW i \in 0..(SizeOf[v] - 1)
        PROVE  running'[i] = Piece(v, i)
    <2>1. i \in 0..(LargestImage - 1) /\ i < writtenTo + Len(filled)
      BY <1>1, <1>2
    <2>2. Piece(v, i) = IF i < writtenTo THEN slot[i] ELSE filled[i - writtenTo + 1]
      BY <1>2 DEF At
    <2>3. CASE filled = <<>>
      <3>1. i < writtenTo
        BY <1>1, <2>1, <2>3
      <3> QED
        BY <2>2, <2>3, <3>1
    <2>4. CASE filled # <<>>
      BY <1>1, <2>1, <2>2, <2>4, FlushedAt
    <2> QED
      BY <2>3, <2>4
  <1>4. Holds(running', v)
    BY <1>3 DEF Holds
  <1> QED
    BY <1>4 DEF WholeImage, Whole
(* A restart remembers nothing that could disagree.                        *)
LEMMA RestartFollows ==
    ASSUME Booted, WholeImage'
    PROVE  Together'
  <1>1. /\ phase' = "Querying" /\ pending' = {} /\ stage' = "receive"
        /\ events' = <<>> /\ outbox' = <<>> /\ Len(<<>>) = 0
    BY DEF Booted
  <1>2. 1..Len(events') = {} /\ 1..Len(outbox') = {} /\ Len(outbox') = 0
    BY <1>1
  <1>3. ~Downloads' /\ \A e : ~Has(e)'
    BY <1>1, <1>2 DEF Downloads, Has
  <1>4. Staged' /\ OneWaits'
    BY <1>1, <1>2 DEF Staged, OneWaits
  <1>5. Asking' /\ Followed'
    BY <1>2, <1>3 DEF Asking, Followed
  <1>6. Announced' /\ Ended' /\ InTurn'
    BY <1>2, <1>3 DEF Announced, Ended, InTurn
  <1> QED
    BY <1>4, <1>5, <1>6 DEF Together

LEMMA FollowsInit ==
    Init => Together
  <1> SUFFICES ASSUME Init PROVE Together
    OBVIOUS
  <1>1. /\ phase = "Querying" /\ pending = {} /\ stage = "receive"
        /\ events = <<>> /\ outbox = <<>> /\ Len(<<>>) = 0 /\ running = Image(Running)
    BY DEF Init
  <1>2. 1..Len(events) = {} /\ 1..Len(outbox) = {} /\ Len(outbox) = 0
    BY <1>1
  <1>3. ~Downloads /\ \A e : ~Has(e)
    BY <1>1, <1>2 DEF Downloads, Has
  <1>4. Staged /\ OneWaits
    BY <1>1, <1>2 DEF Staged, OneWaits
  <1>5. Asking /\ Followed
    BY <1>2, <1>3 DEF Asking, Followed
  <1>6. Announced /\ Ended /\ InTurn
    BY <1>2, <1>3 DEF Announced, Ended, InTurn
  <1>7. WholeImage
    <2>1. Holds(Image(Running), Running)
      BY BlankIs, Bounds DEF Holds
    <2> QED
      BY <1>1, <2>1, Bounds DEF WholeImage, Whole
  <1> QED
    BY <1>4, <1>5, <1>6, <1>7 DEF Together

LEMMA TickFollows ==
    ASSUME Following, Tick
    PROVE  Together'
  <1>1. /\ stage = "receive" /\ stage' = "blocks"
        /\ UNCHANGED <<phase, offered, at, size, taken, pending, events,
                       storeVars, running, serverVars>>
    BY DEF Tick, TickWaits, TickHoldsBack, TickAsks, Ticked
  <1>2. Len(outbox) = 0 /\ outbox \in Seq(Messages) /\ Downloads' = Downloads
    BY <1>1 DEF Following, Together, InRange, MessagesOK, Staged, Downloads
  <1>3. \A e : Has(e)' <=> Has(e)
    BY <1>1 DEF Has
  <1>4. ASSUME NEW j \in 1..Len(outbox'), outbox'[j].kind = "block"
        PROVE  outbox'[j].version = offered /\ outbox'[j].at = at
    <2>1. CASE outbox' = outbox
      BY <1>2, <1>4, <2>1
    <2>2. CASE \E m \in {Query, BlockRequest, End("success")} : outbox' = Append(outbox, m)
      <3>1. PICK m \in {Query, BlockRequest, End("success")} : outbox' = Append(outbox, m)
        BY <2>2
      <3>2. m \in Messages
        BY SentIsMessage DEF Following
      <3>3. Len(outbox') = 1 /\ outbox'[1] = m
        BY <1>2, <3>1, <3>2, AppendProperties
      <3>4. j = 1
        BY <3>3
      <3> QED
        BY <1>4, <3>3, <3>4 DEF Query, BlockRequest, End
    <2>3. outbox' = outbox \/ \E m \in {Query, BlockRequest, End("success")} : outbox' = Append(outbox, m)
      <3>1. CASE TickWaits \/ TickHoldsBack
        BY <3>1 DEF TickWaits, TickHoldsBack
      <3>2. CASE TickAsks
        <4>1. phase \in {"Querying", "Downloading", "Finishing"}
          BY <3>2 DEF TickAsks, Following, InRange, ClientOK
        <4> QED
          BY <3>2, <4>1 DEF TickAsks
      <3> QED
        BY <3>1, <3>2 DEF Tick
    <2> QED
      BY <2>1, <2>2, <2>3
  <1>5. Asking'
    <2>1. requests' = requests /\ at' = at /\ offered' = offered
      BY <1>1 DEF serverVars
    <2> QED
      BY <1>2, <1>4, <2>1 DEF Following, Together, Asking, Fresh
  <1>6. Staged' /\ OneWaits'
    BY <1>1 DEF Staged, OneWaits
  <1>7. Announced'
    BY <1>1, <1>3 DEF Following, Together, Announced
  <1>8. Ended' /\ Followed'
    BY <1>1, <1>2, <1>3, HoldingKept DEF Following, Together, Ended, Followed
  <1>9. InTurn' /\ WholeImage'
    BY <1>1 DEF Following, Together, InTurn, WholeImage
  <1> QED
    BY <1>5, <1>6, <1>7, <1>8, <1>9 DEF Together

LEMMA WriteFollows ==
    ASSUME Following, WriteBlock
    PROVE  Together'
  <1>1. /\ stage = "blocks" /\ pending # {} /\ pending' = {}
        /\ UNCHANGED <<phase, offered, at, size, taken, due, asked, queueVars,
                       loopVars, healthy, running, serverVars>>
    BY DEF WriteBlock
  <1>2. stage' = "blocks" /\ events' = events /\ outbox' = outbox /\ requests' = requests
    BY <1>1 DEF queueVars, loopVars, serverVars
  <1>3. Downloads' = Downloads /\ \A e : Has(e)' <=> Has(e)
    BY <1>1, <1>2 DEF Downloads, Has
  <1>4. ~Has("Offered")
    BY <1>1 DEF Following, Together, Announced
  <1>5. Staged' /\ OneWaits' /\ Announced'
    BY <1>2, <1>3, <1>4 DEF Staged, OneWaits, Announced
  <1>6. Asking'
    BY <1>1, <1>2, <1>3 DEF Following, Together, Asking, Fresh
  <1>7. Ended'
    <2>1. ASSUME NEW v \in Versions, Holding(v, SizeOf[v])
          PROVE  Holding(v, SizeOf[v])'
      <3>1. SizeOf[v] \in 1..LargestImage
        BY Bounds, LargestIs
      <3> QED
        BY <2>1, <3>1, WriteExtends DEF Following
    <2> QED
      BY <1>2, <1>3, <2>1 DEF Following, Together, Ended
  <1>8. Followed'
    <2>1. ASSUME Downloads, size # 0
          PROVE  Holding(offered, taken)'
      <3>1. Holding(offered, taken) /\ taken >= 1
        BY <2>1 DEF Following, Together, Followed
      <3>2. offered \in Versions /\ taken \in 1..LargestImage
        BY <3>1, LargestIs DEF Following, InRange, ClientOK
      <3>3. \A v \in Versions, k \in 1..LargestImage : Holding(v, k) => Holding(v, k)'
        BY WriteExtends DEF Following
      <3>4. offered' = offered /\ taken' = taken
        BY <1>1
      <3> QED
        BY <3>1, <3>2, <3>3, <3>4 DEF Holding, Prefix
    <2> QED
      BY <1>1, <1>3, <2>1 DEF Following, Together, Followed
  <1>9. InTurn' /\ WholeImage'
    BY <1>1, <1>2 DEF Following, Together, InTurn, WholeImage
  <1> QED
    BY <1>5, <1>6, <1>7, <1>8, <1>9 DEF Together
LEMMA RefusalFollows ==
    ASSUME Following, RefuseWrite
    PROVE  Together'
  <1>1. /\ stage = "blocks" /\ pending # {} /\ pending' = {} /\ healthy' = FALSE
        /\ \/ UNCHANGED <<phase, offered, at, size, taken, due, asked, queueVars>>
           \/ /\ Stop
              /\ outbox' = Append(outbox, End("abort"))
              /\ events' = Raised(<<"Abandoned">>)
        /\ UNCHANGED <<loopVars, writtenTo, running, serverVars>>
    BY DEF RefuseWrite
  <1>2. stage' = "blocks" /\ requests' = requests /\ offered' = offered /\ at' = at
    BY <1>1 DEF loopVars, serverVars, Stop
  <1>3. ~Has("Offered")
    BY <1>1 DEF Following, Together, Announced
  <1>4. \A e \in {"Offered", "Ready"} : Has(e)' => Has(e)
    <2>1. CASE UNCHANGED queueVars
      BY <2>1 DEF Has, queueVars
    <2>2. CASE events' = Raised(<<"Abandoned">>)
      <3> DEFINE more == <<"Abandoned">>
      <3>1. more \in Seq(News) /\ \A i \in 1..Len(more) : more[i] = "Abandoned"
        BY NewsFacts
      <3>2. events' = Raised(more)
        BY <2>2
      <3> HIDE DEF more
      <3> QED
        BY <3>1, <3>2, RaisedHas DEF Following, InRange
    <2> QED
      BY <1>1, <2>1, <2>2
  <1>5. InTurn'
    <2>1. CASE UNCHANGED queueVars
      BY <2>1 DEF Following, Together, InTurn, queueVars
    <2>2. CASE events' = Raised(<<"Abandoned">>)
      <3> DEFINE more == <<"Abandoned">>
      <3>1. more \in Seq(News) /\ \A i \in 1..Len(more) : more[i] # "Ready"
        BY NewsFacts
      <3>2. events' = Raised(more)
        BY <2>2
      <3> HIDE DEF more
      <3> QED
        BY <3>1, <3>2, RaisedInTurn DEF Following, Together, InRange
    <2> QED
      BY <1>1, <2>1, <2>2
  <1>6. Asking'
    <2>1. Downloads' => Downloads
      BY <1>1 DEF Stop, Downloads
    <2>2. ASSUME NEW j \in 1..Len(outbox'), outbox'[j].kind = "block"
          PROVE  outbox'[j].version = offered /\ outbox'[j].at = at
      <3>1. CASE UNCHANGED queueVars
        BY <2>2, <3>1 DEF Following, Together, Asking, queueVars
      <3>2. CASE outbox' = Append(outbox, End("abort"))
        <4>1. End("abort") \in Messages /\ End("abort").kind # "block"
          BY SentIsMessage DEF Following, End
        <4>2. outbox \in Seq(Messages)
          BY DEF Following, InRange, MessagesOK
        <4>3. /\ Len(outbox') = Len(outbox) + 1 /\ Len(outbox) \in Nat
              /\ \A i \in 1..Len(outbox) : outbox'[i] = outbox[i]
              /\ outbox'[Len(outbox) + 1] = End("abort")
          BY <3>2, <4>1, <4>2, AppendProperties
        <4>4. j \in 1..Len(outbox) \/ j = Len(outbox) + 1
          BY <4>3
        <4> QED
          BY <2>2, <4>1, <4>3, <4>4 DEF Following, Together, Asking
      <3> QED
        BY <1>1, <3>1, <3>2
    <2> QED
      BY <1>2, <2>1, <2>2 DEF Following, Together, Asking, Fresh
  <1>7. Staged' /\ OneWaits' /\ Announced'
    BY <1>2, <1>3, <1>4 DEF Staged, OneWaits, Announced
  <1>8. \A v, k : Holding(v, k)'
    BY <1>1 DEF Holding
  <1>9. Ended'
    BY <1>2, <1>8, Bounds DEF Ended
  <1>10. Followed'
    <2>1. CASE UNCHANGED <<phase, offered, at, size, taken>>
      BY <1>8, <2>1 DEF Following, Together, Followed, Downloads
    <2>2. CASE Stop
      BY <2>2 DEF Stop, Followed, Downloads
    <2> QED
      BY <1>1, <2>1, <2>2
  <1>11. WholeImage'
    BY <1>1 DEF Following, Together, WholeImage
  <1> QED
    BY <1>5, <1>6, <1>7, <1>9, <1>10, <1>11 DEF Together

(* The loop goes on from one stage to the next.                            *)
LEMMA StageFollows ==
    ASSUME Following, BlocksTaken \/ Transmitted \/ TurnOver
    PROVE  Together'
  <1>1. /\ UNCHANGED <<clientVars, queueVars, handled, storeVars, running, serverVars>>
        /\ \/ stage = "blocks" /\ pending = {} /\ stage' = "transmit"
           \/ stage = "transmit" /\ outbox = <<>> /\ stage' = "events"
           \/ stage = "events" /\ events = <<>> /\ stage' = "receive"
    BY DEF BlocksTaken, Transmitted, TurnOver
  <1>2. /\ UNCHANGED <<phase, offered, at, size, taken, pending, events, outbox, requests, running>>
        /\ UNCHANGED storeVars
    BY <1>1 DEF clientVars, queueVars, serverVars
  <1>3. Downloads' = Downloads /\ \A e : Has(e)' <=> Has(e)
    BY <1>2 DEF Downloads, Has
  <1>4. stage' = "receive" => pending = {} /\ Len(outbox) = 0 /\ \A e : ~Has(e)
    BY <1>1 DEF Following, Together, Staged, Has
  <1>5. Staged'
    <2>1. Len(<<>>) = 0
      OBVIOUS
    <2> QED
      BY <1>1, <1>2, <1>4, <2>1 DEF Following, Together, Staged
  <1>6. OneWaits' /\ Announced'
    BY <1>2, <1>3, <1>4 DEF Following, Together, OneWaits, Announced
  <1>7. Asking'
    BY <1>2, <1>3 DEF Following, Together, Asking, Fresh
  <1>8. Ended' /\ Followed'
    BY <1>2, <1>3, <1>4, HoldingKept DEF Following, Together, Ended, Followed
  <1>9. InTurn' /\ WholeImage'
    BY <1>2 DEF Following, Together, InTurn, WholeImage
  <1> QED
    BY <1>5, <1>6, <1>7, <1>8, <1>9 DEF Together

LEMMA TransmitFollows ==
    ASSUME Following, AnswersInOrder, Reaches \/ IsLost
    PROVE  Together'
  <1>1. /\ stage = "transmit" /\ stage' = "transmit" /\ outbox # <<>> /\ outbox' = Tail(outbox)
        /\ UNCHANGED <<phase, offered, at, size, taken, pending, events, running>>
        /\ UNCHANGED storeVars
        /\ \/ Len(requests) < InFlight /\ requests' = Append(requests, Head(outbox))
           \/ requests' = requests
    BY DEF Reaches, IsLost, clientVars, loopVars, serverVars
  <1>2. Downloads' = Downloads /\ \A e : Has(e)' <=> Has(e)
    BY <1>1 DEF Downloads, Has
  <1>3. /\ outbox \in Seq(Messages) /\ Len(outbox) \in Nat /\ Len(outbox) >= 1
        /\ Head(outbox) = outbox[1] /\ Head(outbox) \in Messages
        /\ Len(Tail(outbox)) = Len(outbox) - 1
        /\ \A i \in 1..Len(Tail(outbox)) : Tail(outbox)[i] = outbox[i + 1]
    <2>1. outbox \in Seq(Messages)
      BY DEF Following, InRange, MessagesOK
    <2> QED
      BY <1>1, <2>1, HeadTailProperties
  <1>4. Fresh(Head(outbox))
    <2>1. 1 \in 1..Len(outbox)
      BY <1>3
    <2>2. outbox[1].kind = "block" => outbox[1].version = offered /\ outbox[1].at = at
      BY <2>1 DEF Following, Together, Asking
    <2>3. at <= at
      BY DEF Following, InRange, ClientOK
    <2> QED
      BY <1>3, <2>2, <2>3 DEF Fresh
  <1>5. Asking'
    <2>1. ASSUME NEW j \in 1..Len(outbox'), outbox'[j].kind = "block"
          PROVE  outbox'[j].version = offered /\ outbox'[j].at = at
      <3>1. j + 1 \in 1..Len(outbox) /\ outbox'[j] = outbox[j + 1]
        BY <1>1, <1>3
      <3> QED
        BY <2>1, <3>1 DEF Following, Together, Asking
    <2>2. ASSUME Downloads
          PROVE  /\ Len(requests') >= 1 => Fresh(requests'[1]) \/ at = 0
                 /\ Len(requests') >= 2 => Fresh(requests'[2])
      <3>1. /\ Len(requests) >= 1 => Fresh(requests[1]) \/ at = 0
            /\ Len(requests) >= 2 => Fresh(requests[2])
        BY <2>2 DEF Following, Together, Asking
      <3>2. CASE requests' = requests
        BY <3>1, <3>2
      <3>3. CASE Len(requests) < InFlight /\ requests' = Append(requests, Head(outbox))
        <4>1. requests \in Seq(Messages) /\ Len(requests) \in Nat /\ Len(requests) < 2
          BY <3>3, Bounds DEF AnswersInOrder, Following, InRange, MessagesOK
        <4>2. /\ Len(requests') = Len(requests) + 1
              /\ \A i \in 1..Len(requests) : requests'[i] = requests[i]
              /\ requests'[Len(requests) + 1] = Head(outbox)
          BY <1>3, <3>3, <4>1, AppendProperties
        <4>3. Len(requests) = 0 \/ Len(requests) = 1
          <5>1. \A n \in Nat : n < 2 => n = 0 \/ n = 1
            OBVIOUS
          <5> QED
            BY <4>1, <5>1
        <4>4. CASE Len(requests) = 0
          BY <1>4, <4>2, <4>4
        <4>5. CASE Len(requests) = 1
          <5>1. requests'[1] = requests[1] /\ requests'[2] = Head(outbox)
            BY <4>2, <4>5
          <5> QED
            BY <1>4, <3>1, <4>2, <4>5, <5>1
        <4> QED
          BY <4>3, <4>4, <4>5
      <3> QED
        BY <1>1, <3>2, <3>3
    <2> QED
      BY <1>1, <1>2, <2>1, <2>2 DEF Asking, Fresh
  <1>6. Staged' /\ OneWaits'
    BY <1>1 DEF Following, Together, Staged, OneWaits
  <1>7. Announced'
    BY <1>1, <1>2 DEF Following, Together, Announced
  <1>8. Ended' /\ Followed'
    BY <1>1, <1>2, HoldingKept DEF Following, Together, Ended, Followed
  <1>9. InTurn' /\ WholeImage'
    BY <1>1 DEF Following, Together, InTurn, WholeImage
  <1> QED
    BY <1>5, <1>6, <1>7, <1>8, <1>9 DEF Together

(* The loop takes an event.                                                *)
LEMMA EventFollows ==
    ASSUME Following, BeginFirmware \/ AbandonFirmware \/ NoteEvent \/ ActivationFails
    PROVE  Together'
  <1>1. /\ stage = "events" /\ stage' = "events" /\ events # <<>> /\ events' = Tail(events)
        /\ UNCHANGED <<phase, offered, at, size, taken, pending, outbox, requests, running>>
    BY DEF BeginFirmware, AbandonFirmware, NoteEvent, ActivationFails, TakeEvent,
           clientVars, loopVars, serverVars
  <1>2. /\ \A e : Has(e)' => Has(e)
        /\ InTurn'
        /\ Head(events) = "Offered" => ~Has("Ready")'
    BY <1>1, TailHas DEF Following, Together, InRange
  <1>3. Downloads' = Downloads
    BY <1>1 DEF Downloads
  <1>4. Staged' /\ OneWaits' /\ Asking' /\ WholeImage'
    BY <1>1, <1>3 DEF Following, Together, Staged, OneWaits, Asking, Fresh, WholeImage
  <1>5. Announced'
    BY <1>1, <1>2 DEF Following, Together, Announced
  <1>6. CASE BeginFirmware
    <2>1. Head(events) = "Offered"
      BY <1>6 DEF BeginFirmware, TakeEvent
    <2>2. size = 0
      <3>1. 1 \in 1..Len(events) /\ events[1] = "Offered"
        BY <1>1, <2>1 DEF Following, InRange, MessagesOK
      <3> QED
        BY <3>1 DEF Following, Together, Announced, Has
    <2>3. Followed'
      BY <1>1, <1>3, <2>2 DEF Following, Together, Followed
    <2>4. Ended'
      BY <1>2, <2>1 DEF Ended
    <2> QED
      BY <1>2, <1>4, <1>5, <2>3, <2>4 DEF Together
  <1>7. CASE UNCHANGED storeVars
    <2>1. Ended' /\ Followed'
      BY <1>1, <1>2, <1>3, <1>7, HoldingKept DEF Following, Together, Ended, Followed
    <2> QED
      BY <1>2, <1>4, <1>5, <2>1 DEF Together
  <1>8. CASE healthy' = FALSE
    <2>1. \A v, k : Holding(v, k)'
      BY <1>8 DEF Holding
    <2>2. Ended' /\ Followed'
      BY <1>1, <1>2, <1>3, <2>1, Bounds DEF Following, Together, Ended, Followed
    <2> QED
      BY <1>2, <1>4, <1>5, <2>2 DEF Together
  <1>9. BeginFirmware \/ UNCHANGED storeVars \/ healthy' = FALSE
    BY DEF AbandonFirmware, NoteEvent, ActivationFails
  <1> QED
    BY <1>6, <1>7, <1>8, <1>9

(* Only what was held whole is activated.                                  *)
LEMMA ActivationFollows ==
    ASSUME Following, ActivateFirmware
    PROVE  Together'
  <1>1. /\ stage = "events" /\ events # <<>> /\ Head(events) = "Ready" /\ healthy
        /\ running' = IF filled = <<>> THEN slot ELSE Flushed(filled)
        /\ Booted
    BY DEF ActivateFirmware
  <1>2. Has("Ready")
    <2>1. 1 \in 1..Len(events) /\ events[1] = "Ready"
      BY <1>1 DEF Following, InRange, MessagesOK
    <2> QED
      BY <2>1 DEF Has
  <1>3. pending = {}
    BY <1>1 DEF Following, Together, Staged
  <1>4. PICK v \in Versions : Holding(v, SizeOf[v])
    BY <1>2 DEF Following, Together, Ended
  <1>5. Prefix(v, SizeOf[v])
    BY <1>1, <1>3, <1>4 DEF Holding
  <1>6. WholeImage'
    BY <1>1, <1>5, ActivatedWhole DEF Following
  <1> QED
    BY <1>1, <1>6, RestartFollows
(* A request is gone, answered or not.                                     *)
Gone(i) ==
    /\ stage = "receive" /\ requests' = RemoveAt(requests, i)
    /\ UNCHANGED <<outbox, stage, storeVars, running>>

LEMMA AnsweredIsGone ==
    ASSUME NEW i, Answering(i)
    PROVE  Gone(i)
  BY DEF Answering, Gone

(* An answer finds the outbox empty and its request at the front.          *)
LEMMA AnswerTakes ==
    ASSUME Following, AnswersInOrder, NEW i \in Answerable, Gone(i)
    PROVE  /\ i = 1 /\ Len(requests) \in {1, 2}
           /\ Len(requests') = Len(requests) - 1
           /\ Len(requests) = 2 => requests'[1] = requests[2]
           /\ stage = "receive" /\ stage' = "receive" /\ Len(outbox') = 0
           /\ outbox' = outbox /\ running' = running /\ UNCHANGED storeVars
  <1>1. /\ requests' = RemoveAt(requests, i) /\ stage = "receive"
        /\ UNCHANGED <<outbox, stage, storeVars, running>>
    BY DEF Gone
  <1>2. Len(outbox) = 0
    BY <1>1 DEF Following, Together, Staged
  <1> QED
    BY <1>1, <1>2, FirstAnswered DEF Following

(* What an answer owes the invariant where it leaves the store alone.      *)
LEMMA AnswerFollows ==
    ASSUME Following, AnswersInOrder, NEW i \in Answerable, Gone(i),
           OneWaits', Announced', Ended', Followed', InTurn',
           Downloads' /\ Len(requests') >= 1 => Fresh(requests[1])' \/ at' = 0
    PROVE  Together'
  <1>1. /\ Len(requests) \in {1, 2} /\ Len(requests') = Len(requests) - 1
        /\ stage' = "receive" /\ Len(outbox') = 0 /\ running' = running
    BY AnswerTakes
  <1>2. ~(Len(requests') >= 2) /\ 1..Len(outbox') = {}
    BY <1>1
  <1>3. Asking'
    BY <1>2 DEF Asking
  <1>4. Staged'
    BY <1>1 DEF Staged
  <1>5. WholeImage'
    BY <1>1 DEF Following, Together, WholeImage
  <1> QED
    BY <1>3, <1>4, <1>5 DEF Together

LEMMA OfferFollows ==
    ASSUME Following, AnswersInOrder, NEW i \in Answerable, Gone(i),
           NEW v \in Versions, OnOffer(v)
    PROVE  Together'
  <1>1. /\ Len(requests) \in {1, 2} /\ Len(requests') = Len(requests) - 1
        /\ stage = "receive" /\ UNCHANGED storeVars
    BY AnswerTakes
  <1>2. /\ phase = "Querying" /\ phase' = "Downloading" /\ at' = 0 /\ size' = 0 /\ taken' = 0
        /\ events' = Raised(<<"Offered">>) /\ pending' = pending
    BY DEF OnOffer
  <1>3. pending = {}
    BY <1>1, <1>2 DEF Following, Together, OneWaits, Downloads
  <1>4. InTurn' /\ (Has("Ready")' => Has("Ready"))
    <2> DEFINE more == <<"Offered">>
    <2>1. more \in Seq(News) /\ \A j \in 1..Len(more) : more[j] = "Offered"
      BY NewsFacts
    <2>2. events' = Raised(more)
      BY <1>2
    <2> HIDE DEF more
    <2>3. \A j \in 1..Len(more) : more[j] # "Ready"
      BY <2>1
    <2> QED
      BY <2>1, <2>2, <2>3, RaisedHas, RaisedInTurn DEF Following, Together, InRange
  <1>5. Len(requests') \in {0, 1}
    BY <1>1
  <1>6. OneWaits' /\ Announced'
    <2>1. Len(requests') <= 1
      BY <1>5, FewAre
    <2>2. OneWaits'
      BY <1>2, <1>3 DEF OneWaits
    <2>3. Announced'
      BY <1>2, <1>3, <2>1 DEF Announced
    <2> QED
      BY <2>2, <2>3
  <1>7. Ended'
    <2>1. Has("Ready") => Len(requests) <= 1
      BY <1>1 DEF Following, Together, Ended
    <2>2. Has("Ready") => Len(requests') = 0
      BY <1>1, <2>1
    <2> QED
      BY <1>1, <1>2, <1>4, <2>2, HoldingKept DEF Following, Together, Ended
  <1>8. Followed'
    BY <1>2, Bounds DEF Followed
  <1> QED
    BY <1>2, <1>4, <1>6, <1>7, <1>8, AnswerFollows

(* An answer that only ends something, or nothing.                         *)
LEMMA ShorterFollows ==
    ASSUME Following, AnswersInOrder, Len(requests) \in {1, 2},
           Len(requests') = Len(requests) - 1, Len(requests) = 2 => requests'[1] = requests[2],
           stage' = stage, pending' = pending, at' = at,
           \/ UNCHANGED <<phase, offered, size, taken>>
           \/ ~Downloads' /\ size' = 0 /\ taken' = 0,
           \A e \in {"Offered", "Ready"} : Has(e)' => Has(e),
           UNCHANGED storeVars
    PROVE  /\ OneWaits' /\ Announced' /\ Ended' /\ Followed'
           /\ Downloads' /\ Len(requests') >= 1 => Fresh(requests[1])' \/ at' = 0
  <1>1. Len(requests') \in {0, 1} /\ (Len(requests) <= 1 => Len(requests') = 0)
    OBVIOUS
  <1>2. Len(requests') <= 1 /\ (Len(requests') >= 1 => Len(requests) = 2)
    <2>1. Len(requests') <= 1
      BY <1>1, FewAre
    <2>2. Len(requests') >= 1 => Len(requests') = 1
      BY <1>1, FewAre
    <2>3. Len(requests') = 1 => Len(requests) = 2
      OBVIOUS
    <2> QED
      BY <2>1, <2>2, <2>3
  <1>3. Downloads' => Downloads /\ UNCHANGED <<phase, offered, size, taken>>
    BY DEF Downloads
  <1>4. OneWaits'
    <2>1. ASSUME stage' = "receive", pending' # {}
          PROVE  Len(requests') = 0
      BY <1>1, <2>1 DEF Following, Together, OneWaits
    <2> QED
      BY <1>2, <2>1 DEF OneWaits
  <1>5. Announced'
    <2>1. ASSUME Has("Offered")'
          PROVE  /\ pending' = {} /\ size' = 0 /\ taken' = 0 /\ phase' # "Finishing"
                 /\ stage' = "receive" => Len(requests') = 0
      <3>1. /\ pending = {} /\ size = 0 /\ taken = 0 /\ phase # "Finishing"
            /\ stage = "receive" => Len(requests) <= 1
        BY <2>1 DEF Following, Together, Announced
      <3>2. stage' = "receive" => Len(requests') = 0
        BY <1>1, <3>1
      <3>3. size' = 0 /\ taken' = 0 /\ phase' # "Finishing"
        BY <3>1 DEF Downloads
      <3> QED
        BY <3>1, <3>2, <3>3
    <2> QED
      BY <1>2, <2>1 DEF Announced
  <1>6. Ended'
    <2>1. ASSUME Has("Ready")'
          PROVE  /\ stage' = "receive" => Len(requests') <= 1 /\ (Downloads' => Len(requests') = 0)
                 /\ \E v \in Versions : Holding(v, SizeOf[v])
      <3>1. /\ stage = "receive" => Len(requests) <= 1
            /\ \E v \in Versions : Holding(v, SizeOf[v])
        BY <2>1 DEF Following, Together, Ended
      <3> QED
        BY <1>1, <1>2, <3>1
    <2> QED
      BY <2>1, HoldingKept DEF Ended
  <1>7. Followed'
    BY <1>3, HoldingKept DEF Following, Together, Followed
  <1>8. ASSUME Downloads', Len(requests') >= 1
        PROVE  Fresh(requests[1])'
    <2>1. Len(requests) = 2 /\ requests'[1] = requests[2] /\ offered' = offered /\ Downloads
      BY <1>2, <1>3, <1>8
    <2>2. Fresh(requests[2])
      <3>1. Len(requests) >= 2
        BY <2>1
      <3> QED
        BY <2>1, <3>1 DEF Following, Together, Asking
    <2> QED
      BY <2>1, <2>2 DEF Fresh
  <1> QED
    BY <1>4, <1>5, <1>6, <1>7, <1>8
(* The block the client is at: of the offered version, if it is of the     *)
(* image at all.                                                           *)
LEMMA BlockFollows ==
    ASSUME Following, AnswersInOrder, NEW i \in Answerable, Gone(i),
           requests[i].kind = "block", OnBlock(requests[i].version, requests[i].at)
    PROVE  Together'
  <1> DEFINE v == requests[1].version
             b == requests[1].at
             d == at - FirstImageBlock
  <1>1. /\ i = 1 /\ Len(requests) \in {1, 2} /\ Len(requests') = Len(requests) - 1
        /\ Len(requests) = 2 => requests'[1] = requests[2]
        /\ stage = "receive" /\ stage' = "receive" /\ UNCHANGED storeVars
    BY AnswerTakes
  <1>2. /\ phase = "Downloading" /\ b = at /\ at' = at + 1
        /\ size' = IF d = 0 THEN SizeOf[v] ELSE size
        /\ \/ d \in 0..(size' - 1) /\ pending' = {Piece(v, d)} /\ taken' = d + 1
           \/ d \notin 0..(size' - 1) /\ pending' = pending /\ taken' = taken
        /\ phase' = IF size' # 0 /\ taken' >= size' THEN "Finishing" ELSE phase
        /\ offered' = offered /\ events' = events
    BY <1>1 DEF OnBlock
  <1>3. /\ at \in Nat /\ size \in Nat /\ taken \in Nat /\ FirstImageBlock \in Nat
        /\ FirstImageBlock >= 1 /\ d \in Int /\ d = at - FirstImageBlock
        /\ offered \in Versions /\ SizeOf[offered] \in Nat /\ SizeOf[offered] >= 1
    BY Bounds DEF Following, InRange, ClientOK, AnswersInOrder
  <1>4. Downloads /\ Downloads'
    BY <1>2 DEF Downloads
  <1>5. at = 0 \/ v = offered
    <2>1. Fresh(requests[1]) \/ at = 0
      <3>1. Len(requests) >= 1
        BY <1>1
      <3> QED
        BY <1>4, <3>1 DEF Following, Together, Asking
    <2> QED
      BY <1>1, <1>2, <2>1 DEF Fresh
  <1>6. pending = {}
    <2>1. ASSUME pending # {}
          PROVE  requests[1].at < at
      <3>1. Len(requests) >= 1
        BY <1>1
      <3> QED
        BY <1>1, <2>1, <3>1 DEF Following, Together, OneWaits
    <2> QED
      BY <1>2, <1>3, <2>1
  <1>7. Len(requests') \in {0, 1} /\ (Len(requests') = 1 => Len(requests) = 2)
        /\ (Len(requests) <= 1 => Len(requests') = 0)
    BY <1>1
  <1>8. \A e : Has(e)' <=> Has(e)
    BY <1>2 DEF Has
  <1>9. Len(requests') >= 1 /\ requests'[1].kind = "block" =>
           requests'[1].at <= at /\ (requests'[1].at = 0 \/ requests'[1].version = offered)
    <2>1. ASSUME Len(requests') >= 1, requests'[1].kind = "block"
          PROVE  requests'[1].at <= at /\ (requests'[1].at = 0 \/ requests'[1].version = offered)
      <3>1. Len(requests') = 1
        BY <1>7, <2>1, FewAre
      <3>2. Len(requests) = 2 /\ requests'[1] = requests[2]
        BY <1>1, <1>7, <3>1
      <3>3. Len(requests) >= 2
        BY <3>2
      <3>4. Fresh(requests[2])
        BY <1>4, <3>3 DEF Following, Together, Asking
      <3> QED
        BY <1>3, <2>1, <3>2, <3>4 DEF Fresh
    <2> QED
      BY <2>1
  <1> HIDE DEF v, b, d
  <1>10. requests'[1].kind = "block" /\ Len(requests') >= 1 => requests'[1].at \in Nat
    <2>1. requests' \in Seq(Messages)
      <3>1. requests \in Seq(Messages) /\ 1 \in 1..Len(requests)
        BY <1>1 DEF Following, InRange, MessagesOK
      <3> QED
        BY <1>1, <3>1, RemovedIs DEF Gone, Following, InRange
    <2>2. Len(requests') >= 1 => requests'[1] \in Messages
      BY <2>1
    <2> QED
      BY <2>2 DEF Messages
  <1>11. Len(requests') >= 1 => Fresh(requests[1])'
    <2>1. ASSUME Len(requests') >= 1, requests'[1].kind = "block"
          PROVE  requests'[1].at = 0 \/ (requests'[1].version = offered' /\ requests'[1].at <= at')
      BY <1>2, <1>3, <1>9, <1>10, <2>1
    <2> QED
      BY <2>1 DEF Fresh
  <1>12. OneWaits'
    <2>1. Len(requests') >= 1 /\ requests'[1].kind = "block" => requests'[1].at < at'
      BY <1>2, <1>3, <1>9, <1>10
    <2>2. Len(requests') <= 1
      BY <1>7, FewAre
    <2> QED
      BY <1>4, <2>1, <2>2 DEF OneWaits
  <1>13. Announced'
    <2>1. ASSUME Has("Offered")
          PROVE  /\ pending' = {} /\ size' = 0 /\ taken' = 0 /\ phase' # "Finishing"
                 /\ Len(requests') = 0
      <3>1. /\ size = 0 /\ taken = 0 /\ Len(requests) <= 1
            /\ Len(requests) = 0 \/ at = 0
        BY <1>1, <2>1 DEF Following, Together, Announced
      <3>2. at = 0
        BY <1>1, <3>1
      <3>3. d # 0 /\ size' = 0
        BY <1>2, <1>3, <3>1, <3>2
      <3>4. d \notin 0..(size' - 1)
        BY <3>3
      <3> QED
        BY <1>2, <1>6, <1>7, <3>1, <3>3, <3>4
    <2>2. Len(requests') <= 1
      BY <1>7, FewAre
    <2> QED
      BY <1>8, <2>1, <2>2 DEF Announced
  <1>14. Ended'
    <2>1. ~Has("Ready")
      <3>1. Has("Ready") => Len(requests) = 0
        BY <1>1, <1>4 DEF Following, Together, Ended
      <3> QED
        BY <1>1, <3>1
    <2> QED
      BY <1>8, <2>1 DEF Ended
  <1>15. InTurn'
    BY <1>2 DEF Following, Together, InTurn
  <1>16. Followed'
    <2>1. CASE size = 0
      <3>1. taken = 0 /\ at <= FirstImageBlock
        BY <1>4, <2>1 DEF Following, Together, Followed
      <3>2. CASE at < FirstImageBlock
        <4>1. d < 0 /\ d # 0
          BY <1>3, <3>2
        <4>2. size' = 0 /\ d \notin 0..(size' - 1)
          BY <1>2, <1>3, <2>1, <4>1
        <4>3. taken' = 0 /\ phase' = "Downloading" /\ at' <= FirstImageBlock
          BY <1>2, <1>3, <3>1, <3>2, <4>2
        <4> QED
          BY <4>2, <4>3 DEF Followed
      <3>3. CASE at = FirstImageBlock
        <4>1. d = 0 /\ v = offered
          BY <1>3, <1>5, <3>3
        <4>2. size' = SizeOf[offered] /\ size' \in Nat /\ size' >= 1
          BY <1>2, <1>3, <4>1
        <4>3. d \in 0..(size' - 1)
          BY <4>1, <4>2
        <4>4. taken' = 1 /\ pending' = {Piece(offered, 0)} /\ at' = FirstImageBlock + 1
          BY <1>2, <1>3, <3>3, <4>1, <4>3
        <4>5. Holding(offered, 1)'
          <5>1. Received' # 1 - 1 \/ Prefix(offered, 1 - 1)'
            BY DEF Prefix
          <5> QED
            BY <1>2, <4>4, <5>1 DEF Holding
        <4>6. IF phase' = "Finishing" THEN taken' = size' ELSE taken' < size'
          BY <1>2, <4>2, <4>4
        <4> QED
          BY <1>2, <4>2, <4>4, <4>5, <4>6 DEF Followed
      <3> QED
        BY <1>3, <3>1, <3>2, <3>3
    <2>2. CASE size # 0
      <3>1. /\ at = FirstImageBlock + taken /\ taken >= 1 /\ size = SizeOf[offered]
            /\ Holding(offered, taken) /\ taken < size
        BY <1>2, <1>4, <2>2 DEF Following, Together, Followed
      <3>2. d = taken /\ d # 0 /\ at # 0
        BY <1>3, <3>1
      <3>3. v = offered /\ size' = size /\ d \in 0..(size' - 1)
        BY <1>2, <1>3, <1>5, <3>1, <3>2
      <3>4. taken' = taken + 1 /\ pending' = {Piece(offered, taken)} /\ at' = FirstImageBlock + (taken + 1)
        BY <1>2, <1>3, <3>1, <3>2, <3>3
      <3>5. Holding(offered, taken)'
        <4>1. healthy => Prefix(offered, taken)
          BY <1>6, <3>1 DEF Holding
        <4>2. PICK w, k : w = offered /\ k = taken
          OBVIOUS
        <4>3. healthy' => Prefix(w, k)'
          BY <1>1, <4>1, <4>2 DEF Prefix, Received, At, storeVars
        <4>4. /\ offered' = w /\ taken' = k + 1 /\ pending' = {Piece(w, k)}
              /\ (k + 1) - 1 = k /\ k + 1 >= 1
          BY <1>2, <1>3, <3>4, <4>2
        <4>5. Holding(w, k + 1)'
          BY <4>3, <4>4 DEF Holding
        <4> QED
          BY <4>4, <4>5 DEF Holding, Prefix
      <3>6. IF phase' = "Finishing" THEN taken' = size' ELSE taken' < size'
        BY <1>2, <1>3, <3>1, <3>3, <3>4
      <3>7. size' = SizeOf[offered'] /\ taken' >= 1 /\ at' = FirstImageBlock + taken'
        BY <1>2, <1>3, <3>1, <3>3, <3>4
      <3> QED
        BY <2>2, <3>3, <3>5, <3>6, <3>7 DEF Followed
    <2> QED
      BY <2>1, <2>2
  <1> QED
    BY <1>11, <1>12, <1>13, <1>14, <1>15, <1>16, AnswerFollows
(* Refused, finished, unwanted or unanswered.                              *)
LEMMA RefusedFollows ==
    ASSUME Following, AnswersInOrder, NEW i \in Answerable, Gone(i),
           \/ OnWait \/ OnRefusal \/ OnNoImage
           \/ UNCHANGED <<clientVars, queueVars>>
    PROVE  Together'
  <1>1. /\ Len(requests) \in {1, 2} /\ Len(requests') = Len(requests) - 1
        /\ Len(requests) = 2 => requests'[1] = requests[2]
        /\ stage' = stage /\ UNCHANGED storeVars
    BY AnswerTakes
  <1>2. /\ pending' = pending /\ at' = at
        /\ \/ UNCHANGED <<phase, offered, size, taken>>
           \/ ~Downloads' /\ size' = 0 /\ taken' = 0
        /\ events' = events \/ events' = Raised(<<"Abandoned">>)
    BY DEF OnWait, OnRefusal, OnNoImage, Stop, Downloads, clientVars, queueVars
  <1>3. InTurn' /\ \A e \in {"Offered", "Ready"} : Has(e)' => Has(e)
    <2>1. CASE events' = events
      BY <2>1 DEF Following, Together, InTurn, Has
    <2>2. CASE events' = Raised(<<"Abandoned">>)
      <3> DEFINE more == <<"Abandoned">>
      <3>1. more \in Seq(News) /\ \A j \in 1..Len(more) : more[j] = "Abandoned"
        BY NewsFacts
      <3>2. events' = Raised(more)
        BY <2>2
      <3> HIDE DEF more
      <3>3. \A j \in 1..Len(more) : more[j] # "Ready"
        BY <3>1
      <3> QED
        BY <3>1, <3>2, <3>3, RaisedHas, RaisedInTurn DEF Following, Together, InRange
    <2> QED
      BY <1>2, <2>1, <2>2
  <1>4. /\ OneWaits' /\ Announced' /\ Ended' /\ Followed'
        /\ Downloads' /\ Len(requests') >= 1 => Fresh(requests[1])' \/ at' = 0
    BY <1>1, <1>2, <1>3, ShorterFollows
  <1> QED
    BY <1>3, <1>4, AnswerFollows

(* The client is told it is done.                                          *)
LEMMA EndFollows ==
    ASSUME Following, AnswersInOrder, NEW i \in Answerable, Gone(i), OnEnd
    PROVE  Together'
  <1>1. /\ Len(requests) \in {1, 2} /\ Len(requests') = Len(requests) - 1
        /\ stage = "receive" /\ UNCHANGED storeVars
    BY AnswerTakes
  <1>2. /\ phase = "Finishing" /\ phase' = "Idle" /\ events' = Raised(<<"Ready">>)
        /\ UNCHANGED <<offered, at, size, taken, pending>>
    BY DEF OnEnd
  <1>3. Downloads /\ ~Downloads'
    BY <1>2 DEF Downloads
  <1>4. ~Has("Offered")
    BY <1>2 DEF Following, Together, Announced
  <1>5. InTurn' /\ ~Has("Offered")'
    <2> DEFINE more == <<"Ready">>
    <2>1. more \in Seq(News) /\ \A j \in 1..Len(more) : more[j] = "Ready"
      BY NewsFacts
    <2>2. events' = Raised(more)
      BY <1>2
    <2> HIDE DEF more
    <2>3. \A j \in 1..Len(more) : more[j] # "Offered"
      BY <2>1
    <2> QED
      BY <1>4, <2>1, <2>2, <2>3, RaisedHas, RaisedInTurn DEF Following, Together, InRange
  <1>6. Len(requests') \in {0, 1} /\ (Len(requests) <= 1 => Len(requests') = 0)
    BY <1>1
  <1>7. Len(requests') <= 1
    BY <1>6, FewAre
  <1>8. OneWaits'
    <2>1. pending # {} => Len(requests) <= 1
      BY <1>1 DEF Following, Together, OneWaits
    <2>2. pending' # {} => Len(requests') = 0
      BY <1>2, <1>6, <2>1
    <2> QED
      BY <1>7, <2>2 DEF OneWaits
  <1>9. Ended'
    <2>1. \E v \in Versions : Holding(v, SizeOf[v])
      <3>1. size # 0 /\ Holding(offered, taken) /\ taken = size /\ size = SizeOf[offered]
        BY <1>2, <1>3 DEF Following, Together, Followed
      <3>2. offered \in Versions
        BY DEF Following, InRange, ClientOK
      <3> QED
        BY <3>1, <3>2
    <2>2. \E v \in Versions : Holding(v, SizeOf[v])'
      BY <1>1, <1>2, <2>1, HoldingKept
    <2> QED
      BY <1>3, <1>7, <2>2 DEF Ended
  <1>10. Announced' /\ Followed'
    BY <1>3, <1>5 DEF Announced, Followed
  <1> QED
    BY <1>3, <1>5, <1>8, <1>9, <1>10, AnswerFollows

LEMMA AnsweredFollows ==
    ASSUME Following, AnswersInOrder, Answer
    PROVE  Together'
  <1>1. CASE AnswerQuery
    <2>1. PICK i \in Answerable : /\ Answering(i)
                                  /\ OnOffer(newest) \/ OnNoImage
      BY <1>1 DEF AnswerQuery
    <2>2. Gone(i) /\ newest \in Versions
      BY <2>1, AnsweredIsGone DEF Following, InRange, MessagesOK
    <2> QED
      BY <2>1, <2>2, OfferFollows, RefusedFollows
  <1>2. CASE AnswerBlock
    <2>1. PICK i \in Answerable : /\ requests[i].kind = "block" /\ Answering(i)
                                  /\ OnBlock(requests[i].version, requests[i].at)
      BY <1>2 DEF AnswerBlock
    <2> QED
      BY <2>1, AnsweredIsGone, BlockFollows
  <1>3. CASE RefuseBlock
    <2>1. PICK i \in Answerable : Answering(i) /\ (OnWait \/ OnRefusal)
      BY <1>3 DEF RefuseBlock
    <2> QED
      BY <2>1, AnsweredIsGone, RefusedFollows
  <1>4. CASE AnswerEnd
    <2>1. PICK i \in Answerable : Answering(i) /\ OnEnd
      BY <1>4 DEF AnswerEnd
    <2> QED
      BY <2>1, AnsweredIsGone, EndFollows
  <1>5. CASE Unanswered
    <2>1. PICK i \in Answerable :
              /\ stage = "receive" /\ requests' = RemoveAt(requests, i)
              /\ UNCHANGED <<clientVars, queueVars, loopVars, storeVars, running, newest>>
      BY <1>5 DEF Unanswered
    <2>2. Gone(i)
      BY <2>1 DEF Gone, queueVars, loopVars
    <2>3. UNCHANGED <<clientVars, queueVars>>
      BY <2>1
    <2> QED
      BY <2>2, <2>3, RefusedFollows
  <1> QED
    BY <1>1, <1>2, <1>3, <1>4, <1>5 DEF Answer

LEMMA NotifyFollows ==
    ASSUME Following, ImageNotify
    PROVE  Together'
  <1>1. /\ ~Downloads /\ phase' = "Querying" /\ stage = "receive" /\ stage' = stage
        /\ UNCHANGED <<offered, at, size, taken, pending, events, outbox, running, requests>>
        /\ UNCHANGED storeVars
    BY DEF ImageNotify, Ask, serverVars
  <1>2. ~Downloads' /\ \A e : Has(e)' <=> Has(e)
    BY <1>1 DEF Downloads, Has
  <1>3. Staged' /\ OneWaits' /\ Asking' /\ Followed'
    BY <1>1, <1>2 DEF Following, Together, Staged, OneWaits, Asking, Followed
  <1>4. Announced'
    <2>1. phase # "Downloading"
      BY <1>1 DEF Downloads
    <2> QED
      BY <1>1, <1>2, <2>1 DEF Following, Together, Announced
  <1>5. Ended'
    BY <1>1, <1>2, HoldingKept DEF Following, Together, Ended
  <1>6. InTurn' /\ WholeImage'
    BY <1>1 DEF Following, Together, InTurn, WholeImage
  <1> QED
    BY <1>3, <1>4, <1>5, <1>6 DEF Together

(* Whatever changes neither client, store nor requests, and raises at most *)
(* what is no news of an update.                                           *)
LEMMA OthersFollow ==
    ASSUME Following, OtherFrame \/ Publish \/ UNCHANGED vars
    PROVE  Together'
  <1>1. /\ UNCHANGED <<phase, offered, at, size, taken, pending, outbox, stage, running, requests>>
        /\ UNCHANGED storeVars
        /\ events' = events \/ \E n \in Notes : events' = Raised([i \in 1..n |-> Note])
    <2>1. CASE OtherFrame
      BY <2>1 DEF OtherFrame, clientVars, serverVars
    <2>2. CASE Publish
      BY <2>2 DEF Publish, clientVars, queueVars, loopVars
    <2>3. CASE UNCHANGED vars
      BY <2>3 DEF vars, clientVars, queueVars, loopVars, serverVars
    <2> QED
      BY <2>1, <2>2, <2>3
  <1>2. InTurn' /\ \A e \in {"Offered", "Ready"} : Has(e)' => Has(e)
    <2>1. CASE events' = events
      BY <2>1 DEF Following, Together, InTurn, Has
    <2>2. ASSUME NEW n \in Notes, events' = Raised([i \in 1..n |-> Note])
          PROVE  InTurn' /\ \A e \in {"Offered", "Ready"} : Has(e)' => Has(e)
      <3> DEFINE more == [i \in 1..n |-> Note]
      <3>1. n \in Nat
        BY Bounds
      <3>2. more \in Seq(News) /\ \A j \in 1..Len(more) : more[j] = "Note"
        <4>1. more \in Seq(News)
          BY <3>1, NewsFacts
        <4>2. Len(more) = n
          BY <3>1, <4>1
        <4> QED
          BY <4>1, <4>2 DEF Note
      <3>3. events' = Raised(more)
        BY <2>2
      <3> HIDE DEF more
      <3>4. \A j \in 1..Len(more) : more[j] # "Ready"
        BY <3>2
      <3>5. InTurn'
        BY <3>2, <3>3, <3>4, RaisedInTurn DEF Following, Together, InRange
      <3>6. \A e \in {"Offered", "Ready"} : Has(e)' => Has(e)
        BY <3>2, <3>3, RaisedHas DEF Following, InRange
      <3> QED
        BY <3>5, <3>6
    <2> QED
      BY <1>1, <2>1, <2>2
  <1>3. Downloads' = Downloads
    BY <1>1 DEF Downloads
  <1>4. Staged' /\ OneWaits' /\ Asking' /\ WholeImage'
    BY <1>1, <1>3 DEF Following, Together, Staged, OneWaits, Asking, Fresh, WholeImage
  <1>5. Announced'
    BY <1>1, <1>2 DEF Following, Together, Announced
  <1>6. Ended' /\ Followed'
    BY <1>1, <1>2, <1>3, HoldingKept DEF Following, Together, Ended, Followed
  <1> QED
    BY <1>2, <1>4, <1>5, <1>6 DEF Together

LEMMA FollowingStep ==
    ASSUME Following, AnswersInOrder, [Next]_vars
    PROVE  Following'
  <1>1. InRange'
    BY InRangeStep DEF Following
  <1> SUFFICES Together'
    BY <1>1 DEF Following
  <1>2. CASE Loop
    BY <1>2, TickFollows, WriteFollows, RefusalFollows, StageFollows, TransmitFollows,
       EventFollows, ActivationFollows DEF Loop
  <1>3. CASE Answer
    BY <1>3, AnsweredFollows
  <1>4. CASE ImageNotify
    BY <1>4, NotifyFollows
  <1>5. CASE OtherFrame \/ Publish \/ UNCHANGED vars
    BY <1>5, OthersFollow
  <1>6. CASE PowerCut
    <2>1. Booted /\ running' = running
      BY <1>6 DEF PowerCut
    <2>2. WholeImage'
      BY <2>1 DEF Following, Together, WholeImage
    <2> QED
      BY <2>1, <2>2, RestartFollows
  <1> QED
    BY <1>2, <1>3, <1>4, <1>5, <1>6 DEF Next

LEMMA FollowingHolds ==
    ASSUME AnswersInOrder
    PROVE  Spec => []Following
  <1>1. Init => Following
    BY InRangeInit, FollowsInit DEF Following
  <1>2. Following /\ [Next]_vars => Following'
    BY FollowingStep
  <1> QED
    BY <1>1, <1>2, PTL DEF Spec

(* Where answers come in order and no more than two requests are on their  *)
(* way, what the bootloader is pointed at is every piece of one version in *)
(* its place: however large the images and the sectors, however small the  *)
(* event queue, and whatever is lost, refused or cut off.                  *)
THEOREM WholeImagesOnly ==
    ASSUME AnswersInOrder
    PROVE  Spec => []WholeImage
  <1>1. Following => WholeImage
    BY DEF Following, Together
  <1> QED
    BY <1>1, FollowingHolds, PTL

(* The client that tells the server it is done leaves the offered image    *)
(* behind it in the store to its last piece, or a store that knows better. *)
THEOREM StoredWhenFinished ==
    ASSUME AnswersInOrder
    PROVE  Spec => []FinishedIsStored
  <1>1. ASSUME Following, phase = "Finishing", stage = "transmit", healthy
        PROVE  Stored = [i \in 0..(SizeOf[offered] - 1) |-> Piece(offered, i)]
    <2>1. pending = {}
      BY <1>1 DEF Following, Together, Staged
    <2>2. Downloads /\ size # 0
      BY <1>1 DEF Following, Together, Followed, Downloads
    <2>3. Holding(offered, taken) /\ taken = SizeOf[offered]
      BY <1>1, <2>2 DEF Following, Together, Followed
    <2>4. Prefix(offered, SizeOf[offered])
      BY <1>1, <2>1, <2>3 DEF Holding
    <2>5. /\ writtenTo + Len(filled) = SizeOf[offered]
          /\ \A i \in 0..(SizeOf[offered] - 1) : At(i) = Piece(offered, i)
      BY <2>4 DEF Prefix, Received
    <2>6. Stored = [i \in 0..(SizeOf[offered] - 1) |-> At(i)]
      <3>1. 0..(writtenTo + Len(filled) - 1) = 0..(SizeOf[offered] - 1)
        <4>1. writtenTo + Len(filled) = SizeOf[offered]
          BY <2>5
        <4>2. writtenTo \in Nat /\ Len(filled) \in Nat /\ SizeOf[offered] \in Nat
          BY <1>1, Bounds DEF Following, InRange, StoreOK, ClientOK
        <4>3. \A i : i \in 0..(writtenTo + Len(filled) - 1) <=> i \in 0..(SizeOf[offered] - 1)
          BY <4>1, <4>2
        <4> QED
          BY <4>3, Zenon
      <3>2. Stored = [i \in 0..(writtenTo + Len(filled) - 1) |-> At(i)]
        BY DEF Stored, At
      <3> QED
        BY <3>1, <3>2
    <2> QED
      BY <2>5, <2>6
  <1>2. Following => FinishedIsStored
    BY <1>1 DEF FinishedIsStored
  <1> QED
    BY <1>2, FollowingHolds, PTL
=============================================================================
