--------------------------- MODULE LogSendProofs ---------------------------
(***************************************************************************)
(* The sending of a log leaves the ring alone: LogSend implements LogRing, *)
(* so what is proved of the ring holds while it is being read.             *)
(* A transfer over a ring that has not lapped then sends it in order.      *)
(***************************************************************************)
EXTENDS LogSend, LogRingProofs

\* Every step of a channel and its ring is a step of the ring or leaves it alone.
THEOREM SendImplementsRing == Spec => RingSpec
<1>1. SendInit => Init  BY DEF SendInit
<1>2. [Next]_vars => [RingNext]_ring
  <2>1. Write => RingNext  BY DEF Write, RingNext
  <2>2. Reset => RingNext  BY DEF Reset, RingNext
  <2>3. ASSUME NEW w \in Counts PROVE Request(w) => UNCHANGED ring
    BY DEF Request
  <2>4. LogMemorySendPoll => UNCHANGED ring
    BY DEF LogMemorySendPoll, SendItem, SendEnd
  <2>5. UNCHANGED vars => UNCHANGED ring  BY DEF vars
  <2>6. Sleep \/ Wake => UNCHANGED ring  BY DEF Sleep, Wake
  <2> QED  BY <2>1, <2>2, <2>3, <2>4, <2>5, <2>6 DEF Next
<1> QED  BY <1>1, <1>2, PTL DEF Spec, RingSpec

ChanIn == /\ chan \in [active : 0 .. 2, idx : Nat, total : Nat, avail : Nat, newest : Nat]
          /\ chan.idx <= chan.total /\ chan.total <= chan.avail
          /\ chan.active = 1 => chan.idx < chan.total
          /\ sent \in Seq(Item \cup {End})

SendInv == IInv /\ ChanIn

\* The slot a frame is read from lies in the area.
LEMMA FrameType ==
  ASSUME SendInv, chan.active = 1
  PROVE  Frame \in Seq(Item \cup {End})
<1> DEFINE v == flash[Index(count, Asked)]
<1>1. v \in Item \/ ~(Asked < count)
  <2> SUFFICES ASSUME Asked < count PROVE v \in Item
    OBVIOUS
  <2>1. chan.avail - 1 - chan.idx \in Nat  BY DEF SendInv, ChanIn
  <2>2. Asked \in Nat
    <3> DEFINE a == chan.avail - 1 - chan.idx
    <3>1. a \in Nat /\ IdxRange \in Nat \ {0}  BY <2>1, AreaAssumption
    <3> HIDE DEF a
    <3>2. a % IdxRange \in 0 .. IdxRange - 1  BY <3>1, DivMod
    <3> QED  BY <3>1, <3>2 DEF Asked, a
  <2>3. count \in Nat /\ count + Asked \in Nat  BY <2>2 DEF SendInv, IInv
  <2>4. (count + Asked) % Slots \in 0 .. Slots - 1  BY <2>3, Sizes, DivMod
  <2>5. Index(count, Asked) \in Slot  BY <2>2, <2>3, <2>4, Sizes DEF Index
  <2> QED  BY <2>5 DEF SendInv, IInv, AreaGood
<1>2. \A u \in Item : <<u>> \in Seq(Item \cup {End})  OBVIOUS
<1>3. << >> \in Seq(Item \cup {End})  OBVIOUS
<1>4. Frame = IF Asked < count /\ Marked(v) THEN <<v>> ELSE << >>  BY DEF Frame
<1> HIDE DEF v
<1> QED  BY <1>1, <1>2, <1>3, <1>4

LEMMA SendKeeps == SendInv /\ IInv' /\ [Next]_vars => SendInv'
<1> SUFFICES ASSUME SendInv, IInv', [Next]_vars PROVE ChanIn'
  BY DEF SendInv
<1>1. ASSUME NEW w \in Counts, Request(w)
      PROVE  ChanIn'
  <2> DEFINE n == IF w < count THEN w ELSE count
  <2>1. count \in Nat /\ next \in Nat /\ next - 1 \in Nat /\ w \in Nat
    BY CountsAssumption DEF SendInv, IInv
  <2>2. n \in Nat /\ n <= count  BY <2>1
  <2>3. /\ chan' = [active |-> IF n > 0 THEN 1 ELSE 2, idx |-> 0, total |-> n,
                    avail |-> count, newest |-> next - 1]
        /\ sent' = << >>
    BY <1>1 DEF Request
  <2>4. << >> \in Seq(Item \cup {End})  OBVIOUS
  <2> HIDE DEF n
  <2> QED  BY <2>1, <2>2, <2>3, <2>4 DEF ChanIn
<1>2. CASE SendItem
  <2>1. Frame \in Seq(Item \cup {End}) /\ sent \in Seq(Item \cup {End})
    BY <1>2, FrameType DEF SendItem, SendInv, ChanIn
  <2>2. sent' \in Seq(Item \cup {End})
    <3> HIDE DEF Frame
    <3> QED  BY <1>2, <2>1 DEF SendItem
  <2>3. chan' = [chan EXCEPT !.idx = @ + 1,
                   !.active = IF chan.idx + 1 >= chan.total THEN 2 ELSE 1]
    BY <1>2 DEF SendItem
  <2>4. /\ chan.idx \in Nat /\ chan.idx + 1 \in Nat /\ chan.idx + 1 <= chan.total
        /\ chan.total \in Nat
    BY <1>2 DEF SendItem, SendInv, ChanIn
  <2>5. chan' \in [active : 0 .. 2, idx : Nat, total : Nat, avail : Nat, newest : Nat]
    <3> DEFINE n == IF chan.idx + 1 >= chan.total THEN 2 ELSE 1
               m == chan.idx + 1
    <3>1. n \in 0 .. 2  OBVIOUS
    <3>2. m \in Nat  BY <2>4
    <3>3. chan' = [chan EXCEPT !.idx = m, !.active = n]
      <4> HIDE DEF n
      <4>1. chan' = [chan EXCEPT !.idx = @ + 1, !.active = n]  BY <2>3 DEF n
      <4> QED  BY <4>1
    <3>4. chan \in [active : 0 .. 2, idx : Nat, total : Nat, avail : Nat, newest : Nat]
      BY DEF SendInv, ChanIn
    <3> HIDE DEF n, m
    <3> QED  BY <3>1, <3>2, <3>3, <3>4
  <2>6. /\ chan'.idx = chan.idx + 1 /\ chan'.total = chan.total /\ chan'.avail = chan.avail
        /\ chan'.active = IF chan.idx + 1 >= chan.total THEN 2 ELSE 1
    BY <2>3 DEF SendInv, ChanIn
  <2>7. chan.total <= chan.avail  BY DEF SendInv, ChanIn
  <2> QED  BY <2>2, <2>4, <2>5, <2>6, <2>7 DEF ChanIn
<1>3. CASE SendEnd
  <2>1. sent' \in Seq(Item \cup {End})  BY <1>3 DEF SendEnd, SendInv, ChanIn
  <2> QED  BY <1>3, <2>1 DEF SendEnd, SendInv, ChanIn
<1>4. CASE Write
  BY <1>4 DEF Write, SendInv, ChanIn
<1>5. CASE Reset
  BY <1>5 DEF Reset, ChanIn, Silent
<1>6. CASE UNCHANGED vars
  BY <1>6 DEF vars, SendInv, ChanIn
<1>7. CASE Sleep \/ Wake
  BY <1>7 DEF Sleep, Wake, SendInv, ChanIn
<1> QED  BY <1>1, <1>2, <1>3, <1>4, <1>5, <1>6, <1>7 DEF Next, LogMemorySendPoll

LEMMA SleepType == Spec => [](asleep \in BOOLEAN)
<1>1. SendInit => asleep \in BOOLEAN  BY DEF SendInit
<1>2. asleep \in BOOLEAN /\ [Next]_vars => (asleep \in BOOLEAN)'
  BY DEF Next, Write, Reset, Request, LogMemorySendPoll, SendItem, SendEnd, Sleep, Wake, vars
<1> QED  BY <1>1, <1>2, PTL DEF Spec

\* Types of a log area and of a channel that sends it.
THEOREM SendTypeCorrect == Spec => []TypeOK
<1>1. Spec => []IInv  BY SendImplementsRing, Invariance, PTL
<1>2. SendInit /\ IInv => SendInv
  BY DEF SendInit, Silent, SendInv, ChanIn
<1>3. SendInv /\ asleep \in BOOLEAN => TypeOK
  <2>1. Item \cup {End} = Nat \cup {Part, Mix, End}  BY DEF Item
  <2> QED  BY <2>1 DEF SendInv, ChanIn, IInv, AreaGood, Item, RingTypeOK, TypeOK
<1> QED  BY <1>1, <1>2, <1>3, SendKeeps, SleepType, PTL DEF Spec

\* The count and the pointer stay together while the log is being read.
THEOREM CountTracksInSend == Spec => []CountTracksPointer
BY SendImplementsRing, CountTracks, PTL

\* Nor does reading spread what a power failure cut off.
THEOREM TearsConfinedInSend == Spec => []TearConfined
BY SendImplementsRing, TearsConfined, PTL

-----------------------------------------------------------------------------
\* The records behind the pointer are all there: the ring has not lapped, the
\* pointer has not gone astray, and no sector behind it is damaged.
Orderly == /\ count <= Slots /\ count <= next - since
           /\ \A s \in Slot : s < cur => Sector(s) \notin damaged

\* A channel serves the records counted at its request; over an orderly ring it
\* has sent one frame for each it has passed.
OrderInv ==
  /\ sent # << >> \/ chan.active # 0
       => /\ chan.avail <= count
          /\ chan.newest - chan.avail = (next - 1) - count
  /\ Orderly =>
       /\ chan.active = 0 => sent = << >> \/ Len(sent) = chan.total + 1
       /\ chan.active = 1 => Len(sent) = chan.idx
       /\ chan.active = 2 => Len(sent) = chan.total
       /\ \A i \in 1 .. Len(sent) :
            sent[i] = IF i <= chan.total THEN (chan.newest + 1) - i ELSE End

\* The frame of an orderly ring is the record asked for.
LEMMA OrderlyFrame ==
  ASSUME SendInv, NInv, LapInv, OrderInv, Orderly, chan.active = 1
  PROVE  Frame = <<chan.newest - chan.idx>>
<1>1. /\ count \in Nat /\ next \in Nat /\ count = cur /\ count <= Slots
      /\ count <= next - since /\ since \in 1 .. next
      /\ RecordsGood(flash, cur, next, since, damaged)
  BY DEF NInv, LapInv, IInv, Orderly, RecordsGood
<1>2. /\ chan.avail \in Nat /\ chan.idx \in Nat /\ chan.newest \in Nat
      /\ chan.idx < chan.avail /\ chan.avail <= count
      /\ chan.newest - chan.avail = (next - 1) - count
  BY DEF SendInv, ChanIn, OrderInv
<1> DEFINE a == (chan.avail - 1) - chan.idx
<1>3. a \in 0 .. count - 1  BY <1>1, <1>2
<1>4. Asked = a
  <2>1. a \in 0 .. IdxRange - 1 /\ IdxRange \in Nat \ {0}
    BY <1>1, <1>3, Sizes
  <2> HIDE DEF a
  <2>2. a % IdxRange = a  BY <2>1, ModSmall
  <2> QED  BY <2>2 DEF Asked, a
<1>5. next - (count - a) = chan.newest - chan.idx
  BY <1>1, <1>2
<1> HIDE DEF a
<1>6. Index(count, Asked) = a  BY <1>1, <1>4 DEF Index
<1>7. flash[a] = next - (count - a)
  <2>1. /\ count - a \in 1 .. cur /\ count - a <= next - since
        /\ a = cur - (count - a) /\ a \in Slot /\ a < cur
    BY <1>1, <1>3, Sizes
  <2>2. Sector(cur - (count - a)) \notin damaged  BY <2>1 DEF Orderly
  <2> QED  BY <1>1, <2>1, <2>2 DEF RecordsGood
<1>8. flash[a] > 0  BY <1>1, <1>3, <1>7
<1> QED  BY <1>1, <1>3, <1>4, <1>5, <1>6, <1>7, <1>8 DEF Frame, Marked

\* An append after which the ring is orderly found it so: only damage ahead of
\* the pointer can be mended before the ring has lapped.
LEMMA OrderlyBefore ==
  ASSUME LapInv, LogItemWrite, Orderly'
  PROVE  Orderly
<1>1. /\ count' = count + 1 /\ cur' = Place + 1 /\ next' = next + 1
      /\ since' = since /\ damaged' = Mended
      /\ count' <= Slots /\ count' <= next' - since'
      /\ \A s \in Slot : s < cur' => Sector(s) \notin damaged'
  BY DEF LogItemWrite, Orderly
<1>2. /\ IInv /\ count \in Nat /\ cur \in Nat /\ next \in Nat /\ since \in Nat
      /\ Slots \in Nat \ {0} /\ PerSector \in Nat \ {0} /\ Slot = 0 .. Slots - 1
  BY Sizes DEF LapInv, IInv
<1>3. count <= Slots /\ count = cur /\ Place = cur /\ count <= next - since
  BY <1>1, <1>2, PlaceType DEF LapInv
<1>4. ASSUME NEW s \in Slot, s < cur
      PROVE  Sector(s) \notin damaged
  <2>1. s \in Nat /\ Place \in Nat /\ s < Place /\ s < cur'
    BY <1>1, <1>2, <1>3, <1>4
  <2>2. Erases => Sector(s) # Sector(Place)
    BY <2>1, SectorOrder DEF Erases
  <2> QED  BY <1>1, <2>1, <2>2 DEF Mended
<1> QED  BY <1>3, <1>4 DEF Orderly

LEMMA OrderKeeps ==
  SendInv /\ NInv /\ LapInv /\ OrderInv /\ [Next]_vars => OrderInv'
<1> SUFFICES ASSUME SendInv, NInv, LapInv, OrderInv, [Next]_vars PROVE OrderInv'
  OBVIOUS
<1>1. /\ count \in Nat /\ next \in Nat
      /\ chan \in [active : 0 .. 2, idx : Nat, total : Nat, avail : Nat, newest : Nat]
      /\ chan.idx <= chan.total /\ (chan.active = 1 => chan.idx < chan.total)
      /\ sent \in Seq(Item \cup {End})
  BY DEF SendInv, ChanIn, IInv
<1>2. ASSUME NEW w \in Counts, Request(w)
      PROVE  OrderInv'
  <2> DEFINE n == IF w < count THEN w ELSE count
  <2>1. /\ chan' = [active |-> IF n > 0 THEN 1 ELSE 2, idx |-> 0, total |-> n,
                    avail |-> count, newest |-> next - 1]
        /\ sent' = << >> /\ count' = count /\ next' = next
    BY <1>2 DEF Request, ring
  <2>2. n \in Nat  BY <1>1, CountsAssumption
  <2> HIDE DEF n
  <2>3. /\ chan'.avail = count /\ chan'.newest = next - 1 /\ chan'.idx = 0 /\ chan'.total = n
        /\ chan'.active = IF n > 0 THEN 1 ELSE 2
    BY <2>1
  <2>4. Len(sent') = 0  BY <2>1
  <2> QED  BY <1>1, <2>1, <2>2, <2>3, <2>4 DEF OrderInv
<1>3. CASE SendItem
  <2>1. /\ chan'.idx = chan.idx + 1 /\ chan'.total = chan.total /\ chan'.avail = chan.avail
        /\ chan'.newest = chan.newest
        /\ chan'.active = IF chan.idx + 1 >= chan.total THEN 2 ELSE 1
        /\ chan.active = 1 /\ sent' = sent \o Frame /\ UNCHANGED ring
    BY <1>1, <1>3 DEF SendItem
  <2>2. count' = count /\ next' = next /\ Orderly' = Orderly
    BY <2>1 DEF ring, Orderly
  <2>3. chan.avail <= count /\ chan.newest - chan.avail = (next - 1) - count
    BY <2>1 DEF OrderInv
  <2>4. ASSUME Orderly
        PROVE  /\ chan'.active = 1 => Len(sent') = chan'.idx
               /\ chan'.active = 2 => Len(sent') = chan'.total
               /\ \A i \in 1 .. Len(sent') :
                    sent'[i] = IF i <= chan.total THEN (chan.newest + 1) - i ELSE End
    <3> DEFINE v == chan.newest - chan.idx
    <3>1. sent' = sent \o <<v>> /\ Len(sent) = chan.idx
      BY <2>1, <2>4, OrderlyFrame DEF OrderInv
    <3>2. \A i \in 1 .. Len(sent) :
            sent[i] = IF i <= chan.total THEN (chan.newest + 1) - i ELSE End
      BY <2>4 DEF OrderInv
    <3>3. v = (chan.newest + 1) - (chan.idx + 1)  BY <1>1
    <3> HIDE DEF v
    <3>4. /\ Len(sent') = chan.idx + 1
          /\ \A i \in 1 .. Len(sent) : sent'[i] = sent[i]
          /\ sent'[Len(sent) + 1] = v
      BY <1>1, <3>1
    <3>5. chan.idx + 1 <= chan.total /\ chan.idx \in Nat /\ chan.total \in Nat
      BY <1>1, <2>1
    <3> QED  BY <2>1, <3>1, <3>2, <3>3, <3>4, <3>5
  <2> QED  BY <2>1, <2>2, <2>3, <2>4 DEF OrderInv
<1>4. CASE SendEnd
  <2>1. /\ chan'.total = chan.total /\ chan'.avail = chan.avail /\ chan'.newest = chan.newest
        /\ chan'.active = 0 /\ chan.active = 2 /\ sent' = Append(sent, End)
        /\ UNCHANGED ring
    BY <1>1, <1>4 DEF SendEnd
  <2>2. count' = count /\ next' = next /\ Orderly' = Orderly
    BY <2>1 DEF ring, Orderly
  <2>3. chan.avail <= count /\ chan.newest - chan.avail = (next - 1) - count
    BY <2>1 DEF OrderInv
  <2>4. ASSUME Orderly
        PROVE  /\ Len(sent') = chan.total + 1
               /\ \A i \in 1 .. Len(sent') :
                    sent'[i] = IF i <= chan.total THEN (chan.newest + 1) - i ELSE End
    <3>1. Len(sent) = chan.total /\ chan.total \in Nat  BY <1>1, <2>1, <2>4 DEF OrderInv
    <3>2. \A i \in 1 .. Len(sent) :
            sent[i] = IF i <= chan.total THEN (chan.newest + 1) - i ELSE End
      BY <2>4 DEF OrderInv
    <3>3. /\ Len(sent') = Len(sent) + 1
          /\ \A i \in 1 .. Len(sent) : sent'[i] = sent[i]
          /\ sent'[Len(sent) + 1] = End
      BY <1>1, <2>1
    <3> QED  BY <3>1, <3>2, <3>3
  <2> QED  BY <2>1, <2>2, <2>3, <2>4 DEF OrderInv
<1>5. CASE Write
  <2>1. /\ chan' = chan /\ sent' = sent /\ count' = count + 1 /\ next' = next + 1
        /\ Orderly' => Orderly
    BY <1>5, OrderlyBefore DEF Write, LogItemWrite
  <2> QED  BY <1>1, <2>1 DEF OrderInv
<1>6. CASE Reset
  <2>1. chan'.active = 0 /\ sent' = << >>  BY <1>6 DEF Reset, Silent
  <2>2. Len(sent') = 0  BY <2>1
  <2> QED  BY <2>1, <2>2 DEF OrderInv
<1>7. CASE UNCHANGED vars
  BY <1>7 DEF vars, ring, OrderInv, Orderly
<1>8. CASE Sleep \/ Wake
  BY <1>8 DEF Sleep, Wake, ring, OrderInv, Orderly
<1> QED  BY <1>2, <1>3, <1>4, <1>5, <1>6, <1>7, <1>8 DEF Next, LogMemorySendPoll

\* A transfer over a ring that has not lapped sends the newest record, then the
\* one before it and so on, whatever is appended meanwhile.
THEOREM FirstLapInOrderHolds == Spec => []FirstLapInOrder
<1>1. Spec => [](IInv /\ NInv /\ LapInv)
  BY SendImplementsRing, Invariance, RecordInvariance, LapInvariance, PTL
<1>2. SendInit /\ IInv => SendInv
  BY DEF SendInit, Silent, SendInv, ChanIn
<1>3. SendInit => OrderInv
  BY DEF SendInit, Silent, OrderInv
<1>4. SendInv /\ OrderInv => FirstLapInOrder
  <2> SUFFICES ASSUME SendInv, OrderInv, count <= Slots, count <= next - since, damaged = {}
               PROVE  FirstLapInOrder
    BY DEF FirstLapInOrder
  <2>1. Orderly  BY DEF Orderly
  <2>2. /\ sent \in Seq(Item \cup {End})
        /\ chan.newest \in Nat /\ chan.total \in Nat
    BY DEF SendInv, ChanIn
  <2>3. \A i \in 1 .. Len(sent) :
          sent[i] = IF i <= chan.total THEN (chan.newest + 1) - i ELSE End
    BY <2>1 DEF OrderInv
  <2> QED  BY <2>2, <2>3 DEF FirstLapInOrder, End
<1> QED  BY <1>1, <1>2, <1>3, <1>4, SendKeeps, OrderKeeps, PTL DEF Spec

\* What the ring keeps, and what an index finds in it, hold while it is read.
THEOREM NewestKeptInSend == Spec => []NewestKept
BY SendImplementsRing, NewestKeptHolds, PTL

\* Indices follow the records of the first lap, whatever is being sent.
THEOREM OldestFirstInSend == Spec => []OldestFirst
BY SendImplementsRing, OldestFirstHolds, PTL

\* A full area stays readable but for the sector under way, whatever is being sent.
THEOREM FullStaysReadableInSend == Spec => []FullStaysReadable
BY SendImplementsRing, FullStaysReadableHolds, PTL

=============================================================================
