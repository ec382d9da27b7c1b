--------------------------- MODULE LogRingProofs ---------------------------
(***************************************************************************)
(* Proofs about LogRing, for every size of the area and of its sectors.    *)
(* The inductive invariant says how far a sector is filled: an undamaged   *)
(* sector is written from its first slot on, and the pointer stands in it  *)
(* exactly where its blank part begins.  Two more say where the records    *)
(* are, and where the blank slots: both count backwards from the pointer,  *)
(* so that a restart that loses the newest record claims nothing.          *)
(***************************************************************************)
EXTENDS LogRing, WellFoundedInduction, TLAPS

\* A non-empty set of natural numbers has a least element.
LEMMA LeastNat ==
  ASSUME NEW T, T \subseteq Nat, T # {}
  PROVE  \E x \in T : \A y \in T : ~(y < x)
<1> DEFINE R == OpToRel(<, Nat)
<1>1. IsWellFoundedOn(R, Nat)  BY NatLessThanWellFounded
<1>2. \E x \in T : \A y \in T : ~(<<y, x>> \in R)
  <2> HIDE DEF R
  <2> QED  BY <1>1, WFMin
<1>3. \A x \in Nat, y \in Nat : y < x => <<y, x>> \in R  BY DEF OpToRel
<1> QED  BY <1>2, <1>3

LEMMA DivMod ==
  ASSUME NEW a \in Nat, NEW n \in Nat \ {0}
  PROVE  /\ a = (n * (a \div n)) + (a % n)
         /\ a \div n \in Nat /\ a % n \in 0 .. n - 1
OBVIOUS

LEMMA ModUnique ==
  ASSUME NEW n \in Nat \ {0}, NEW q \in Nat, NEW r \in 0 .. n - 1
  PROVE  ((n * q) + r) % n = r
OBVIOUS

LEMMA ModSucc ==
  ASSUME NEW a \in Nat, NEW n \in Nat \ {0}
  PROVE  (a + 1) % n = IF a % n = n - 1 THEN 0 ELSE (a % n) + 1
<1> DEFINE q == a \div n
           r == a % n
<1>1. a = (n * q) + r /\ q \in Nat /\ r \in 0 .. n - 1  BY DivMod
<1> HIDE DEF q, r
<1>2. CASE r = n - 1
  <2>1. a + 1 = (n * (q + 1)) + 0  BY <1>1, <1>2
  <2>2. ((n * (q + 1)) + 0) % n = 0  BY <1>1, ModUnique
  <2> QED  BY <1>2, <2>1, <2>2 DEF r
<1>3. CASE r # n - 1
  <2>1. a + 1 = (n * q) + (r + 1) /\ r + 1 \in 0 .. n - 1  BY <1>1, <1>3
  <2>2. ((n * q) + (r + 1)) % n = r + 1  BY <1>1, <2>1, ModUnique
  <2> QED  BY <1>3, <2>1, <2>2 DEF r
<1> QED  BY <1>2, <1>3

LEMMA ModSmall ==
  ASSUME NEW n \in Nat \ {0}
  PROVE  (\A a \in 0 .. n - 1 : a % n = a) /\ n % n = 0
OBVIOUS

LEMMA SectorStart ==
  ASSUME NEW i \in Nat, NEW n \in Nat \ {0}, i % n = 0, NEW s \in Nat, s < i
  PROVE  s \div n # i \div n
OBVIOUS

LEMMA SectorSame ==
  ASSUME NEW i \in Nat, NEW n \in Nat \ {0}, i % n # 0
  PROVE  i - 1 \in Nat /\ (i - 1) \div n = i \div n
OBVIOUS
-----------------------------------------------------------------------------
Item == Nat \cup {Part, Mix}

\* Contents f of the area, d its damaged sectors: what is out of order is
\* damaged, and a sector is blank from some slot on.
AreaGood(f, d) ==
  /\ f \in [Slot -> Item]
  /\ d \subseteq {Sector(s) : s \in Slot}
  /\ \A s \in Slot : f[s] \in {Part, Mix} => Sector(s) \in d
  /\ \A s \in Slot, t \in Slot :
       s < t /\ Sector(s) = Sector(t) /\ Sector(s) \notin d /\ f[s] = Blank
         => f[t] = Blank

\* Place i is where the blank part of its sector begins.
FillsAt(f, d, i) ==
  Sector(i) \notin d =>
    /\ f[i] = Blank
    /\ \A s \in Slot : s < i /\ Sector(s) = Sector(i) => f[s] # Blank

IInv == /\ AreaGood(flash, damaged)
        /\ cur \in 0 .. Slots /\ count \in Nat /\ next \in Nat \ {0} /\ since \in Nat
        /\ CountTracksPointer
        /\ cur < Slots /\ cur % PerSector # 0 => FillsAt(flash, damaged, cur)

LEMMA Sizes ==
  /\ PerSector \in Nat \ {0} /\ Slots \in Nat \ {0} /\ IdxRange \in Nat /\ Slots < IdxRange
  /\ Slot = 0 .. Slots - 1 /\ 0 \in Slot
BY AreaAssumption DEF Slot

LEMMA ScanStops ==
  ASSUME NEW f
  PROVE  /\ Scan(f) \in 0 .. Slots
         /\ \A j \in 0 .. Scan(f) - 1 : Intact(f[j])
         /\ Scan(f) < Slots => ~Intact(f[Scan(f)])
<1> DEFINE T == {i \in 0 .. Slots : i < Slots => ~Intact(f[i])}
<1>1. Slots \in T /\ T \subseteq Nat  BY Sizes
<1>2. PICK x \in T : \A y \in T : ~(y < x)
  <2> HIDE DEF T
  <2> QED  BY <1>1, LeastNat
<1>3. x \in 0 .. Slots /\ (x < Slots => ~Intact(f[x]))  OBVIOUS
<1>4. \A j \in 0 .. x - 1 : Intact(f[j])
  <2> SUFFICES ASSUME NEW j \in 0 .. x - 1, ~Intact(f[j]) PROVE FALSE
    OBVIOUS
  <2>1. j \in 0 .. Slots /\ j < x  BY <1>3, Sizes
  <2>2. j \in T  BY <2>1
  <2> QED  BY <1>2, <2>1, <2>2
<1> QED  BY <1>3, <1>4 DEF Scan

\* A restart over good contents finds the pointer where a sector's blank part
\* begins, whatever it finds.
LEMMA BootGood ==
  ASSUME IInv, NEW f, NEW n \in Nat \ {0}, NEW d, AreaGood(f, d), Boot(f, n, d)
  PROVE  IInv'
<1> DEFINE i == Scan(f)
<1>1. /\ i \in 0 .. Slots
      /\ \A j \in 0 .. i - 1 : Intact(f[j])
      /\ i < Slots => ~Intact(f[i])
  BY ScanStops
<1>2. flash' = f /\ damaged' = d /\ cur' = i /\ next' = n /\ since' \in Nat /\ count' = i % IdxRange
  BY DEF Boot, IInv
<1> HIDE DEF i
<1>3. count' = i
  <2>1. i \in 0 .. IdxRange - 1  BY <1>1, Sizes
  <2> QED  BY <1>2, <2>1, Sizes, ModSmall
<1>4. i < Slots => FillsAt(f, d, i)
  <2> SUFFICES ASSUME i < Slots, Sector(i) \notin d
               PROVE  f[i] = Blank /\ \A s \in Slot : s < i => f[s] # Blank
    BY DEF FillsAt
  <2>1. i \in Slot  BY <1>1, Sizes
  <2>2. f[i] \in Item /\ f[i] \notin {Part, Mix}  BY <2>1 DEF AreaGood
  <2>3. f[i] = Blank  BY <1>1, <2>2 DEF Item, Intact, Blank
  <2>4. \A s \in Slot : s < i => Intact(f[s])  BY <1>1, Sizes
  <2> QED  BY <2>3, <2>4 DEF Intact, Blank
<1> QED  BY <1>1, <1>2, <1>3, <1>4 DEF IInv, CountTracksPointer

\* What an append finds prepared.
LEMMA PlaceType ==
  ASSUME IInv
  PROVE  Place \in Slot /\ (Place = cur \/ (Place = 0 /\ cur = Slots))
BY Sizes DEF IInv, Place

LEMMA PreparedGood ==
  ASSUME IInv
  PROVE  AreaGood(Prepared, Mended) /\ FillsAt(Prepared, Mended, Place)
<1> DEFINE k == Sector(Place)
<1>1. Place \in Slot  BY PlaceType
<1>2. CASE Erases
  <2>1. /\ Prepared = [s \in Slot |-> IF Sector(s) = k THEN Blank ELSE flash[s]]
        /\ Mended = damaged \ {k}
    BY <1>2 DEF Prepared, Mended, Erased
  <2>2. \A s \in Slot : s < Place => Sector(s) # k
    BY <1>1, <1>2, Sizes, SectorStart DEF Sector, Erases
  <2> HIDE DEF k
  <2>3. \A s \in Slot : Prepared[s] = IF Sector(s) = k THEN Blank ELSE flash[s]
    BY <2>1
  <2>4. Blank \in Item /\ Blank \notin {Part, Mix}  BY DEF Item, Blank, Part, Mix
  <2>5. Prepared \in [Slot -> Item]  BY <2>1, <2>4 DEF IInv, AreaGood
  <2>6. AreaGood(Prepared, Mended)  BY <2>1, <2>3, <2>4, <2>5 DEF IInv, AreaGood
  <2>7. FillsAt(Prepared, Mended, Place)  BY <1>1, <2>2, <2>3 DEF FillsAt, k
  <2> QED  BY <2>6, <2>7
<1>3. CASE ~Erases
  <2>1. Prepared = flash /\ Mended = damaged  BY <1>3 DEF Prepared, Mended
  <2>2. 0 % PerSector = 0  BY Sizes, ModSmall
  <2>3. Place = cur /\ cur < Slots /\ cur % PerSector # 0
    BY <1>1, <1>3, <2>2, PlaceType, Sizes DEF Erases, IInv
  <2> QED  BY <2>1, <2>3 DEF IInv
<1> QED  BY <1>2, <1>3

\* Programming the prepared place leaves an item in order, and the sector
\* filled one slot further.
LEMMA StoredGood ==
  ASSUME IInv
  PROVE  AreaGood(Stored, Mended) /\ (Sector(Place) \notin Mended => Stored[Place] = next)
<1> DEFINE v == Programmed(Prepared[Place], next)
<1>1. AreaGood(Prepared, Mended) /\ FillsAt(Prepared, Mended, Place) /\ Place \in Slot
  BY PreparedGood, PlaceType
<1>2. Stored = [Prepared EXCEPT ![Place] = v]  BY DEF Stored
<1>3. v \in Item /\ v # Blank /\ next \in Nat \ {0}
  BY DEF IInv, Programmed, Item, Mix, Blank
<1>4. Sector(Place) \notin Mended => v = next
  BY <1>1 DEF FillsAt, Programmed
<1> HIDE DEF v
<1>5. \A s \in Slot : Stored[s] = IF s = Place THEN v ELSE Prepared[s]
  BY <1>1, <1>2 DEF AreaGood
<1>6. Stored \in [Slot -> Item]  BY <1>1, <1>2, <1>3 DEF AreaGood
<1>7. ASSUME NEW s \in Slot, Stored[s] \in {Part, Mix}
      PROVE  Sector(s) \in Mended
  BY <1>1, <1>3, <1>4, <1>5, <1>7 DEF AreaGood, Part, Mix
<1>8. ASSUME NEW s \in Slot, NEW t \in Slot, s < t, Sector(s) = Sector(t),
             Sector(s) \notin Mended, Stored[s] = Blank
      PROVE  Stored[t] = Blank
  BY <1>1, <1>3, <1>5, <1>8 DEF AreaGood, FillsAt
<1>9. AreaGood(Stored, Mended)  BY <1>1, <1>6, <1>7, <1>8 DEF AreaGood
<1> QED  BY <1>1, <1>4, <1>5, <1>9

\* Contents that differ from good ones in a sector that counts as damaged.
LEMMA DamagedGood ==
  ASSUME NEW f, NEW d, AreaGood(f, d), NEW i \in Slot, NEW g \in [Slot -> Item],
         \A s \in Slot : Sector(s) # Sector(i) => g[s] = f[s]
  PROVE  AreaGood(g, d \cup {Sector(i)})
BY DEF AreaGood

LEMMA OutageGood == IInv /\ Outage => IInv'
<1> SUFFICES ASSUME IInv, Outage PROVE IInv'
  OBVIOUS
<1>1. /\ AreaGood(flash, damaged) /\ next \in Nat \ {0} /\ next + 1 \in Nat \ {0}
      /\ Place \in Slot
  BY PlaceType DEF IInv
<1>2. CASE Restart
  BY <1>1, <1>2, BootGood DEF Restart
<1>3. CASE CutErasing
  <2> DEFINE here == {s \in Slot : Sector(s) = Sector(Place)}
             g(c) == [s \in Slot |-> IF s \in here THEN c[s] ELSE flash[s]]
  <2>1. PICK c : /\ \A s \in here : c[s] \in CutErase(flash[s])
                 /\ Boot(g(c), next, damaged \cup {Sector(Place)})
    BY <1>3 DEF CutErasing
  <2>2. \A s \in Slot : CutErase(flash[s]) \subseteq Item
    BY <1>1 DEF AreaGood, CutErase, Item, Blank
  <2>3. g(c) \in [Slot -> Item]  BY <1>1, <2>1, <2>2 DEF AreaGood
  <2>4. \A s \in Slot : Sector(s) # Sector(Place) => g(c)[s] = flash[s]
    OBVIOUS
  <2>5. AreaGood(g(c), damaged \cup {Sector(Place)})
    <3> HIDE DEF g, here
    <3> QED  BY <1>1, <2>3, <2>4, DamagedGood
  <2> HIDE DEF g, here
  <2> QED  BY <1>1, <2>1, <2>5, BootGood
<1>4. CASE CutErased
  BY <1>1, <1>4, PreparedGood, BootGood DEF CutErased
<1>5. CASE CutProgramming
  <2>1. PICK v \in CutItem(Prepared[Place]) :
          Boot([Prepared EXCEPT ![Place] = v], next, damaged \cup {Sector(Place)})
    BY <1>5 DEF CutProgramming
  <2> DEFINE g == [Prepared EXCEPT ![Place] = v]
  <2>2. AreaGood(Prepared, Mended)  BY PreparedGood
  <2>3. v \in Item  BY DEF CutItem, Item
  <2>4. g \in [Slot -> Item] /\ \A s \in Slot : Sector(s) # Sector(Place) => g[s] = Prepared[s]
    BY <1>1, <2>2, <2>3 DEF AreaGood
  <2> HIDE DEF g
  <2>5. AreaGood(g, Mended \cup {Sector(Place)})  BY <1>1, <2>2, <2>4, DamagedGood
  <2>6. Mended \cup {Sector(Place)} = damaged \cup {Sector(Place)}  BY DEF Mended
  <2>7. Boot(g, next, damaged \cup {Sector(Place)})  BY <2>1 DEF g
  <2> QED  BY <1>1, <2>5, <2>6, <2>7, BootGood
<1>6. CASE CutStored
  BY <1>1, <1>6, StoredGood, BootGood DEF CutStored
<1> QED  BY <1>2, <1>3, <1>4, <1>5, <1>6 DEF Outage

LEMMA WriteGood == IInv /\ LogItemWrite => IInv'
<1> SUFFICES ASSUME IInv, LogItemWrite PROVE IInv'
  OBVIOUS
<1>1. /\ flash' = Stored /\ damaged' = Mended /\ cur' = Place + 1
      /\ count' = count + 1 /\ next' = next + 1 /\ since' = since
  BY DEF LogItemWrite
<1>2. AreaGood(flash', damaged')  BY <1>1, StoredGood
<1>3. /\ Place \in Slot /\ cur' \in 0 .. Slots /\ count' \in Nat /\ next' \in Nat \ {0}
      /\ since' \in Nat
  BY <1>1, PlaceType, Sizes DEF IInv
<1>4. count' % Slots = cur' % Slots
  <2>1. cur % Slots = Place % Slots
    BY PlaceType, Sizes, ModSmall DEF IInv
  <2>2. cur \in Nat /\ count \in Nat /\ Place \in Nat /\ count % Slots = cur % Slots
    BY <1>3, Sizes DEF IInv, CountTracksPointer
  <2>3. /\ (count + 1) % Slots = IF count % Slots = Slots - 1 THEN 0 ELSE (count % Slots) + 1
        /\ (Place + 1) % Slots = IF Place % Slots = Slots - 1 THEN 0 ELSE (Place % Slots) + 1
    BY <2>2, Sizes, ModSucc
  <2> QED  BY <1>1, <2>1, <2>2, <2>3
<1>5. ASSUME cur' < Slots, cur' % PerSector # 0
      PROVE  FillsAt(flash', damaged', cur')
  <2>1. Sector(cur') = Sector(Place) /\ cur' \in Slot
    <3>1. Place \in Nat /\ cur' \in Nat /\ cur' - 1 = Place /\ cur' \in Slot
      BY <1>1, <1>3, <1>5, Sizes
    <3>2. (cur' - 1) \div PerSector = cur' \div PerSector
      <4> DEFINE i == cur'
      <4>1. i \in Nat /\ i % PerSector # 0  BY <1>5, <3>1
      <4> HIDE DEF i
      <4>2. (i - 1) \div PerSector = i \div PerSector  BY <4>1, Sizes, SectorSame
      <4> QED  BY <4>2 DEF i
    <3> QED  BY <3>1, <3>2 DEF Sector
  <2>2. ASSUME Sector(cur') \notin damaged'
        PROVE  /\ flash'[cur'] = Blank
               /\ \A s \in Slot : s < cur' /\ Sector(s) = Sector(cur') => flash'[s] # Blank
    <3>1. AreaGood(Prepared, Mended) /\ FillsAt(Prepared, Mended, Place)
      BY PreparedGood
    <3>2. /\ Prepared[Place] = Blank
          /\ \A s \in Slot : s < Place /\ Sector(s) = Sector(Place) => Prepared[s] # Blank
      BY <1>1, <2>1, <2>2, <3>1 DEF FillsAt
    <3>3. Prepared[cur'] = Blank
      <4>1. Place < cur'  BY <1>1, <1>3, Sizes
      <4>2. Sector(Place) \notin Mended  BY <1>1, <2>1, <2>2
      <4> QED  BY <1>3, <2>1, <3>1, <3>2, <4>1, <4>2 DEF AreaGood
    <3>4. \A s \in Slot : s # Place => flash'[s] = Prepared[s]
      BY <1>1, <1>3, <3>1 DEF Stored, AreaGood
    <3>5. flash'[Place] = next /\ next # Blank
      BY <1>1, <2>1, <2>2, StoredGood DEF IInv, Blank
    <3>6. cur' # Place  BY <1>1, <1>3, Sizes
    <3>7. flash'[cur'] = Blank  BY <2>1, <3>3, <3>4, <3>6
    <3>8. ASSUME NEW s \in Slot, s < cur', Sector(s) = Sector(cur')
          PROVE  flash'[s] # Blank
      BY <1>1, <1>3, <2>1, <3>2, <3>4, <3>5, <3>8, Sizes
    <3> QED  BY <3>7, <3>8
  <2> QED  BY <2>2 DEF FillsAt
<1> QED  BY <1>2, <1>3, <1>4, <1>5 DEF IInv, CountTracksPointer

LEMMA InitGood == Init => IInv
<1> SUFFICES ASSUME Init PROVE IInv
  OBVIOUS
<1>1. /\ flash = [s \in Slot |-> Blank] /\ cur = 0 /\ count = 0
      /\ next = 1 /\ since = 1 /\ damaged = {}
  BY DEF Init
<1>2. AreaGood(flash, damaged)  BY <1>1 DEF AreaGood, Item, Blank, Part, Mix
<1>3. 0 % PerSector = 0  BY Sizes, ModSmall
<1> QED  BY <1>1, <1>2, <1>3, Sizes DEF IInv, CountTracksPointer

\* The inductive invariant of a log area.
THEOREM Invariance == RingSpec => []IInv
<1>1. IInv /\ [RingNext]_ring => IInv'
  <2>1. CASE UNCHANGED ring
    BY <2>1 DEF ring, IInv, CountTracksPointer, AreaGood, FillsAt
  <2> QED  BY <2>1, WriteGood, OutageGood DEF RingNext
<1> QED  BY <1>1, InitGood, PTL DEF RingSpec

\* Types of a log area, through appends, laps and outages.
THEOREM RingTypeCorrect == RingSpec => []RingTypeOK
<1>1. IInv => RingTypeOK  BY DEF IInv, AreaGood, Item, RingTypeOK
<1> QED  BY <1>1, Invariance, PTL

\* LogItemWrite and LogAreaScan move the count and the pointer together.
THEOREM CountTracks == RingSpec => []CountTracksPointer
<1>1. IInv => CountTracksPointer  BY DEF IInv
<1> QED  BY <1>1, Invariance, PTL

\* What a power failure cuts off never harms a record of another sector,
\* through any number of restarts and laps of the ring.
THEOREM TearsConfined == RingSpec => []TearConfined
<1>1. IInv => TearConfined  BY DEF IInv, AreaGood, TearConfined
<1> QED  BY <1>1, Invariance, PTL

-----------------------------------------------------------------------------
\* The slot k places behind pointer i, around the ring.
Behind(i, k) == IF i >= k THEN i - k ELSE (i - k) + Slots

\* Contents f of the area, the pointer at i, n the next record: the records are
\* numbered below n and none is there twice, the newest one is behind the
\* pointer unless it is older than m, and those from m on are behind it in turn:
\* as many as outlast an erase, and all those of the lap under way.
RecordsGood(f, i, n, m, d) ==
  /\ m \in 1 .. n
  /\ \A s \in Slot : f[s] < n
  /\ \A s \in Slot, t \in Slot : f[s] = f[t] /\ f[s] > 0 => s = t
  /\ m < n => \A s \in Slot : f[s] = n - 1 => s = Behind(i, 1)
  /\ \A k \in 1 .. Slots - PerSector :
       k <= n - m /\ Sector(Behind(i, k)) \notin d => f[Behind(i, k)] = n - k
  /\ \A k \in 1 .. i : k <= n - m /\ Sector(i - k) \notin d => f[i - k] = n - k
  /\ i = 0 => ~Intact(f[0])

NInv == IInv /\ RecordsGood(flash, cur, next, since, damaged)

LEMMA ModBack ==
  ASSUME NEW n \in Nat \ {0}, NEW i \in 0 .. n, NEW k \in 1 .. n
  PROVE  (i - k) % n = IF i >= k THEN i - k ELSE (i - k) + n
<1>1. CASE i >= k
  <2>1. i - k \in 0 .. n - 1  BY <1>1
  <2> QED  BY <1>1, <2>1, ModSmall
<1>2. CASE ~(i >= k)
  <2> DEFINE r == (i - k) + n
  <2>1. r \in 0 .. n - 1 /\ i - k = (n * (-1)) + r  BY <1>2
  <2>2. ((n * (-1)) + r) % n = r
    <3> HIDE DEF r
    <3> QED  BY <2>1
  <2> QED  BY <1>2, <2>1, <2>2
<1> QED  BY <1>1, <1>2

LEMMA BehindType ==
  ASSUME NEW i \in 0 .. Slots, NEW k \in 1 .. Slots
  PROVE  Behind(i, k) \in Slot /\ Behind(i, k) = (i - k) % Slots
<1>1. Slots \in Nat \ {0}  BY Sizes
<1>2. (i - k) % Slots = IF i >= k THEN i - k ELSE (i - k) + Slots
  BY <1>1, ModBack
<1> QED  BY <1>1, <1>2, Sizes DEF Behind

\* Two pointers behind which the same slot is differ by a lap at most.
LEMMA BehindSame ==
  ASSUME NEW i \in 0 .. Slots, NEW j \in 0 .. Slots, Behind(i, 1) = Behind(j, 1),
         NEW k \in 1 .. Slots
  PROVE  /\ Behind(i, k) = Behind(j, k)
         /\ i = j \/ (i = 0 /\ j = Slots) \/ (i = Slots /\ j = 0)
<1>1. Slots \in Nat \ {0}  BY Sizes
<1>2. i = j \/ (i = 0 /\ j = Slots) \/ (i = Slots /\ j = 0)
  BY <1>1 DEF Behind
<1> QED  BY <1>1, <1>2 DEF Behind

LEMMA SectorNext ==
  ASSUME NEW i \in Nat, NEW n \in Nat \ {0}, i % n = 0, NEW s \in Nat, s >= i + n
  PROVE  s \div n # i \div n
OBVIOUS

LEMMA BehindPlace ==
  ASSUME IInv, NEW k \in 1 .. Slots
  PROVE  /\ Behind(cur, k) \in Slot /\ Behind(cur, k) = (cur - k) % Slots
         /\ Behind(cur, k) = Behind(Place, k)
         /\ k < Slots => Behind(Place, k) # Place
         /\ k < Slots => Behind(Place + 1, k + 1) = Behind(Place, k)
         /\ Behind(Place + 1, 1) = Place
<1>1. cur \in 0 .. Slots /\ Place \in 0 .. Slots - 1 /\ (Place = cur \/ (Place = 0 /\ cur = Slots))
  BY PlaceType, Sizes DEF IInv
<1>2. Behind(cur, k) = (cur - k) % Slots
  BY <1>1, BehindType
<1> QED  BY <1>1, <1>2, Sizes DEF Behind

\* The sector an append erases holds none of the records that must stay.
LEMMA ErasedIsFar ==
  ASSUME IInv, Erases, NEW k \in 1 .. Slots - PerSector
  PROVE  Sector(Behind(Place, k)) # Sector(Place)
<1> DEFINE s == Behind(Place, k)
<1>1. /\ Place \in 0 .. Slots - 1 /\ Place % PerSector = 0
      /\ PerSector \in Nat \ {0} /\ Slots \in Nat \ {0}
  BY PlaceType, Sizes DEF Erases
<1>2. s \in Nat /\ (s < Place \/ s >= Place + PerSector)
  BY <1>1 DEF Behind
<1> HIDE DEF s
<1>3. s \div PerSector # Place \div PerSector
  BY <1>1, <1>2, SectorStart, SectorNext
<1> QED  BY <1>3 DEF Sector, s

\* Contents that lost some records and gained none, the pointer unmoved or
\* taken back from the end of the area to its base.
LEMMA LossKeeps ==
  ASSUME NInv, NEW f, NEW d, NEW i \in {cur, Place}, i # cur => ~Intact(f[0]),
         \A s \in Slot : f[s] = flash[s] \/ (f[s] \in Item /\ f[s] <= 0),
         \A k \in 1 .. Slots - PerSector :
           Sector(Behind(cur, k)) \notin d
             => /\ Sector(Behind(cur, k)) \notin damaged
                /\ f[Behind(cur, k)] = flash[Behind(cur, k)],
         \A s \in Slot :
           s < i /\ Sector(s) \notin d => Sector(s) \notin damaged /\ f[s] = flash[s]
  PROVE  RecordsGood(f, i, next, since, d)
<1>1. /\ IInv /\ flash \in [Slot -> Item] /\ next \in Nat \ {0} /\ since \in 1 .. next
      /\ RecordsGood(flash, cur, next, since, damaged)
  BY DEF NInv, IInv, AreaGood, RecordsGood
<1>2. \A s \in Slot : flash[s] \in Int /\ f[s] \in Int
  BY <1>1 DEF Item, Part, Mix
<1>3. \A s \in Slot : f[s] < next
  BY <1>1, <1>2 DEF RecordsGood
<1>4. \A s \in Slot, t \in Slot : f[s] = f[t] /\ f[s] > 0 => s = t
  BY <1>1, <1>2 DEF RecordsGood
<1>5. \A k \in 1 .. Slots : Behind(i, k) = Behind(cur, k)
  BY <1>1, BehindPlace
<1>6. /\ 1 \in 1 .. Slots /\ 1 .. Slots - PerSector \subseteq 1 .. Slots
      /\ i \in 0 .. Slots /\ (i = cur \/ i = 0)
  BY <1>1, PlaceType, Sizes DEF IInv
<1>7. since < next => \A s \in Slot : f[s] = next - 1 => s = Behind(i, 1)
  BY <1>1, <1>2, <1>5, <1>6 DEF RecordsGood
<1>8. ASSUME NEW k \in 1 .. Slots - PerSector, k <= next - since, Sector(Behind(i, k)) \notin d
      PROVE  f[Behind(i, k)] = next - k
  BY <1>1, <1>5, <1>6, <1>8 DEF RecordsGood
<1>9. ASSUME NEW k \in 1 .. i, k <= next - since, Sector(i - k) \notin d
      PROVE  f[i - k] = next - k
  <2>1. i = cur /\ i - k \in Slot /\ i - k < i  BY <1>6, Sizes
  <2> QED  BY <1>1, <1>9, <2>1 DEF RecordsGood
<1>10. i = 0 => ~Intact(f[0])
  <2>1. 0 \in Slot  BY Sizes
  <2> QED  BY <1>1, <1>2, <2>1 DEF RecordsGood, Intact
<1> QED  BY <1>1, <1>3, <1>4, <1>7, <1>8, <1>9, <1>10 DEF RecordsGood

\* An append puts its record behind the moved pointer and keeps the others.
LEMMA StoredKeeps ==
  ASSUME NInv
  PROVE  RecordsGood(Stored, Place + 1, next + 1, since, Mended)
<1>1. /\ IInv /\ flash \in [Slot -> Item] /\ next \in Nat \ {0} /\ since \in 1 .. next
      /\ RecordsGood(flash, cur, next, since, damaged) /\ Place \in Slot
  BY PlaceType DEF NInv, IInv, AreaGood, RecordsGood
<1>2. /\ AreaGood(Prepared, Mended)
      /\ Sector(Place) \notin Mended => Stored[Place] = next
  BY <1>1, PreparedGood, StoredGood
<1>3. \A s \in Slot : s # Place => Stored[s] = Prepared[s]
  BY <1>1, <1>2 DEF Stored, AreaGood
<1>4. Stored[Place] \in {next, Mix}
  BY <1>1, <1>2 DEF Stored, AreaGood, Programmed
<1>5. \A s \in Slot : Prepared[s] = flash[s] \/ Prepared[s] = Blank
  BY <1>1 DEF Prepared, Erased
<1>6. \A s \in Slot : flash[s] \in Int /\ Stored[s] \in Int
  BY <1>1, <1>3, <1>4, <1>5 DEF Item, Part, Mix, Blank
<1>7. \A s \in Slot : s # Place => Stored[s] < next
  BY <1>1, <1>3, <1>5 DEF RecordsGood, Blank
<1>8. \A s \in Slot : Stored[s] < next + 1
  BY <1>1, <1>4, <1>6, <1>7 DEF Mix
<1>9. ASSUME NEW s \in Slot, NEW t \in Slot, Stored[s] = Stored[t], Stored[s] > 0
      PROVE  s = t
  <2>1. CASE s = Place \/ t = Place
    BY <1>1, <1>4, <1>6, <1>7, <1>9, <2>1 DEF Mix
  <2>2. CASE s # Place /\ t # Place
    <3>1. Stored[s] = flash[s] /\ Stored[t] = flash[t]
      BY <1>3, <1>5, <1>9, <2>2 DEF Blank
    <3> QED  BY <1>1, <1>9, <3>1 DEF RecordsGood
  <2> QED  BY <2>1, <2>2
<1>10. ASSUME NEW s \in Slot, Stored[s] = (next + 1) - 1
       PROVE  s = Behind(Place + 1, 1)
  <2>1. s = Place  BY <1>1, <1>6, <1>7, <1>10
  <2>2. 1 \in 1 .. Slots  BY Sizes
  <2> QED  BY <1>1, <2>1, <2>2, BehindPlace
<1>11. ASSUME NEW k \in 1 .. Slots - PerSector, k <= (next + 1) - since,
              Sector(Behind(Place + 1, k)) \notin Mended
       PROVE  Stored[Behind(Place + 1, k)] = (next + 1) - k
  <2>1. k \in 1 .. Slots - 1  BY Sizes
  <2>2. CASE k = 1
    <3>1. Behind(Place + 1, 1) = Place  BY <1>1, <2>1, BehindPlace, Sizes
    <3> QED  BY <1>1, <1>2, <1>11, <2>2, <3>1
  <2>3. CASE k # 1
    <3> DEFINE j == k - 1
               s == Behind(cur, j)
    <3>1. j \in 1 .. Slots - PerSector /\ j \in 1 .. Slots /\ j < Slots /\ j <= next - since /\ k = j + 1
      BY <1>1, <1>11, <2>1, <2>3, Sizes
    <3> HIDE DEF j
    <3>2. /\ s \in Slot /\ s = Behind(Place, j) /\ s # Place
          /\ s = Behind(Place + 1, k)
      BY <1>1, <3>1, BehindPlace
    <3>3. CASE Erases
      <4>1. Sector(s) # Sector(Place)  BY <1>1, <3>1, <3>2, <3>3, ErasedIsFar
      <4>2. Prepared[s] = flash[s]  BY <3>2, <3>3, <4>1 DEF Prepared, Erased
      <4>3. Sector(s) \notin damaged  BY <1>11, <3>2, <3>3, <4>1 DEF Mended
      <4>4. flash[s] = next - j  BY <1>1, <3>1, <4>3 DEF RecordsGood
      <4> QED  BY <1>1, <1>3, <3>1, <3>2, <4>2, <4>4
    <3>4. CASE ~Erases
      <4>1. Prepared[s] = flash[s] /\ Sector(s) \notin damaged
        BY <1>11, <3>2, <3>4 DEF Prepared, Mended
      <4>2. flash[s] = next - j  BY <1>1, <3>1, <4>1 DEF RecordsGood
      <4> QED  BY <1>1, <1>3, <3>1, <3>2, <4>1, <4>2
    <3> QED  BY <3>3, <3>4
  <2> QED  BY <2>2, <2>3
<1>12. ASSUME NEW k \in 1 .. Place + 1, k <= (next + 1) - since,
              Sector((Place + 1) - k) \notin Mended
       PROVE  Stored[(Place + 1) - k] = (next + 1) - k
  <2> DEFINE s == (Place + 1) - k
  <2>1. s \in Slot /\ Place \in Nat  BY <1>1, Sizes
  <2>2. CASE k = 1
    BY <1>1, <1>2, <1>12, <2>1, <2>2
  <2>3. CASE k # 1
    <3>1. Place = cur /\ s < Place /\ s = cur - (k - 1) /\ k - 1 \in 1 .. cur
      BY <1>1, <2>1, <2>3, PlaceType
    <3> HIDE DEF s
    <3>2. Erases => Sector(s) # Sector(Place)
      BY <2>1, <3>1, Sizes, SectorStart DEF Erases, Sector
    <3>3. Prepared[s] = flash[s] /\ Sector(s) \notin damaged
      BY <1>12, <2>1, <3>2 DEF s, Prepared, Erased, Mended
    <3>4. flash[s] = next - (k - 1)
      BY <1>1, <1>12, <3>1, <3>3 DEF RecordsGood
    <3> QED  BY <1>1, <1>3, <2>1, <3>1, <3>3, <3>4 DEF s
  <2> QED  BY <2>2, <2>3
<1>13. since \in 1 .. next + 1 /\ Place + 1 # 0  BY <1>1, Sizes
<1> QED  BY <1>8, <1>9, <1>10, <1>11, <1>12, <1>13 DEF RecordsGood

\* A restart that finds the newest record finds the pointer's place again.
LEMMA BootKeeps ==
  ASSUME IInv, NEW f, NEW n \in Nat \ {0}, NEW d, NEW i \in 0 .. Slots,
         RecordsGood(f, i, n, since, d), Boot(f, n, d)
  PROVE  RecordsGood(f, cur', n, since', d)
<1>1. cur' \in 0 .. Slots  BY ScanStops DEF Boot
<1>2. since \in 1 .. n /\ since' \in {since, n}
  BY DEF RecordsGood, Boot
<1>0. cur' = 0 => ~Intact(f[0])
  <2>1. cur' = Scan(f)  BY DEF Boot
  <2>2. 0 < Slots  BY Sizes
  <2> QED  BY <2>1, <2>2, ScanStops
<1>3. CASE since' = n
  BY <1>0, <1>1, <1>2, <1>3, Sizes DEF RecordsGood
<1>4. CASE since' # n
  <2>1. since' = since /\ since < n /\ n > 1
    BY <1>2, <1>4
  <2>2. f[(cur' - 1) % Slots] = n - 1
    BY <1>4, <2>1 DEF Boot
  <2>0. 1 \in 1 .. Slots /\ 1 .. Slots - PerSector \subseteq 1 .. Slots
    BY Sizes
  <2>3. (cur' - 1) % Slots = Behind(cur', 1) /\ Behind(cur', 1) \in Slot
    BY <1>1, <2>0, BehindType
  <2>4. Behind(cur', 1) = Behind(i, 1)
    BY <2>1, <2>2, <2>3 DEF RecordsGood
  <2>5. \A k \in 1 .. Slots - PerSector : Behind(cur', k) = Behind(i, k)
    BY <1>1, <2>0, <2>4, BehindSame
  <2>6. cur' = i \/ cur' = 0
    <3>1. cur' = i \/ cur' = 0 \/ (i = 0 /\ cur' = Slots)
      BY <1>1, <2>0, <2>4, BehindSame
    <3>2. cur' = Slots => Intact(f[0])
      <4>1. cur' = Scan(f)  BY DEF Boot
      <4>2. Slots \in Nat /\ 0 < Slots  BY Sizes
      <4>3. \A j \in 0 .. Scan(f) - 1 : Intact(f[j])  BY ScanStops
      <4>4. 0 \in 0 .. Slots - 1  BY <4>2
      <4> QED  BY <4>1, <4>3, <4>4
    <3> QED  BY <3>1, <3>2 DEF RecordsGood
  <2>7. \A k \in 1 .. cur' : k <= n - since /\ Sector(cur' - k) \notin d => f[cur' - k] = n - k
    BY <2>6 DEF RecordsGood
  <2> QED  BY <1>0, <2>1, <2>4, <2>5, <2>7 DEF RecordsGood
<1> QED  BY <1>3, <1>4

LEMMA OutageKeeps == NInv /\ Outage => NInv'
<1> SUFFICES ASSUME NInv, Outage PROVE NInv'
  OBVIOUS
<1>1. /\ IInv /\ IInv' /\ next \in Nat \ {0} /\ next + 1 \in Nat \ {0}
      /\ cur \in 0 .. Slots /\ Place + 1 \in 0 .. Slots /\ Place \in Slot
      /\ flash \in [Slot -> Item]
      /\ RecordsGood(flash, cur, next, since, damaged)
  <2>1. IInv /\ IInv'  BY OutageGood DEF NInv
  <2>2. Place \in Slot /\ Place + 1 \in 0 .. Slots  BY <2>1, PlaceType, Sizes
  <2> QED  BY <2>1, <2>2 DEF NInv, IInv, AreaGood
<1>2. ASSUME NEW f, NEW n \in Nat \ {0}, NEW d, NEW i \in 0 .. Slots,
             RecordsGood(f, i, n, since, d), Boot(f, n, d)
      PROVE  NInv'
  <2>1. flash' = f /\ next' = n /\ damaged' = d  BY <1>2 DEF Boot
  <2>2. RecordsGood(f, cur', n, since', d)  BY <1>1, <1>2, BootKeeps
  <2> QED  BY <1>1, <2>1, <2>2 DEF NInv
<1>3. \A k \in 1 .. Slots - PerSector : Behind(cur, k) \in Slot /\ Behind(cur, k) = Behind(Place, k)
  BY <1>1, BehindPlace, Sizes
<1>4. CASE Restart
  BY <1>1, <1>2, <1>4 DEF Restart
<1>5. CASE CutErasing
  <2> DEFINE here == {s \in Slot : Sector(s) = Sector(Place)}
             g(c) == [s \in Slot |-> IF s \in here THEN c[s] ELSE flash[s]]
             d == damaged \cup {Sector(Place)}
  <2>1. PICK c : (\A s \in here : c[s] \in CutErase(flash[s])) /\ Boot(g(c), next, d)
    BY <1>5 DEF CutErasing
  <2>2. \A s \in Slot : g(c)[s] = flash[s] \/ (g(c)[s] \in Item /\ g(c)[s] <= 0)
    BY <2>1 DEF CutErase, Item, Blank, Part, Mix
  <2>3. \A s \in Slot : Sector(s) \notin d => Sector(s) \notin damaged /\ g(c)[s] = flash[s]
    OBVIOUS
  <2> HIDE DEF g, here, d
  <2>4. RecordsGood(g(c), cur, next, since, d)
    BY <1>3, <2>2, <2>3, LossKeeps
  <2> QED  BY <1>1, <1>2, <2>1, <2>4
<1>6. CASE CutErased
  <2>1. \A s \in Slot : Prepared[s] = flash[s] \/ (Prepared[s] \in Item /\ Prepared[s] <= 0)
    BY <1>6 DEF CutErased, Prepared, Erased, Item, Blank
  <2>2. ASSUME NEW k \in 1 .. Slots - PerSector, Sector(Behind(cur, k)) \notin Mended
        PROVE  /\ Sector(Behind(cur, k)) \notin damaged
               /\ Prepared[Behind(cur, k)] = flash[Behind(cur, k)]
    <3>1. Sector(Behind(cur, k)) # Sector(Place)
      BY <1>1, <1>3, <1>6, ErasedIsFar DEF CutErased
    <3> QED  BY <1>3, <1>6, <2>2, <3>1 DEF CutErased, Prepared, Erased, Mended
  <2>3. ASSUME NEW s \in Slot, s < Place, Sector(s) \notin Mended
        PROVE  Sector(s) \notin damaged /\ Prepared[s] = flash[s]
    <3>1. /\ s \in Nat /\ Place \in Nat /\ PerSector \in Nat \ {0}
          /\ Place % PerSector = 0
      BY <1>1, <1>6, Sizes DEF CutErased, Erases
    <3>2. Sector(s) # Sector(Place)
      BY <2>3, <3>1, SectorStart DEF Sector
    <3> QED  BY <1>6, <2>3, <3>2 DEF CutErased, Prepared, Erased, Mended
  <2>4. Place # cur => ~Intact(Prepared[0])
    BY <1>1, <1>6, PlaceType, Sizes DEF CutErased, Prepared, Erased, Intact, Blank
  <2>5. RecordsGood(Prepared, Place, next, since, Mended)
    BY <2>1, <2>2, <2>3, <2>4, LossKeeps
  <2> QED  BY <1>1, <1>2, <1>6, <2>5, Sizes DEF CutErased
<1>7. CASE CutProgramming
  <2> DEFINE g(v) == [Prepared EXCEPT ![Place] = v]
             d == damaged \cup {Sector(Place)}
  <2>1. PICK v \in CutItem(Prepared[Place]) : Boot(g(v), next, d)
    BY <1>7 DEF CutProgramming
  <2>2. /\ DOMAIN Prepared = Slot
        /\ \A s \in Slot : Prepared[s] = flash[s]
                           \/ (Prepared[s] = Blank /\ Sector(s) = Sector(Place))
    BY <1>1 DEF Prepared, Erased
  <2>3. \A s \in Slot : g(v)[s] = IF s = Place THEN v ELSE Prepared[s]
    BY <1>1, <2>2
  <2>4. v \in Item /\ v <= 0  BY DEF CutItem, Item, Part, Mix
  <2> HIDE DEF g
  <2>5. \A s \in Slot : g(v)[s] = flash[s] \/ (g(v)[s] \in Item /\ g(v)[s] <= 0)
    BY <2>2, <2>3, <2>4 DEF Item, Blank
  <2>6. \A s \in Slot : Sector(s) \notin d => Sector(s) \notin damaged /\ g(v)[s] = flash[s]
    BY <2>2, <2>3
  <2> HIDE DEF d
  <2>7. RecordsGood(g(v), cur, next, since, d)
    BY <1>3, <2>5, <2>6, LossKeeps
  <2> QED  BY <1>1, <1>2, <2>1, <2>7
<1>8. CASE CutStored
  BY <1>1, <1>2, <1>8, StoredKeeps DEF CutStored
<1> QED  BY <1>4, <1>5, <1>6, <1>7, <1>8 DEF Outage

LEMMA WriteKeeps == NInv /\ LogItemWrite => NInv'
<1> SUFFICES ASSUME NInv, LogItemWrite PROVE NInv'
  OBVIOUS
<1>1. /\ flash' = Stored /\ damaged' = Mended /\ cur' = Place + 1
      /\ next' = next + 1 /\ since' = since
  BY DEF LogItemWrite
<1> QED  BY <1>1, StoredKeeps, WriteGood DEF NInv

LEMMA InitKeeps == Init => NInv
<1> SUFFICES ASSUME Init PROVE NInv
  OBVIOUS
<1>1. /\ flash = [s \in Slot |-> Blank] /\ cur = 0
      /\ next = 1 /\ since = 1 /\ damaged = {}
  BY DEF Init
<1>2. RecordsGood(flash, cur, next, since, damaged)
  BY <1>1, Sizes DEF RecordsGood, Blank, Intact
<1> QED  BY <1>2, InitGood DEF NInv

\* The inductive invariant of the records and the pointer.
THEOREM RecordInvariance == RingSpec => []NInv
<1>1. NInv /\ [RingNext]_ring => NInv'
  <2>1. CASE UNCHANGED ring
    BY <2>1 DEF ring, NInv, IInv, CountTracksPointer, AreaGood, FillsAt, RecordsGood
  <2> QED  BY <2>1, WriteKeeps, OutageKeeps DEF RingNext
<1> QED  BY <1>1, InitKeeps, PTL DEF RingSpec

\* LogItemWrite and LogAreaScan keep the newest records of the ring, however
\* often it laps and the supply fails.
THEOREM NewestKeptHolds == RingSpec => []NewestKept
<1>1. NInv => NewestKept
  <2> SUFFICES ASSUME NInv, NEW k \in 1 .. Slots - PerSector,
                      k <= next - since, Sector((cur - k) % Slots) \notin damaged
               PROVE  flash[(cur - k) % Slots] = next - k
    BY DEF NewestKept
  <2>1. k \in 1 .. Slots  BY Sizes
  <2>2. (cur - k) % Slots = Behind(cur, k)  BY <2>1, BehindPlace DEF NInv
  <2> QED  BY <2>2 DEF NInv, RecordsGood
<1> QED  BY <1>1, RecordInvariance, PTL
-----------------------------------------------------------------------------
\* While the ring has not lapped, the count is the pointer; no blank slot that
\* is undamaged lies behind the pointer, and none elsewhere than in its sector
\* once the area is full.
LapInv ==
  /\ IInv
  /\ count <= Slots => count = cur
  /\ \A s \in Slot : flash[s] = Blank /\ Sector(s) \notin damaged
       => /\ s >= cur
          /\ count >= Slots => Sector(s) = Sector(cur)

LEMMA SectorBetween ==
  ASSUME NEW n \in Nat \ {0}, NEW i \in Nat, NEW j \in Nat, NEW s \in Nat,
         i <= j, j <= s, s \div n = i \div n
  PROVE  s \div n = j \div n
OBVIOUS

\* The same in terms of the area: the sectors follow each other.
LEMMA SectorOrder ==
  /\ \A i \in Nat, s \in Nat :
       i % PerSector = 0 /\ Sector(s) = Sector(i) => s >= i
  /\ \A i \in Nat, s \in Nat :
       i + 1 <= s /\ Sector(s) = Sector(i) => Sector(s) = Sector(i + 1)
<1>1. PerSector \in Nat \ {0}  BY Sizes
<1>2. ASSUME NEW i \in Nat, NEW s \in Nat, i % PerSector = 0, Sector(s) = Sector(i)
      PROVE  s >= i
  <2>1. s < i => s \div PerSector # i \div PerSector
    BY <1>1, <1>2, SectorStart
  <2> QED  BY <1>2, <2>1 DEF Sector
<1>3. ASSUME NEW i \in Nat, NEW s \in Nat, i + 1 <= s, Sector(s) = Sector(i)
      PROVE  Sector(s) = Sector(i + 1)
  <2> DEFINE j == i + 1
  <2>1. j \in Nat /\ i <= j /\ j <= s /\ s \div PerSector = i \div PerSector
    BY <1>3 DEF Sector
  <2> HIDE DEF j
  <2>2. s \div PerSector = j \div PerSector
    BY <1>1, <2>1, SectorBetween
  <2> QED  BY <2>2 DEF Sector, j
<1> QED  BY <1>2, <1>3

LEMMA BootLaps ==
  ASSUME IInv, IInv', NEW f, NEW n, NEW d, Boot(f, n, d)
  PROVE  LapInv'
<1> DEFINE i == Scan(f)
<1>1. /\ i \in 0 .. Slots /\ \A j \in 0 .. i - 1 : Intact(f[j])
  BY ScanStops
<1>2. /\ flash' = f /\ cur' = i /\ count' = i % IdxRange
  BY DEF Boot
<1> HIDE DEF i
<1>3. count' = i
  <2>1. i \in 0 .. IdxRange - 1  BY <1>1, Sizes
  <2> QED  BY <1>2, <2>1, Sizes, ModSmall
<1>4. ASSUME NEW s \in Slot, f[s] = Blank
      PROVE  s >= i
  BY <1>1, <1>4, Sizes DEF Intact, Blank
<1>5. i >= Slots => \A s \in Slot : ~(s >= i)
  BY <1>1, Sizes
<1> QED  BY <1>2, <1>3, <1>4, <1>5 DEF LapInv

LEMMA WriteLaps == LapInv /\ LogItemWrite => LapInv'
<1> SUFFICES ASSUME LapInv, LogItemWrite PROVE LapInv'
  OBVIOUS
<1>1. /\ flash' = Stored /\ damaged' = Mended /\ cur' = Place + 1 /\ count' = count + 1
      /\ IInv /\ IInv'
  BY WriteGood DEF LapInv, LogItemWrite
<1>2. /\ cur \in 0 .. Slots /\ Place \in Slot /\ Place \in Nat /\ count \in Nat
      /\ Place = cur \/ (Place = 0 /\ cur = Slots)
      /\ PerSector \in Nat \ {0} /\ Slots \in Nat \ {0} /\ Slot = 0 .. Slots - 1
  BY <1>1, PlaceType, Sizes DEF IInv
<1>3. count' <= Slots => count' = cur'
  BY <1>1, <1>2 DEF LapInv
<1>4. ASSUME NEW s \in Slot, Stored[s] = Blank, Sector(s) \notin Mended
      PROVE  /\ s >= Place + 1
             /\ count + 1 >= Slots => Sector(s) = Sector(Place + 1)
  <2>0. s \in Nat  BY <1>2
  <2>1. AreaGood(Prepared, Mended) /\ (Sector(Place) \notin Mended => Stored[Place] = next)
    BY <1>1, PreparedGood, StoredGood
  <2>2. s # Place
    BY <1>1, <1>4, <2>1 DEF IInv, Blank
  <2>3. Prepared[s] = Blank
    BY <1>2, <1>4, <2>1, <2>2 DEF Stored, AreaGood
  <2>4. CASE Erases /\ Sector(s) = Sector(Place)
    <3>1. s >= Place
      BY <1>2, <2>0, <2>4, SectorOrder DEF Erases
    <3>2. Place + 1 <= s  BY <1>2, <2>2, <3>1
    <3>3. Sector(s) = Sector(Place + 1)
      BY <1>2, <2>0, <2>4, <3>2, SectorOrder
    <3> QED  BY <3>2, <3>3
  <2>5. CASE ~(Erases /\ Sector(s) = Sector(Place))
    <3>1. flash[s] = Blank /\ Sector(s) \notin damaged
      BY <1>4, <2>3, <2>5 DEF Prepared, Erased, Mended
    <3>2. s >= cur /\ (count >= Slots => Sector(s) = Sector(cur))
      BY <3>1 DEF LapInv
    <3>3. Place = cur /\ Place + 1 <= s
      BY <1>2, <2>2, <3>2
    <3>4. count >= Slots => Sector(s) = Sector(Place + 1)
      BY <1>2, <2>0, <3>2, <3>3, SectorOrder
    <3>5. count + 1 >= Slots => count >= Slots
      BY <1>2, <3>3 DEF LapInv
    <3> QED  BY <1>2, <3>3, <3>4, <3>5
  <2> QED  BY <2>4, <2>5
<1> QED  BY <1>1, <1>3, <1>4 DEF LapInv

\* The inductive invariant of the count, the pointer and the blank slots.
THEOREM LapInvariance == RingSpec => []LapInv
<1>1. Init => LapInv
  BY InitGood, Sizes DEF Init, LapInv
<1>2. LapInv /\ [RingNext]_ring => LapInv'
  <2> SUFFICES ASSUME LapInv, [RingNext]_ring PROVE LapInv'
    OBVIOUS
  <2>1. CASE LogItemWrite  BY <2>1, WriteLaps
  <2>2. CASE Outage
    <3>1. IInv /\ IInv'  BY <2>2, OutageGood DEF LapInv
    <3>2. \E f, n, d : Boot(f, n, d)
      BY <2>2 DEF Outage, Restart, CutErasing, CutErased, CutProgramming, CutStored
    <3> QED  BY <3>1, <3>2, BootLaps
  <2>3. CASE UNCHANGED ring
    BY <2>3 DEF ring, LapInv, IInv, CountTracksPointer, AreaGood, FillsAt
  <2> QED  BY <2>1, <2>2, <2>3 DEF RingNext
<1> QED  BY <1>1, <1>2, PTL DEF RingSpec

\* LogReadByIndex over an area that has not lapped: index i is the i-th record.
THEOREM OldestFirstHolds == RingSpec => []OldestFirst
<1>1. NInv /\ LapInv => OldestFirst
  <2> SUFFICES ASSUME NInv, LapInv, count <= Slots, count <= next - since, damaged = {},
                      NEW i \in 0 .. count - 1
               PROVE  flash[Index(count, i)] = (next - count) + i
    BY DEF OldestFirst
  <2>1. /\ count \in Nat /\ next \in Nat /\ count = cur
        /\ RecordsGood(flash, cur, next, since, damaged)
    BY DEF NInv, LapInv, IInv
  <2>2. Index(count, i) = cur - (count - i)
    BY <2>1 DEF Index
  <2>3. count - i \in 1 .. cur /\ count - i <= next - since
    BY <2>1, Sizes DEF NInv, IInv
  <2>4. flash[cur - (count - i)] = next - (count - i)
    BY <2>1, <2>3 DEF RecordsGood
  <2> QED  BY <2>1, <2>2, <2>4
<1> QED  BY <1>1, RecordInvariance, LapInvariance, PTL

\* LogReadByIndex over a full area: what reads as empty lies ahead of the
\* pointer, in its sector.
THEOREM FullStaysReadableHolds == RingSpec => []FullStaysReadable
<1>1. LapInv => FullStaysReadable
  <2> SUFFICES ASSUME LapInv, count >= Slots, NEW s \in Slot, ~Marked(flash[s]),
                      Sector(s) \notin damaged
               PROVE  s >= cur /\ Sector(s) = Sector(cur)
    BY DEF FullStaysReadable
  <2>1. flash[s] = Blank
    BY DEF LapInv, IInv, AreaGood, Item, Marked, Mix, Part, Blank
  <2> QED  BY <2>1 DEF LapInv
<1> QED  BY <1>1, LapInvariance, PTL

=============================================================================
