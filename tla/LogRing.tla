------------------------------- MODULE LogRing -------------------------------
(***************************************************************************)
(* One log area of the SPI flash (MemoryModule.c): the alarm log or the    *)
(* BMS history.  Records are appended around a ring of sectors, a sector   *)
(* being erased when its first record is written; after a reset the write  *)
(* pointer is found again by scanning the area from its base.              *)
(*                                                                         *)
(* A NOR flash clears bits only: programming a slot that is not blank      *)
(* leaves a mixture of both records.  The supply may fail inside an erase  *)
(* or inside the programming of a record.                                  *)
(***************************************************************************)
EXTENDS Integers, FiniteSets

CONSTANTS
  PerSector,    \* records in a sector: SECTOR_SIZE / LOG_ITEM_SIZE
  Sectors,      \* sectors in the area
  IdxRange,     \* values of a uint16_t, to which indices and the scanned count are cast
  MaxRecords    \* bound on the records ever appended

Slots  == PerSector * Sectors       \* wMaxCount
Slot   == 0 .. Slots - 1
Sector(s) == s \div PerSector

ASSUME AreaAssumption ==
  /\ {PerSector, Sectors, IdxRange, MaxRecords} \subseteq Nat \ {0}
  /\ Slots \in Nat \ {0}
  /\ Slots < IdxRange

\* What a slot holds: a record by its number, counted from 1, or
Blank == 0      \* all ones
Part  == -1     \* no valid marker: an item programmed or erased in part
Mix   == -2     \* a valid marker with the wrong CRC

Intact(v) == v > 0                  \* marker and CRC are right: LogAreaScan
Marked(v) == v > 0 \/ v = Mix       \* the marker is right: LogReadByIndex

VARIABLES
  flash,     \* the slots of the area
  cur,       \* (dwCurWrAddr - dwBaseAddr) / LOG_ITEM_SIZE
  count,     \* dwWrCount
  next,      \* history: number of the next record
  since,     \* history: first record since the pointer last lost the newest one
  damaged    \* history: sectors in which an item or an erase was cut off

ring == <<flash, cur, count, next, since, damaged>>

-----------------------------------------------------------------------------
(* LogAreaScan: the pointer stops at the first item that is not valid. *)
Scan(f) == CHOOSE i \in 0 .. Slots :
             /\ \A j \in 0 .. i - 1 : Intact(f[j])
             /\ i < Slots => ~Intact(f[i])

(* LogItemWrite, step by step. *)

\* Mutants: the area has no end; it ends a slot early.
PlaceUnwrapped == cur
PlaceEarly == IF cur + 1 >= Slots THEN 0 ELSE cur

\* At the end of the area it wraps to the base.
Place == IF cur + 1 > Slots THEN 0 ELSE cur

\* Mutants: only the wrap erases; a sector is erased at its last slot.
ErasesAtWrap == Place = 0
ErasesAtLast == (Place + 1) % PerSector = 0

\* The sector is erased at its first slot; the wrap erases the first one too.
Erases == Place % PerSector = 0

\* Mutant of Erased: the erase takes two sectors.
ErasedTwo(f, k) == [s \in Slot |-> IF Sector(s) \in {k, k + 1} THEN Blank ELSE f[s]]

Erased(f, k) == [s \in Slot |-> IF Sector(s) = k THEN Blank ELSE f[s]]

Prepared == IF Erases THEN Erased(flash, Sector(Place)) ELSE flash

Programmed(v, n) == IF v = Blank THEN n ELSE Mix

Stored == [Prepared EXCEPT ![Place] = Programmed(@, next)]

Mended == IF Erases THEN damaged \ {Sector(Place)} ELSE damaged

\* What a slot may hold after the programming of an item was cut off, and
\* after the erase of its sector was.
CutItem(v)  == IF Marked(v) THEN {Mix} ELSE {Part, Mix}
CutErase(v) == {v, Blank, Part, Mix}

-----------------------------------------------------------------------------
Init == /\ flash = [s \in Slot |-> Blank]
        /\ cur = 0 /\ count = 0
        /\ next = 1 /\ since = 1 /\ damaged = {}

LogItemWrite ==
  /\ next <= MaxRecords
  /\ flash' = Stored
  /\ cur' = Place + 1
  /\ count' = count + 1
  /\ next' = next + 1
  /\ damaged' = Mended
  /\ UNCHANGED since

\* Flash_MemoryInit over contents f, with n the next record's number.
Boot(f, n, d) ==
  /\ flash' = f /\ next' = n /\ damaged' = d
  /\ cur' = Scan(f)
  /\ count' = Scan(f) % IdxRange
  /\ since' = IF n = 1 \/ f[(Scan(f) - 1) % Slots] = n - 1 THEN since ELSE n

Restart == Boot(flash, next, damaged)

\* The supply fails inside LogItemWrite: in the erase, after it, in the
\* programming, or before the pointer moves on.
CutErasing ==
  /\ next <= MaxRecords /\ Erases
  /\ LET here == {s \in Slot : Sector(s) = Sector(Place)}
     IN  \E c \in [here -> UNION {CutErase(flash[s]) : s \in here}] :
           /\ \A s \in here : c[s] \in CutErase(flash[s])
           /\ Boot([s \in Slot |-> IF s \in here THEN c[s] ELSE flash[s]],
                   next, damaged \cup {Sector(Place)})

CutErased == next <= MaxRecords /\ Erases /\ Boot(Prepared, next, Mended)

CutProgramming ==
  /\ next <= MaxRecords
  /\ \E v \in CutItem(Prepared[Place]) :
       Boot([Prepared EXCEPT ![Place] = v], next, damaged \cup {Sector(Place)})

CutStored == next <= MaxRecords /\ Boot(Stored, next + 1, Mended)

Outage == Restart \/ CutErasing \/ CutErased \/ CutProgramming \/ CutStored

RingNext == LogItemWrite \/ Outage

RingSpec == Init /\ [][RingNext]_ring

-----------------------------------------------------------------------------
\* Mutant: the area is taken to be full.
IndexFull(total, i) == (total + i + 1) % Slots

\* LogReadByIndex: the slot of an index; the read succeeds on its marker.
Index(total, i) == IF total <= Slots THEN i ELSE (total + i) % Slots

-----------------------------------------------------------------------------
RingTypeOK == /\ flash \in [Slot -> Nat \cup {Part, Mix}]
              /\ cur \in 0 .. Slots
              /\ {count, next, since} \subseteq Nat
              /\ damaged \subseteq {Sector(s) : s \in Slot}

\* The count of records and the write pointer go around the ring together:
\* every index is computed from the count, every write from the pointer.
CountTracksPointer == count % Slots = cur % Slots

\* An item or an erase that was cut off harms no record outside its sector,
\* however many restarts and laps follow.
TearConfined == \A s \in Slot : flash[s] \in {Part, Mix} => Sector(s) \in damaged

\* The newest records are in the flash, one after the other, just behind the
\* pointer: all those since the pointer last went astray, up to what the ring
\* holds with one sector erased.
NewestKept ==
  \A k \in 1 .. Slots - PerSector :
    LET s == (cur - k) % Slots
    IN  k <= next - since /\ Sector(s) \notin damaged => flash[s] = next - k

\* Before the ring has lapped, index i is the i-th of the counted records.
OldestFirst ==
  count <= Slots /\ count <= next - since /\ damaged = {}
    => \A i \in 0 .. count - 1 : flash[Index(count, i)] = next - count + i

\* Once the area is full, an index reads as empty only in the part of the
\* current sector that is still to be rewritten.
FullStaysReadable ==
  count >= Slots =>
    \A s \in Slot : ~Marked(flash[s]) /\ Sector(s) \notin damaged
                      => s >= cur /\ Sector(s) = Sector(cur)

\* MemoryModule.c: the scan recovers the write pointer, the place after the
\* newest record (of an area in which nothing was cut off).
ScanRecovers ==
  [][Outage /\ damaged' = {} /\ next' > 1
       => flash'[(cur' - 1) % Slots] = next' - 1]_ring

=============================================================================
