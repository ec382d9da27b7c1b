--------------------------- MODULE ParamBlocksProofs ---------------------------
(***************************************************************************)
(* For all numbers of pages, contents and failures: the type of the        *)
(* parameter blocks, that each of them implements ParamStore, and that     *)
(* thresholds that were never saved fit the battery type.                  *)
(***************************************************************************)
EXTENDS ParamBlocks, FiniteSetTheorems, TLAPS

\* Nothing but blocks is kept.
Shape == /\ ram = [b \in Blocks |-> ram[b]]
         /\ eeprom = [b \in Blocks |-> eeprom[b]]
         /\ may = [b \in Blocks |-> may[b]]

\* A restart may find what the EEPROM holds, whether or not it is whole.
Found == \A b \in Blocks : /\ eeprom[b].crc \in may[b] \union {Torn}
                           /\ Intact(eeprom[b]) \/ Torn \in may[b]

\* A save under way: its content and a damaged block may be found; as long as every
\* page was taken, the pages sent are those of the copy, at the end all and the CRC.
Sending ==
  /\ pc \in {"send", "check"} => {ram[job.block], Torn} \subseteq may[job.block]
  /\ pc = "send" /\ clean =>
       \A p \in 1..(job.page - 1) : eeprom[job.block].page[p] = ram[job.block][p]
  /\ pc = "check" /\ clean =>
       /\ eeprom[job.block].page = ram[job.block]
       /\ eeprom[job.block].crc = ram[job.block]

\* Only the thresholds are followed by a second save.
Chained == pc \in {"send", "check"} /\ job.then = "run" => job.block = "levels"

PInv == ParamTypeOK /\ Shape /\ Found /\ Sending /\ Chained /\ LevelsFitType

-------------------------------------------------------------------------------
(* Contents and cells. *)

LEMMA BlockNames == "levels" \in Blocks /\ "spec" \in Blocks /\ "run" \in Blocks
BY DEF Blocks

LEMMA UsualContents ==
  ASSUME NEW b \in Blocks
  PROVE  [p \in 1..Pages[b] |-> Usual] \in ContentsOf(b)
BY DataAssumption DEF ContentsOf

LEMMA LevelsContents ==
  ASSUME NEW t \in Data
  PROVE  LevelsOf(t) \in ContentsOf("levels")
BY DEF ContentsOf, LevelsOf

LEMMA TypeOfContent ==
  ASSUME NEW b \in Blocks, NEW c \in ContentsOf(b)
  PROVE  Type(c) \in Data
BY PagesAssumption DEF ContentsOf, Type

\* What BrokenDetect works out leaves thresholds those of their type.
LEMMA ScaledStays ==
  ASSUME NEW l \in ContentsOf("levels"), NEW v \in Scaled[l[1]]
  PROVE  /\ [l EXCEPT ![2] = v] \in ContentsOf("levels")
         /\ \A t \in Data : FitsType(l, t) => FitsType([l EXCEPT ![2] = v], t)
<1>1. l[1] \in Data /\ v \in Data
  BY BlockNames, TypeOfContent, ScaledAssumption DEF Type
<1>2. [l EXCEPT ![2] = v] \in ContentsOf("levels")
  BY <1>1 DEF ContentsOf
<1>3. ASSUME NEW t \in Data, FitsType(l, t)
      PROVE  FitsType([l EXCEPT ![2] = v], t)
  <2>1. LevelsOf(t)[1] = t
    BY BlockNames, PagesAssumption DEF LevelsOf
  <2>2. CASE l = LevelsOf(t)
    BY <2>1, <2>2 DEF FitsType
  <2>3. CASE \E w \in Scaled[t] : l = [LevelsOf(t) EXCEPT ![2] = w]
    <3>1. PICK w \in Scaled[t] : l = [LevelsOf(t) EXCEPT ![2] = w]
      BY <2>3
    <3>2. l[1] = t
      BY <2>1, <3>1 DEF LevelsOf
    <3>3. [l EXCEPT ![2] = v] = [LevelsOf(t) EXCEPT ![2] = v]
      BY <3>1 DEF LevelsOf
    <3> QED
      BY <3>2, <3>3 DEF FitsType
  <2> QED
    BY <1>3, <2>2, <2>3 DEF FitsType
<1> QED
  BY <1>2, <1>3

LEMMA BlindNat == ASSUME NEW answer PROVE Blind(answer) \in Nat
<1>1. IsFiniteSet(Blocks)
  <2>1. Blocks = {"levels"} \union ({"spec"} \union {"run"})
    BY DEF Blocks
  <2>2. IsFiniteSet({"levels"}) /\ IsFiniteSet({"spec"}) /\ IsFiniteSet({"run"})
    BY FS_Singleton
  <2> QED
    BY <2>1, <2>2, FS_Union
<1>2. IsFiniteSet({b \in Blocks : ~answer[b]})
  BY <1>1, FS_Subset
<1> QED
  BY <1>2, FS_CardinalityType DEF Blind

LEMMA TornNoContent ==
  ASSUME NEW b \in Blocks, NEW c \in ContentsOf(b)
  PROVE  c # Torn
BY TornAssumption DEF ContentsOf

\* A whole block holds a content, as a torn page or CRC makes the two differ.
LEMMA IntactContent ==
  ASSUME NEW b \in Blocks, NEW cell \in Cells(b), Intact(cell)
  PROVE  cell.page \in ContentsOf(b) /\ cell.crc = cell.page /\ cell.page # Torn
<1>1. cell.page # Torn
  BY TornAssumption DEF Cells
<1>2. cell.crc = cell.page /\ cell.crc \in ContentsOf(b) \union {Torn}
  BY DEF Intact, Cells
<1> QED
  BY <1>1, <1>2

\* Whatever a transfer leaves, the block stays a cell; its CRC is the old one, the
\* one sent, or torn.
LEMMA LeavesCell ==
  ASSUME NEW b \in Blocks, NEW cell \in Cells(b), NEW p \in 1..Pages[b],
         NEW c \in ContentsOf(b), NEW left \in Leaves(cell, p, c)
  PROVE  left \in Cells(b) /\ left.crc \in {cell.crc, c, Torn}
<1>1. PICK x \in {cell.page[p], c[p], Torn}, y \in {cell.crc, c, Torn} :
        left = [page |-> [cell.page EXCEPT ![p] = x], crc |-> y]
  BY DEF Leaves
<1>2. /\ cell.page \in [1..Pages[b] -> Data \union {Torn}]
      /\ cell.crc \in ContentsOf(b) \union {Torn}
      /\ c \in [1..Pages[b] -> Data]
  BY DEF Cells, ContentsOf
<1>3. x \in Data \union {Torn} /\ y \in ContentsOf(b) \union {Torn}
  BY <1>1, <1>2
<1>4. [cell.page EXCEPT ![p] = x] \in [1..Pages[b] -> Data \union {Torn}]
  BY <1>2, <1>3
<1> QED
  BY <1>1, <1>3, <1>4 DEF Cells

\* Every block is restored whole or by default, the thresholds for the type restored.
LEMMA BootWholeOrDefault ==
  ASSUME NEW cells, NEW answer, \A b \in Blocks : cells[b] \in Cells(b)
  PROVE  /\ Boot(cells, answer) = [b \in Blocks |-> Boot(cells, answer)[b]]
         /\ \A b \in Blocks :
              /\ Boot(cells, answer)[b] \in ContentsOf(b)
              /\ answer[b] /\ Intact(cells[b]) =>
                   Boot(cells, answer)[b] = cells[b].crc
              /\ ~(answer[b] /\ Intact(cells[b])) =>
                   Boot(cells, answer)[b] \in DefaultsOf(b)
         /\ ~Intact(cells["levels"]) =>
              Boot(cells, answer)["levels"] = LevelsOf(Type(Boot(cells, answer)["spec"]))
<1> DEFINE B == Boot(cells, answer)
           Default(b) == [p \in 1..Pages[b] |-> Usual]
<1>1. \A b \in Blocks : Restored(b, cells, answer) =
        IF answer[b] /\ Intact(cells[b]) THEN cells[b].page ELSE Default(b)
  BY DEF Restored
<1>2. \A b \in Blocks : Restored(b, cells, answer) \in ContentsOf(b)
  <2> SUFFICES ASSUME NEW b \in Blocks PROVE Restored(b, cells, answer) \in ContentsOf(b)
    OBVIOUS
  <2>1. Intact(cells[b]) => cells[b].page \in ContentsOf(b)
    BY IntactContent
  <2>2. Default(b) \in ContentsOf(b)
    BY UsualContents
  <2> QED
    BY <1>1, <2>1, <2>2
<1>3. B["levels"] = FaultLevelInit(cells, answer) /\ B["spec"] = Restored("spec", cells, answer)
  BY BlockNames DEF Boot
<1>4. Type(B["spec"]) \in Data
  BY <1>2, <1>3, BlockNames, TypeOfContent
<1>5. FaultLevelInit(cells, answer) =
        IF answer["levels"] /\ Intact(cells["levels"]) THEN cells["levels"].page
        ELSE LevelsOf(Type(B["spec"]))
  BY <1>3 DEF FaultLevelInit
<1>6. ASSUME NEW b \in Blocks
      PROVE  /\ B[b] \in ContentsOf(b)
             /\ answer[b] /\ Intact(cells[b]) => B[b] = cells[b].crc
             /\ ~(answer[b] /\ Intact(cells[b])) => B[b] \in DefaultsOf(b)
  <2>1. Intact(cells[b]) => cells[b].page \in ContentsOf(b) /\ cells[b].crc = cells[b].page
    BY IntactContent
  <2>2. CASE b = "levels"
    <3>1. LevelsOf(Type(B["spec"])) \in ContentsOf(b) \cap DefaultsOf(b)
      BY <1>4, <2>2, LevelsContents DEF DefaultsOf
    <3> QED
      BY <1>3, <1>5, <2>1, <2>2, <3>1
  <2>3. CASE b # "levels"
    <3>1. B[b] = Restored(b, cells, answer)
      BY <2>3 DEF Boot
    <3>2. Default(b) \in DefaultsOf(b)
      BY <2>3 DEF DefaultsOf
    <3> QED
      BY <1>1, <1>2, <2>1, <3>1, <3>2
  <2> QED
    BY <2>2, <2>3
<1>7. B = [b \in Blocks |-> B[b]]
  BY DEF Boot
<1>8. ~Intact(cells["levels"]) => B["levels"] = LevelsOf(Type(B["spec"]))
  BY <1>3, <1>5
<1> QED
  BY <1>6, <1>7, <1>8

\* The limits of a type are set without changing the type.
LEMMA LimitedContent ==
  ASSUME NEW c \in ContentsOf("spec")
  PROVE  Limited(c) \in ContentsOf("spec") /\ Type(Limited(c)) = Type(c)
<1>1. Type(c) \in Data
  BY BlockNames, TypeOfContent
<1>2. c \in [1..Pages["spec"] -> Data]
  BY DEF ContentsOf
<1>3. Limited(c) \in [1..Pages["spec"] -> Data]
  BY <1>1, <1>2 DEF Limited
<1>4. 1 \in 1..Pages["spec"]
  BY PagesAssumption, BlockNames
<1>5. Limited(c)[1] = c[1]
  BY <1>2, <1>4 DEF Limited
<1> QED
  BY <1>3, <1>5 DEF ContentsOf, Type

\* A write leaves contents in all blocks, in its own one of the type written, and
\* changes the thresholds of another block to those of that type only.
LEMMA WrittenContents ==
  ASSUME Shape, \A x \in Blocks : ram[x] \in ContentsOf(x),
         NEW b \in Blocks, NEW c \in ContentsOf(b)
  PROVE  /\ Written(b, c) = [x \in Blocks |-> Written(b, c)[x]]
         /\ \A x \in Blocks : Written(b, c)[x] \in ContentsOf(x)
         /\ b # "levels" => Written(b, c)["levels"] = ram["levels"] \/
              /\ b = "spec"
              /\ Written(b, c)["levels"] = LevelsOf(Type(c))
<1>1. CASE b = "spec" /\ Type(c) # Type(ram[b])
  <2>1. Written(b, c) = [ram EXCEPT !["levels"] = LevelsOf(Type(c)), !["spec"] = Limited(c)]
    BY <1>1 DEF Written
  <2>2. Written(b, c) = [x \in Blocks |-> CASE x = "levels" -> LevelsOf(Type(c))
                                           [] x = "spec" -> Limited(c)
                                           [] OTHER -> ram[x]]
    BY <2>1, BlockNames DEF Shape
  <2>3. LevelsOf(Type(c)) \in ContentsOf("levels") /\ Limited(c) \in ContentsOf("spec")
    BY <1>1, TypeOfContent, LevelsContents, LimitedContent
  <2> QED
    BY <1>1, <2>2, <2>3, BlockNames
<1>2. CASE ~(b = "spec" /\ Type(c) # Type(ram[b]))
  <2>1. Written(b, c) = [x \in Blocks |-> IF x = b THEN c ELSE ram[x]]
    BY <1>2 DEF Written, Shape
  <2> QED
    BY <2>1, BlockNames
<1> QED
  BY <1>1, <1>2

-------------------------------------------------------------------------------
(* The invariant. *)

LEMMA InitGood == ParamInit => PInv
<1> SUFFICES ASSUME ParamInit PROVE PInv
  OBVIOUS
<1>1. ASSUME NEW b \in Blocks
      PROVE  eeprom[b] \in Cells(b) /\ eeprom[b].crc = Torn /\ may[b] = {Torn}
  BY DEF ParamInit, Cells
<1>2. /\ ram = [b \in Blocks |-> ram[b]]
      /\ \A b \in Blocks : ram[b] \in ContentsOf(b)
  <2>1. ram = Boot(eeprom, read) /\ \A b \in Blocks : eeprom[b] \in Cells(b)
    BY <1>1 DEF ParamInit
  <2> QED
    BY <2>1, BootWholeOrDefault
<1>3. Shape
  BY <1>2 DEF ParamInit, Shape
<1>4. read \in [Blocks -> BOOLEAN]
  BY DEF ParamInit
<1>5. job \in [block : Blocks, page : Nat \ {0}, then : {"loop", "run", "reset"}]
      /\ job.page <= Pages[job.block]
  BY BlockNames, PagesAssumption DEF ParamInit, NoJob
<1>6. ParamTypeOK
  <2>1. saves \in 0..MaxSaves /\ faults \in 0..MaxFaults
    BY BoundsAssumption DEF ParamInit
  <2>2. pc = "loop" /\ clean \in BOOLEAN /\ keyed \in BOOLEAN
    BY DEF ParamInit
  <2>3. \A b \in Blocks : /\ ram[b] \in ContentsOf(b)
                          /\ eeprom[b] \in Cells(b)
                          /\ may[b] \subseteq ContentsOf(b) \union {Torn}
    BY <1>1, <1>2
  <2> QED
    BY <1>4, <1>5, <2>1, <2>2, <2>3 DEF ParamTypeOK
<1>7. Found
  BY <1>1 DEF Found
<1> QED
  BY <1>3, <1>6, <1>7 DEF PInv, ParamInit, Sending, Chained, LevelsFitType

(* What the writes have in common. *)

Begun == \E b \in Blocks, then \in {"loop", "run", "reset"} :
           /\ then = "run" => b = "levels"
           /\ BeginSave(b, then)

EditStep == /\ pc = "loop"
            /\ ram' = [b \in Blocks |-> ram'[b]]
            /\ \A b \in Blocks : ram'[b] \in ContentsOf(b)
            /\ keyed' \in BOOLEAN
            /\ keyed' => \/ ram'["levels"] = LevelsOf(Type(ram'["spec"]))
                         \/ /\ keyed /\ Type(ram'["spec"]) = Type(ram["spec"])
                            /\ FitsType(ram["levels"], Type(ram["spec"])) =>
                                 FitsType(ram'["levels"], Type(ram["spec"]))
            /\ UNCHANGED <<pc, job, clean, may, saves>> \/ Begun
            /\ UNCHANGED <<eeprom, read, faults>>

LEMMA RegistersAreEdits ==
  ASSUME PInv, NEW b \in Blocks, NEW c \in ContentsOf(b), pc = "loop",
         ram' = Written(b, c), keyed' = Keyed(b, c),
         UNCHANGED <<pc, job, clean, may, saves>> \/ Begun,
         UNCHANGED <<eeprom, read, faults>>
  PROVE  EditStep
<1>1. Shape /\ (\A x \in Blocks : ram[x] \in ContentsOf(x)) /\ keyed \in BOOLEAN
  BY DEF PInv, ParamTypeOK
<1>2. /\ ram' = [x \in Blocks |-> ram'[x]]
      /\ \A x \in Blocks : ram'[x] \in ContentsOf(x)
  BY <1>1, WrittenContents
<1>3. keyed' \in BOOLEAN
  BY <1>1 DEF Keyed
<1>4. keyed' => \/ ram'["levels"] = LevelsOf(Type(ram'["spec"]))
                \/ /\ keyed /\ ram'["levels"] = ram["levels"]
                   /\ Type(ram'["spec"]) = Type(ram["spec"])
  <2>1. CASE b = "spec" /\ Type(c) # Type(ram[b])
    <3>1. ram' = [ram EXCEPT !["levels"] = LevelsOf(Type(c)), !["spec"] = Limited(c)]
      BY <2>1 DEF Written
    <3>2. ram'["levels"] = LevelsOf(Type(c)) /\ ram'["spec"] = Limited(c)
      BY <1>1, <3>1, BlockNames DEF Shape
    <3>3. Type(Limited(c)) = Type(c)
      BY <2>1, LimitedContent
    <3> QED
      BY <3>2, <3>3
  <2>2. CASE ~(b = "spec" /\ Type(c) # Type(ram[b]))
    <3>1. ram' = [ram EXCEPT ![b] = c]
      BY <2>2 DEF Written
    <3>2. keyed' => keyed /\ b # "levels"
      BY <2>2 DEF Keyed
    <3>3. b # "levels" => ram'["levels"] = ram["levels"]
      BY <3>1, <1>1, BlockNames DEF Shape
    <3>4. Type(ram'["spec"]) = Type(ram["spec"])
      BY <3>1, <2>2, <1>1, BlockNames DEF Shape
    <3> QED
      BY <3>2, <3>3, <3>4
  <2> QED
    BY <2>1, <2>2
<1> QED
  BY <1>2, <1>3, <1>4 DEF EditStep

\* One page of a content is set.
LEMMA PageSet ==
  ASSUME NEW b \in Blocks, NEW c \in ContentsOf(b), NEW p \in 1..Pages[b], NEW d \in Data
  PROVE  /\ [c EXCEPT ![p] = d] \in ContentsOf(b)
         /\ p # 1 => Type([c EXCEPT ![p] = d]) = Type(c)
BY PagesAssumption DEF ContentsOf, Type

LEMMA WritesAreEdits == PInv /\ Write => EditStep
<1> SUFFICES ASSUME PInv, Write PROVE EditStep
  OBVIOUS
<1>1. Shape /\ (\A x \in Blocks : ram[x] \in ContentsOf(x)) /\ keyed \in BOOLEAN
  BY DEF PInv, ParamTypeOK
<1>2. CASE \E b \in Blocks, d \in Data : \E p \in 1..Pages[b] :
             WriteHoldingRegisterSingle(b, p, d)
  <2>1. PICK b \in Blocks, d \in Data : \E p \in 1..Pages[b] :
             WriteHoldingRegisterSingle(b, p, d)
    BY <1>2
  <2>2. PICK p \in 1..Pages[b] : WriteHoldingRegisterSingle(b, p, d)
    BY <2>1
  <2> DEFINE c == [ram[b] EXCEPT ![p] = d]
  <2>3. c \in ContentsOf(b)
    BY <1>1, PageSet
  <2>4. pc = "loop" /\ UNCHANGED <<eeprom, read, faults>>
    BY <2>2 DEF WriteHoldingRegisterSingle
  <2>5. CASE ram' = Written(b, c) /\ keyed' = Keyed(b, c)
             /\ UNCHANGED <<pc, job, clean, may, saves>>
    BY <2>3, <2>4, <2>5, RegistersAreEdits
  <2>6. CASE UNCHANGED <<ram, keyed>> /\ BeginSave(b, "reset")
    <3>1. Begun
      BY <2>6 DEF Begun
    <3> QED
      BY <1>1, <2>4, <2>6, <3>1 DEF EditStep, Shape
  <2> QED
    BY <2>2, <2>5, <2>6 DEF WriteHoldingRegisterSingle
<1>3. CASE \E b \in Blocks : \E c \in ContentsOf(b) : WriteHoldingRegisterMulti(b, c)
  <2>1. PICK b \in Blocks : \E c \in ContentsOf(b) : WriteHoldingRegisterMulti(b, c)
    BY <1>3
  <2>2. PICK c \in ContentsOf(b) : WriteHoldingRegisterMulti(b, c)
    BY <2>1
  <2>3. BeginSave(b, IF b = "run" THEN "loop" ELSE "reset") => Begun
    BY DEF Begun
  <2>4. /\ pc = "loop" /\ ram' = Written(b, c) /\ keyed' = Keyed(b, c)
        /\ (UNCHANGED <<pc, job, clean, may, saves>> \/ Begun)
        /\ UNCHANGED <<eeprom, read, faults>>
    BY <2>2, <2>3 DEF WriteHoldingRegisterMulti
  <2> QED
    BY <2>4, RegistersAreEdits
<1>4. CASE \E b \in {"levels", "spec"}, d \in Data : \E p \in 1..Pages[b] :
             /\ b = "spec" => p > 1
             /\ CanWrite(b, p, d)
  <2>1. PICK b \in {"levels", "spec"}, d \in Data : \E p \in 1..Pages[b] :
             /\ b = "spec" => p > 1
             /\ CanWrite(b, p, d)
    BY <1>4
  <2>2. PICK p \in 1..Pages[b] : (b = "spec" => p > 1) /\ CanWrite(b, p, d)
    BY <2>1
  <2> DEFINE c == [ram[b] EXCEPT ![p] = d]
  <2>3. (b \in Blocks /\ p # 1) \/ b = "levels"
    BY <2>1, <2>2, BlockNames
  <2>4. /\ c \in ContentsOf(b)
        /\ p # 1 => Type(c) = Type(ram[b])
    BY <1>1, <2>1, BlockNames, PageSet
  <2>5. ram' = [x \in Blocks |-> IF x = b THEN c ELSE ram[x]]
    BY <1>1, <2>2 DEF CanWrite, Shape
  <2>6. keyed' = (keyed /\ b # "levels")
    BY <2>2 DEF CanWrite
  <2>7. BeginSave("levels", "run")
    BY <2>2 DEF CanWrite
  <2>8. Begun
    BY <2>7, BlockNames DEF Begun
  <2>9. keyed' => /\ keyed /\ ram'["levels"] = ram["levels"]
                  /\ Type(ram'["spec"]) = Type(ram["spec"])
    BY <2>1, <2>3, <2>4, <2>5, <2>6, BlockNames
  <2>10. keyed' \in BOOLEAN
    BY <1>1, <2>6
  <2>11. \A x \in Blocks : ram'[x] \in ContentsOf(x)
    BY <1>1, <2>4, <2>5
  <2>12. ram' = [x \in Blocks |-> ram'[x]]
    BY <2>5
  <2> QED
    BY <2>2, <2>8, <2>9, <2>10, <2>11, <2>12 DEF EditStep, CanWrite
<1>5. CASE \E c \in ContentsOf("run") : SaveRun(c)
  <2>1. PICK c \in ContentsOf("run") : SaveRun(c)
    BY <1>5
  <2>2. ram' = [x \in Blocks |-> IF x = "run" THEN c ELSE ram[x]]
    BY <1>1, <2>1 DEF SaveRun, Shape
  <2>3. Begun
    BY <2>1, BlockNames DEF Begun, SaveRun
  <2>4. \A x \in Blocks : ram'[x] \in ContentsOf(x)
    BY <1>1, <2>1, <2>2
  <2>5. ram'["levels"] = ram["levels"] /\ ram'["spec"] = ram["spec"]
    BY <2>2, BlockNames
  <2>6. ram' = [x \in Blocks |-> ram'[x]]
    BY <2>2
  <2>7. keyed' = keyed /\ pc = "loop" /\ UNCHANGED <<eeprom, read, faults>>
    BY <2>1 DEF SaveRun
  <2> QED
    BY <1>1, <2>3, <2>4, <2>5, <2>6, <2>7 DEF EditStep
<1>6. CASE \E v \in Scaled[ram["levels"][1]] : BrokenDetect(v)
  <2>1. PICK v \in Scaled[ram["levels"][1]] : BrokenDetect(v)
    BY <1>6
  <2> DEFINE l == ram["levels"]
             m == [l EXCEPT ![2] = v]
  <2>2. l \in ContentsOf("levels") /\ ram["spec"] \in ContentsOf("spec")
    BY <1>1, BlockNames
  <2>3. ram' = [x \in Blocks |-> IF x = "levels" THEN m ELSE ram[x]]
    BY <1>1, <2>1, BlockNames DEF BrokenDetect, Shape
  <2>4. Type(ram["spec"]) \in Data
    BY <2>2, BlockNames, TypeOfContent
  <2>5. m \in ContentsOf("levels")
    BY <2>2, ScaledStays
  <2>6. FitsType(l, Type(ram["spec"])) => FitsType(m, Type(ram["spec"]))
    BY <2>2, <2>4, ScaledStays
  <2>7. /\ ram' = [x \in Blocks |-> ram'[x]] /\ ram'["levels"] = m
        /\ ram'["spec"] = ram["spec"]
        /\ \A x \in Blocks : ram'[x] \in ContentsOf(x)
    BY <1>1, <2>3, <2>5, BlockNames
  <2>8. /\ pc = "loop" /\ keyed' = keyed
        /\ UNCHANGED <<pc, job, clean, may, saves>>
        /\ UNCHANGED <<eeprom, read, faults>>
    BY <2>1 DEF BrokenDetect
  <2> QED
    BY <1>1, <2>6, <2>7, <2>8 DEF EditStep
<1> QED
  BY <1>2, <1>3, <1>4, <1>5, <1>6 DEF Write

-------------------------------------------------------------------------------
(* The steps preserve the invariant. *)

JobType == /\ job \in [block : Blocks, page : Nat \ {0}, then : {"loop", "run", "reset"}]
           /\ job.page <= Pages[job.block]

LEMMA FirstPage ==
  ASSUME NEW b \in Blocks, NEW then \in {"loop", "run", "reset"}
  PROVE  /\ [block |-> b, page |-> 1, then |-> then] \in
              [block : Blocks, page : Nat \ {0}, then : {"loop", "run", "reset"}]
         /\ 1 <= Pages[b]
BY PagesAssumption

LEMMA EditGood == PInv /\ EditStep => PInv'
<1> SUFFICES ASSUME PInv, EditStep PROVE PInv'
  OBVIOUS
<1>1. /\ pc = "loop" /\ UNCHANGED <<eeprom, read, faults>>
      /\ ram' = [b \in Blocks |-> ram'[b]]
      /\ \A b \in Blocks : ram'[b] \in ContentsOf(b)
      /\ keyed' \in BOOLEAN
  BY DEF EditStep
<1>2. CASE UNCHANGED <<pc, job, clean, may, saves>>
  <2>1. ParamTypeOK'
    BY <1>1, <1>2 DEF PInv, ParamTypeOK, Cells, ContentsOf
  <2>2. Shape' /\ Found' /\ Sending' /\ Chained'
    BY <1>1, <1>2 DEF PInv, Shape, Found, Sending, Chained, Intact
  <2>3. LevelsFitType'
    BY <1>2 DEF PInv, LevelsFitType, EditStep, FitsType
  <2> QED
    BY <2>1, <2>2, <2>3 DEF PInv
<1>3. CASE Begun
  <2>1. PICK b \in Blocks, then \in {"loop", "run", "reset"} :
          (then = "run" => b = "levels") /\ BeginSave(b, then)
    BY <1>3 DEF Begun
  <2>2. /\ saves < MaxSaves /\ saves' = saves + 1
        /\ pc' = "send" /\ clean' = TRUE
        /\ job' = [block |-> b, page |-> 1, then |-> then]
        /\ may' = [x \in Blocks |-> IF x = b THEN may[x] \union {ram'[b], Torn} ELSE may[x]]
    BY <2>1 DEF BeginSave, PInv, Shape
  <2>3. JobType'
    BY <2>2, FirstPage DEF JobType
  <2>4. saves' \in 0..MaxSaves
    BY <2>2, BoundsAssumption DEF PInv, ParamTypeOK
  <2>5. \A x \in Blocks : may'[x] \subseteq ContentsOf(x) \union {Torn}
    BY <1>1, <2>2 DEF PInv, ParamTypeOK
  <2>6. \A x \in Blocks : eeprom'[x] \in Cells(x)
    BY <1>1 DEF PInv, ParamTypeOK
  <2>7. ParamTypeOK'
    BY <1>1, <2>2, <2>3, <2>4, <2>5, <2>6
       DEF PInv, ParamTypeOK, JobType, Cells, ContentsOf
  <2>8. Shape'
    BY <1>1, <2>2 DEF PInv, Shape
  <2>9. Found'
    BY <1>1, <2>2 DEF PInv, Found
  <2>10. Sending' /\ Chained'
    BY <2>1, <2>2 DEF Sending, Chained
  <2>11. LevelsFitType'
    <3>1. SUFFICES ASSUME keyed', may'["levels"] = {Torn}
                   PROVE  FitsType(ram'["levels"], Type(ram'["spec"]))
      BY DEF LevelsFitType
    <3>2. ram'[b] # Torn
      BY <1>1, TornNoContent
    <3>3. b # "levels" /\ may["levels"] = {Torn}
      BY <2>2, <3>1, <3>2, BlockNames
    <3> QED
      BY <3>1, <3>3 DEF PInv, LevelsFitType, EditStep, FitsType
  <2> QED
    BY <2>7, <2>8, <2>9, <2>10, <2>11 DEF PInv
<1> QED
  BY <1>2, <1>3 DEF EditStep

LEMMA SendGood == PInv /\ SendPage => PInv'
<1> SUFFICES ASSUME PInv, SendPage PROVE PInv'
  OBVIOUS
<1> DEFINE b == job.block
           p == job.page
           sent == Sent(eeprom[b], p, ram[b])
<1>1. PICK left \in Leaves(eeprom[b], p, ram[b]) :
        /\ left = sent \/ faults < MaxFaults
        /\ eeprom' = [eeprom EXCEPT ![b] = left]
        /\ clean' = (clean /\ left = sent)
        /\ faults' = IF left = sent THEN faults ELSE faults + 1
  BY DEF SendPage
<1>2. /\ pc = "send"
      /\ IF LastPage THEN pc' = "check" /\ UNCHANGED job
         ELSE job' = [job EXCEPT !.page = @ + 1] /\ UNCHANGED pc
      /\ UNCHANGED <<ram, may, read, keyed, saves>>
  BY DEF SendPage
<1>3. b \in Blocks /\ p \in 1..Pages[b]
  BY PagesAssumption DEF PInv, ParamTypeOK
<1>4. eeprom[b] \in Cells(b) /\ ram[b] \in ContentsOf(b)
  BY <1>3 DEF PInv, ParamTypeOK
<1>5. left \in Cells(b) /\ left.crc \in {eeprom[b].crc, ram[b], Torn}
  BY <1>1, <1>3, <1>4, LeavesCell
<1>6. eeprom' = [x \in Blocks |-> IF x = b THEN left ELSE eeprom[x]]
  BY <1>1 DEF PInv, Shape
<1>7. {ram[b], Torn} \subseteq may[b]
  BY <1>2 DEF PInv, Sending
<1>8. JobType' /\ job'.block = b
  <2>1. CASE LastPage
    BY <1>2, <2>1 DEF PInv, ParamTypeOK, JobType
  <2>2. CASE ~LastPage
    <3>1. /\ job' \in [block : Blocks, page : Nat \ {0}, then : {"loop", "run", "reset"}]
          /\ job'.block = b /\ job'.page = p + 1
      BY <1>2, <2>2 DEF PInv, ParamTypeOK
    <3>2. p + 1 <= Pages[b]
      BY <1>3, <2>2, PagesAssumption DEF LastPage
    <3> QED
      BY <3>1, <3>2 DEF JobType
  <2> QED
    BY <2>1, <2>2
<1>9. faults' \in 0..MaxFaults
  BY <1>1, BoundsAssumption DEF PInv, ParamTypeOK
<1>10. pc' \in {"send", "check"} /\ clean' \in BOOLEAN
  BY <1>1, <1>2 DEF PInv, ParamTypeOK
<1>11. \A x \in Blocks : /\ eeprom'[x] \in Cells(x) /\ ram'[x] \in ContentsOf(x)
                         /\ may'[x] \subseteq ContentsOf(x) \union {Torn}
  BY <1>2, <1>5, <1>6 DEF PInv, ParamTypeOK
<1>12. ParamTypeOK'
  BY <1>2, <1>8, <1>9, <1>10, <1>11 DEF PInv, ParamTypeOK, JobType, Cells, ContentsOf
<1>13. Shape'
  BY <1>2, <1>6 DEF PInv, Shape
<1>14. Found'
  BY <1>2, <1>3, <1>5, <1>6, <1>7 DEF PInv, Found
<1>15. LevelsFitType'
  BY <1>2 DEF PInv, LevelsFitType
<1>17. Chained'
  BY <1>2 DEF PInv, ParamTypeOK, Chained
<1>16. Sending'
  <2>1. {ram'[b], Torn} \subseteq may'[b]
    BY <1>2, <1>7
  <2>2. ASSUME clean'
        PROVE  /\ clean /\ eeprom'[b] = sent
               /\ \A q \in 1..p : eeprom'[b].page[q] = ram[b][q]
    <3>1. clean /\ eeprom'[b] = sent
      BY <1>1, <1>3, <1>6, <2>2
    <3>2. \A q \in 1..(p - 1) : eeprom[b].page[q] = ram[b][q]
      BY <1>2, <3>1 DEF PInv, Sending
    <3>3. eeprom'[b].page = [eeprom[b].page EXCEPT ![p] = ram[b][p]]
      BY <3>1 DEF Sent
    <3>4. eeprom[b].page \in [1..Pages[b] -> Data \union {Torn}]
      BY <1>4 DEF Cells
    <3> QED
      BY <1>3, <3>1, <3>2, <3>3, <3>4, PagesAssumption
  <2>3. CASE LastPage
    <3>1. p = Pages[b] /\ pc' = "check" /\ UNCHANGED job
      BY <1>2, <2>3 DEF LastPage
    <3>2. ASSUME clean' PROVE eeprom'[b].page = ram[b] /\ eeprom'[b].crc = ram[b]
      <4>1. \A q \in 1..Pages[b] : eeprom'[b].page[q] = ram[b][q]
        BY <2>2, <3>1, <3>2
      <4>2. eeprom'[b].page \in [1..Pages[b] -> Data \union {Torn}]
        BY <1>3, <1>11 DEF Cells
      <4>3. ram[b] \in [1..Pages[b] -> Data]
        BY <1>4 DEF ContentsOf
      <4>4. eeprom'[b].crc = ram[b]
        BY <2>2, <3>1, <3>2, <4>3 DEF Sent
      <4>5. eeprom'[b].page = [q \in 1..Pages[b] |-> eeprom'[b].page[q]]
            /\ ram[b] = [q \in 1..Pages[b] |-> ram[b][q]]
        BY <4>2, <4>3
      <4> QED
        BY <4>1, <4>4, <4>5
    <3> QED
      BY <1>2, <2>1, <3>1, <3>2 DEF Sending
  <2>4. CASE ~LastPage
    <3>1. job'.page - 1 = p /\ job'.block = b /\ pc' = "send"
      BY <1>2, <1>3, <2>4, PagesAssumption DEF PInv, ParamTypeOK
    <3> QED
      BY <1>2, <2>1, <2>2, <3>1 DEF Sending
  <2> QED
    BY <2>3, <2>4
<1> QED
  BY <1>12, <1>13, <1>14, <1>15, <1>16, <1>17 DEF PInv

LEMMA CheckGood == ASSUME NEW answers \in BOOLEAN, PInv, CheckSave(answers) PROVE PInv'
<1> DEFINE b == job.block
           stored == IF clean THEN [may EXCEPT ![b] = {ram[b]}] ELSE may
<1>1. /\ pc = "check" /\ UNCHANGED <<ram, eeprom, read, keyed, saves>>
      /\ faults' \in 0..MaxFaults
  BY BoundsAssumption DEF CheckSave, PInv, ParamTypeOK
<1>2. b \in Blocks
  BY DEF PInv, ParamTypeOK
<1>3. /\ stored = [x \in Blocks |-> IF x = b /\ clean THEN {ram[b]} ELSE may[x]]
      /\ \A x \in Blocks : stored[x] = IF x = b /\ clean THEN {ram[b]} ELSE may[x]
  BY DEF PInv, Shape
<1>4. ASSUME NEW x \in Blocks
      PROVE  /\ stored[x] \subseteq ContentsOf(x) \union {Torn}
             /\ eeprom[x].crc \in stored[x] \union {Torn}
             /\ Intact(eeprom[x]) \/ Torn \in stored[x]
  BY <1>1, <1>3 DEF PInv, ParamTypeOK, Found, Sending, Intact
<1>5. stored["levels"] = {Torn} => may["levels"] = {Torn}
  <2>1. ram["levels"] # Torn
    BY BlockNames, TornNoContent DEF PInv, ParamTypeOK
  <2> QED
    BY <1>3, <2>1, BlockNames
<1>6. \A x \in Blocks : ram'[x] \in ContentsOf(x) /\ eeprom'[x] \in Cells(x)
  BY <1>1 DEF PInv, ParamTypeOK
<1>7. CASE job.then = "run"
  <2>1. /\ may' = [stored EXCEPT !["run"] = @ \union {ram["run"], Torn}]
        /\ pc' = "send" /\ clean' = TRUE
        /\ job' = [block |-> "run", page |-> 1, then |-> "loop"]
    BY <1>7 DEF CheckSave
  <2>2. may' = [x \in Blocks |-> IF x = "run" THEN stored[x] \union {ram[x], Torn}
                                 ELSE stored[x]]
    BY <1>3, <2>1
  <2>3. JobType'
    BY <2>1, BlockNames, FirstPage DEF JobType
  <2>4. \A x \in Blocks : may'[x] \subseteq ContentsOf(x) \union {Torn}
    BY <1>1, <1>4, <1>6, <2>2
  <2>5. ParamTypeOK'
    BY <1>1, <1>6, <2>1, <2>3, <2>4 DEF PInv, ParamTypeOK, JobType, Cells, ContentsOf
  <2>6. Shape' /\ Found'
    BY <1>1, <1>4, <2>2 DEF PInv, Shape, Found, Intact
  <2>7. Sending' /\ Chained'
    BY <1>1, <2>1, <2>2, BlockNames DEF Sending, Chained
  <2>8. LevelsFitType'
    BY <1>1, <1>5, <2>2, BlockNames DEF PInv, LevelsFitType
  <2> QED
    BY <2>5, <2>6, <2>7, <2>8 DEF PInv
<1>8. CASE job.then # "run"
  <2>1. /\ may' = stored /\ pc' \in {"reset", "loop"}
        /\ job' = NoJob /\ clean' = TRUE
    BY <1>8 DEF CheckSave
  <2>2. JobType'
    BY <2>1, BlockNames, FirstPage DEF JobType, NoJob
  <2>3. ParamTypeOK'
    BY <1>1, <1>4, <1>6, <2>1, <2>2 DEF PInv, ParamTypeOK, JobType, Cells, ContentsOf
  <2>4. Shape' /\ Found'
    BY <1>1, <1>3, <1>4, <2>1 DEF PInv, Shape, Found, Intact
  <2>5. Sending' /\ Chained'
    BY <2>1 DEF Sending, Chained
  <2>6. LevelsFitType'
    BY <1>1, <1>5, <2>1 DEF PInv, LevelsFitType
  <2> QED
    BY <2>3, <2>4, <2>5, <2>6 DEF PInv
<1> QED
  BY <1>7, <1>8

\* A start, on an EEPROM in which may[b] tells what is found.
Started == /\ Reboot
           /\ eeprom' = [b \in Blocks |-> eeprom'[b]]
           /\ \A b \in Blocks : /\ eeprom'[b] \in Cells(b)
                                /\ eeprom'[b].crc \in may[b] \union {Torn}
                                /\ Intact(eeprom'[b]) \/ Torn \in may[b]

LEMMA StartsAreStarted == PInv /\ (Restart \/ PowerCut) => Started
<1> SUFFICES ASSUME PInv, Restart \/ PowerCut PROVE Started
  OBVIOUS
<1>1. CASE UNCHANGED eeprom
  BY <1>1 DEF PInv, ParamTypeOK, Shape, Found, Started, Restart, PowerCut
<1>2. CASE /\ pc = "send" /\ Reboot
           /\ \E left \in Leaves(eeprom[job.block], job.page, ram[job.block]) :
                eeprom' = [eeprom EXCEPT ![job.block] = left]
  <2> DEFINE b == job.block
  <2>1. PICK left \in Leaves(eeprom[b], job.page, ram[b]) :
          eeprom' = [eeprom EXCEPT ![b] = left]
    BY <1>2
  <2>2. b \in Blocks /\ job.page \in 1..Pages[b]
    BY PagesAssumption DEF PInv, ParamTypeOK
  <2>3. eeprom[b] \in Cells(b) /\ ram[b] \in ContentsOf(b)
    BY <2>2 DEF PInv, ParamTypeOK
  <2>4. left \in Cells(b) /\ left.crc \in {eeprom[b].crc, ram[b], Torn}
    BY <2>1, <2>2, <2>3, LeavesCell
  <2>5. eeprom' = [x \in Blocks |-> IF x = b THEN left ELSE eeprom[x]]
    BY <2>1 DEF PInv, Shape
  <2>6. {ram[b], Torn} \subseteq may[b]
    BY <1>2 DEF PInv, Sending
  <2>7. \A x \in Blocks : /\ eeprom[x] \in Cells(x)
                          /\ eeprom[x].crc \in may[x] \union {Torn}
                          /\ Intact(eeprom[x]) \/ Torn \in may[x]
    BY DEF PInv, ParamTypeOK, Found
  <2> QED
    BY <1>2, <2>2, <2>4, <2>5, <2>6, <2>7 DEF Started
<1> QED
  BY <1>1, <1>2 DEF Restart, PowerCut

\* What is restored is one of the contents that may be found, or a default.
LEMMA StartedFinds ==
  ASSUME Started, NEW b \in Blocks
  PROVE  /\ ram'[b] \in ContentsOf(b)
         /\ \E found \in may[b] :
              ram'[b] \in IF read'[b] /\ found # Torn THEN {found} ELSE DefaultsOf(b)
<1>1. ram' = Boot(eeprom', read') /\ \A x \in Blocks : eeprom'[x] \in Cells(x)
  BY DEF Started, Reboot
<1>2. /\ ram'[b] \in ContentsOf(b)
      /\ read'[b] /\ Intact(eeprom'[b]) => ram'[b] = eeprom'[b].crc
      /\ ~(read'[b] /\ Intact(eeprom'[b])) => ram'[b] \in DefaultsOf(b)
  BY <1>1, BootWholeOrDefault
<1>3. Intact(eeprom'[b]) => eeprom'[b].crc # Torn
  BY <1>1, IntactContent
<1>4. /\ eeprom'[b].crc \in may[b] \union {Torn}
      /\ Intact(eeprom'[b]) \/ Torn \in may[b]
  BY DEF Started
<1>5. CASE Intact(eeprom'[b])
  <2>1. eeprom'[b].crc \in may[b] /\ eeprom'[b].crc # Torn
    BY <1>3, <1>4, <1>5
  <2>2. ram'[b] \in IF read'[b] /\ eeprom'[b].crc # Torn THEN {eeprom'[b].crc}
                    ELSE DefaultsOf(b)
    BY <1>2, <1>5, <2>1
  <2> QED
    BY <1>2, <2>1, <2>2
<1>6. CASE ~Intact(eeprom'[b])
  <2>1. Torn \in may[b] /\ ram'[b] \in DefaultsOf(b)
    BY <1>2, <1>4, <1>6
  <2> QED
    BY <1>2, <2>1
<1> QED
  BY <1>5, <1>6

LEMMA StartedGood == PInv /\ Started => PInv'
<1> SUFFICES ASSUME PInv, Started PROVE PInv'
  OBVIOUS
<1>1. /\ read' \in [Blocks -> BOOLEAN]
      /\ faults + Blind(read') <= MaxFaults /\ faults' = faults + Blind(read')
      /\ ram' = Boot(eeprom', read')
      /\ keyed' = (keyed /\ Type(ram'["spec"]) = Type(ram["spec"]))
      /\ pc' = "loop" /\ job' = NoJob /\ clean' = TRUE
      /\ UNCHANGED <<may, saves>>
  BY DEF Started, Reboot
<1>2. faults' \in 0..MaxFaults
  <2>1. Blind(read') \in Nat
    BY BlindNat
  <2> QED
    BY <1>1, <2>1, BoundsAssumption DEF PInv, ParamTypeOK
<1>3. JobType'
  BY <1>1, BlockNames, FirstPage DEF JobType, NoJob
<1>4. \A b \in Blocks : ram'[b] \in ContentsOf(b) /\ eeprom'[b] \in Cells(b)
  BY StartedFinds DEF Started
<1>5. keyed' \in BOOLEAN
  BY <1>1 DEF PInv, ParamTypeOK
<1>6. ParamTypeOK'
  BY <1>1, <1>2, <1>3, <1>4, <1>5 DEF PInv, ParamTypeOK, JobType, Cells, ContentsOf
<1>7. \A b \in Blocks : eeprom'[b] \in Cells(b)
  BY <1>4
<1>8. ram' = [b \in Blocks |-> ram'[b]]
  BY <1>1, <1>7, BootWholeOrDefault
<1>9. Shape' /\ Found'
  BY <1>1, <1>8 DEF PInv, Shape, Found, Started, Intact
<1>10. Sending' /\ Chained'
  BY <1>1 DEF Sending, Chained
<1>11. LevelsFitType'
  <2>1. SUFFICES ASSUME may["levels"] = {Torn}
                 PROVE  ram'["levels"] = LevelsOf(Type(ram'["spec"]))
    BY <1>1 DEF LevelsFitType, FitsType
  <2>2. ~Intact(eeprom'["levels"])
    BY <1>7, <2>1, BlockNames, IntactContent DEF Started
  <2> QED
    BY <1>1, <1>7, <2>2, BootWholeOrDefault
<1> QED
  BY <1>6, <1>9, <1>10, <1>11 DEF PInv

LEMMA InvInductive == PInv /\ [ParamNext]_paramVars => PInv'
<1> SUFFICES ASSUME PInv, [ParamNext]_paramVars PROVE PInv'
  OBVIOUS
<1>1. CASE Write
  BY <1>1, WritesAreEdits, EditGood
<1>2. CASE SendPage
  BY <1>2, SendGood
<1>3. CASE \E answers \in BOOLEAN : CheckSave(answers)
  BY <1>3, CheckGood
<1>4. CASE Restart \/ PowerCut
  BY <1>4, StartsAreStarted, StartedGood
<1>5. CASE UNCHANGED paramVars
  BY <1>5 DEF paramVars, PInv, ParamTypeOK, Shape, Found, Sending, Chained, LevelsFitType,
              Cells, ContentsOf, Intact
<1> QED
  BY <1>1, <1>2, <1>3, <1>4, <1>5 DEF ParamNext

LEMMA InvAlways == ParamSpec => []PInv
BY InitGood, InvInductive, PTL DEF ParamSpec

\* In every reachable state the copies are contents, the EEPROM whole or torn pages,
\* and a save stays within its block (the copies of UserDef.h, sE2PWrCtrl).
THEOREM ParamTypeCorrect == ParamSpec => []ParamTypeOK
<1>1. PInv => ParamTypeOK
  BY DEF PInv
<1> QED
  BY <1>1, InvAlways, PTL

\* Thresholds that were never written or saved belong to the battery type, through
\* every change of type, every restart and whatever is worked out from them for the
\* pack (FaultLevelOneKey, FaultLevelInit, BrokenDetect).
THEOREM LevelsFitTypeHolds == ParamSpec => []LevelsFitType
<1>1. PInv => LevelsFitType
  BY DEF PInv
<1> QED
  BY <1>1, InvAlways, PTL

-------------------------------------------------------------------------------
(* Each block implements ParamStore. *)

\* A step of ParamStore, spelled out for block b.
StoreStep(b) ==
  \/ /\ ram'[b] = ram[b] /\ may'[b] = may[b] /\ read'[b] = read[b]
     /\ Saving(b)' <=> Saving(b)
  \/ /\ ~Saving(b) /\ ~Saving(b)'
     /\ ram'[b] \in ContentsOf(b)
     /\ may'[b] = may[b] /\ read'[b] = read[b]
  \/ /\ ~Saving(b) /\ Saving(b)'
     /\ ram'[b] \in ContentsOf(b)
     /\ may'[b] = may[b] \union {ram'[b], Torn} /\ read'[b] = read[b]
  \/ /\ Saving(b) /\ ~Saving(b)'
     /\ ram'[b] = ram[b] /\ may'[b] \in {may[b], {ram[b]}} /\ read'[b] = read[b]
  \/ /\ read'[b] \in BOOLEAN
     /\ \E found \in may[b] :
          ram'[b] \in IF read'[b] /\ found # Torn THEN {found} ELSE DefaultsOf(b)
     /\ ~Saving(b)' /\ may'[b] = may[b]

LEMMA EditStores == ASSUME PInv, EditStep, NEW b \in Blocks PROVE StoreStep(b)
<1>1. /\ pc = "loop" /\ ~Saving(b) /\ ram'[b] \in ContentsOf(b) /\ read' = read
  BY DEF EditStep, Saving
<1>2. CASE UNCHANGED <<pc, job, clean, may, saves>>
  BY <1>1, <1>2 DEF StoreStep, Saving
<1>3. CASE Begun
  <2>1. PICK x \in Blocks, then \in {"loop", "run", "reset"} : BeginSave(x, then)
    BY <1>3 DEF Begun
  <2>2. /\ pc' = "send" /\ job'.block = x
        /\ may' = [y \in Blocks |-> IF y = x THEN may[y] \union {ram'[x], Torn} ELSE may[y]]
    BY <2>1 DEF BeginSave, PInv, Shape
  <2>3. Saving(b)' <=> b = x
    BY <2>2 DEF Saving
  <2> QED
    BY <1>1, <2>2, <2>3 DEF StoreStep
<1> QED
  BY <1>2, <1>3 DEF EditStep

LEMMA SendStores == ASSUME PInv, SendPage, NEW b \in Blocks PROVE StoreStep(b)
<1>1. /\ pc = "send" /\ pc' \in {"send", "check"} /\ job'.block = job.block
      /\ UNCHANGED <<ram, may, read>>
  BY DEF SendPage, PInv, ParamTypeOK
<1> QED
  BY <1>1 DEF StoreStep, Saving

LEMMA CheckStores ==
  ASSUME PInv, NEW answers \in BOOLEAN, CheckSave(answers), NEW b \in Blocks
  PROVE  StoreStep(b)
<1> DEFINE stored == IF clean THEN [may EXCEPT ![job.block] = {ram[job.block]}] ELSE may
<1>1. pc = "check" /\ UNCHANGED <<ram, read>>
  BY DEF CheckSave
<1>2. /\ \A x \in Blocks : stored[x] = IF x = job.block /\ clean THEN {ram[x]} ELSE may[x]
      /\ stored = [x \in Blocks |-> stored[x]]
  BY DEF PInv, Shape
<1>3. ram[b] \in ContentsOf(b)
  BY DEF PInv, ParamTypeOK
<1>4. CASE job.then = "run"
  <2>1. /\ may' = [stored EXCEPT !["run"] = @ \union {ram["run"], Torn}]
        /\ pc' = "send" /\ job'.block = "run"
    BY <1>4 DEF CheckSave
  <2>2. may'[b] = IF b = "run" THEN stored[b] \union {ram[b], Torn} ELSE stored[b]
    BY <1>2, <2>1
  <2>3. job.block = "levels"
    BY <1>1, <1>4 DEF PInv, Chained
  <2> QED
    BY <1>1, <1>2, <1>3, <2>1, <2>2, <2>3 DEF StoreStep, Saving
<1>5. CASE job.then # "run"
  <2>1. may' = stored /\ pc' \in {"reset", "loop"}
    BY <1>5 DEF CheckSave
  <2> QED
    BY <1>1, <1>2, <1>3, <2>1 DEF StoreStep, Saving
<1> QED
  BY <1>4, <1>5

LEMMA StartStores == ASSUME PInv, Started, NEW b \in Blocks PROVE StoreStep(b)
<1>1. /\ pc' = "loop" /\ may' = may /\ read' \in [Blocks -> BOOLEAN]
  BY DEF Started, Reboot
<1> QED
  BY <1>1, StartedFinds DEF StoreStep, Saving

LEMMA StepStores ==
  ASSUME PInv, [ParamNext]_paramVars, NEW b \in Blocks
  PROVE  StoreStep(b)
<1>1. CASE Write
  BY <1>1, WritesAreEdits, EditStores
<1>2. CASE SendPage
  BY <1>2, SendStores
<1>3. CASE \E answers \in BOOLEAN : CheckSave(answers)
  BY <1>3, CheckStores
<1>4. CASE Restart \/ PowerCut
  BY <1>4, StartsAreStarted, StartStores
<1>5. CASE UNCHANGED paramVars
  BY <1>5 DEF paramVars, StoreStep, Saving
<1> QED
  BY <1>1, <1>2, <1>3, <1>4, <1>5 DEF ParamNext

\* The EEPROM of a new board is blank, every block takes its default.
LEMMA InitStores ==
  ASSUME ParamInit, NEW b \in Blocks
  PROVE  /\ read[b] \in BOOLEAN /\ may[b] = {Torn}
         /\ ram[b] \in DefaultsOf(b) /\ ~Saving(b)
<1>1. /\ read = [x \in Blocks |-> TRUE] /\ may = [x \in Blocks |-> {Torn}] /\ pc = "loop"
      /\ ram = Boot(eeprom, read)
  BY DEF ParamInit
<1>2. \A x \in Blocks : eeprom[x] \in Cells(x) /\ eeprom[x].crc = Torn
  BY DEF ParamInit, Cells
<1>3. ~Intact(eeprom[b])
  BY <1>2, IntactContent
<1>4. ram[b] \in DefaultsOf(b)
  BY <1>1, <1>2, <1>3, BootWholeOrDefault
<1> QED
  BY <1>1, <1>4 DEF Saving

LEMMA LevelsImplements == ParamSpec => LevelStore!Spec
<1>1. ParamInit => LevelStore!Init
  BY InitStores, BlockNames DEF LevelStore!Init, LevelStore!Restored
<1>2. PInv /\ [ParamNext]_paramVars => [LevelStore!Next]_(LevelStore!storeVars)
  <2> SUFFICES ASSUME PInv, [ParamNext]_paramVars
               PROVE  [LevelStore!Next]_(LevelStore!storeVars)
    OBVIOUS
  <2>1. StoreStep("levels")
    BY StepStores, BlockNames
  <2> QED
    BY <2>1 DEF StoreStep, Saving, LevelStore!Next, LevelStore!storeVars, LevelStore!Edit,
                LevelStore!BeginSave, LevelStore!EndSave, LevelStore!Restart, LevelStore!Restored
<1> QED
  BY <1>1, <1>2, InvAlways, PTL DEF ParamSpec, LevelStore!Spec

LEMMA SpecImplements == ParamSpec => SpecStore!Spec
<1>1. ParamInit => SpecStore!Init
  BY InitStores, BlockNames DEF SpecStore!Init, SpecStore!Restored
<1>2. PInv /\ [ParamNext]_paramVars => [SpecStore!Next]_(SpecStore!storeVars)
  <2> SUFFICES ASSUME PInv, [ParamNext]_paramVars
               PROVE  [SpecStore!Next]_(SpecStore!storeVars)
    OBVIOUS
  <2>1. StoreStep("spec")
    BY StepStores, BlockNames
  <2> QED
    BY <2>1 DEF StoreStep, Saving, SpecStore!Next, SpecStore!storeVars, SpecStore!Edit,
                SpecStore!BeginSave, SpecStore!EndSave, SpecStore!Restart, SpecStore!Restored
<1> QED
  BY <1>1, <1>2, InvAlways, PTL DEF ParamSpec, SpecStore!Spec

LEMMA RunImplements == ParamSpec => RunStore!Spec
<1>1. ParamInit => RunStore!Init
  BY InitStores, BlockNames DEF RunStore!Init, RunStore!Restored
<1>2. PInv /\ [ParamNext]_paramVars => [RunStore!Next]_(RunStore!storeVars)
  <2> SUFFICES ASSUME PInv, [ParamNext]_paramVars
               PROVE  [RunStore!Next]_(RunStore!storeVars)
    OBVIOUS
  <2>1. StoreStep("run")
    BY StepStores, BlockNames
  <2> QED
    BY <2>1 DEF StoreStep, Saving, RunStore!Next, RunStore!storeVars, RunStore!Edit,
                RunStore!BeginSave, RunStore!EndSave, RunStore!Restart, RunStore!Restored
<1> QED
  BY <1>1, <1>2, InvAlways, PTL DEF ParamSpec, RunStore!Spec

\* Each block is a ParamStore, through failed transfers, restarts and power cuts at any
\* page: no save of any block leaves a mixture to be restored (byEEMemoryWrite,
\* byEEMemoryRead).
THEOREM StoresImplementHolds == ParamSpec => StoresImplement
BY LevelsImplements, SpecImplements, RunImplements DEF StoresImplement
===============================================================================
