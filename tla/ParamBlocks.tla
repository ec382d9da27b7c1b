------------------------------ MODULE ParamBlocks ------------------------------
(***************************************************************************)
(* The parameter blocks: their copies in RAM, which masters write over     *)
(* Modbus (ModbusPro.c) and CAN (User_Can_Config.c), and the EEPROM that   *)
(* keeps them (MemoryModule.c).  A save is a blocking call that sends the  *)
(* block page by page, ignores whether a page was taken, reads the block   *)
(* back and accepts it if its CRC, in the last page, fits.  After a save   *)
(* caused by a Modbus write the MCU resets itself.                         *)
(*                                                                         *)
(* A page stands for the registers in it, Data for what they may hold; the *)
(* CRC of a content is the content itself, as collisions are not modelled. *)
(* The first page of "spec" holds the battery type, the second the limits  *)
(* that come with it; the first page of "levels" holds the thresholds of a *)
(* cell, the second those of the whole pack, which BrokenDetect            *)
(* (DVC1124.c) works out anew every 5 s.  Members of "spec" that a start   *)
(* sets in any case (byLecuNum, byPackCell, an address of 0) are left out. *)
(***************************************************************************)
EXTENDS Naturals, FiniteSets

CONSTANTS
  Pages,      \* the number of pages of each block
  Data,       \* what a page may hold; a battery type is a member too
  Usual,      \* the default content of a page
  Torn,       \* what is in a page, or a CRC, cut off in the middle
  Scaled,     \* the pack's thresholds that cell thresholds may give, by cell counts
  MaxSaves,   \* bound: saves that are begun
  MaxFaults   \* bound: transfers that fail

Blocks == {"levels", "spec", "run"}

ASSUME PagesAssumption == Pages \in [Blocks -> Nat \ {0}]
ASSUME DataAssumption == Usual \in Data /\ Torn \notin Data
ASSUME ScaledAssumption == Scaled \in [Data -> SUBSET Data]
ASSUME TornAssumption == \A b \in Blocks : Torn \notin [1..Pages[b] -> Data \union {Torn}]
ASSUME BoundsAssumption == MaxSaves \in Nat /\ MaxFaults \in Nat

VARIABLES
  ram,        \* the copies: g_tFaultDataParam, tEESpec, tEERun
  eeprom,     \* the pages and the CRC of each block
  pc,         \* where the loop is: in a save or before the reset after it
  job,        \* the save under way: block, next page, what follows it
  clean,      \* history: every page of it was taken
  may,        \* history: what a restart may find, as in ParamStore
  read,       \* history: the blocks the last restart could read
  keyed,      \* history: the type's thresholds are in force, none was written since
  saves,      \* saves begun so far
  faults      \* transfers that have failed so far

paramVars == <<ram, eeprom, pc, job, clean, may, read, keyed, saves, faults>>

ContentsOf(b) == [1..Pages[b] -> Data]

Type(content) == content[1]

\* FaultLevelOneKey: the thresholds of a battery type, and a content of "spec" with
\* the limits of its type.
LevelsOf(type) == [p \in 1..Pages["levels"] |-> type]
Limited(content) == [content EXCEPT ![2] = Type(content)]

DefaultsOf(b) == IF b = "levels" THEN {LevelsOf(t) : t \in Data}
                 ELSE {[p \in 1..Pages[b] |-> Usual]}

\* Mutant: a block is restored once every page of it was written.
IntactPages(cell) == \A p \in DOMAIN cell.page : cell.page[p] # Torn

\* The test of byEEMemoryWrite and byEEMemoryRead.
Intact(cell) == cell.crc = cell.page

-------------------------------------------------------------------------------
(* Restart: App_Init, then FaultLevelInit, whose defaults depend on the type. *)

Restored(b, cells, answer) ==
  IF answer[b] /\ Intact(cells[b]) THEN cells[b].page ELSE [p \in 1..Pages[b] |-> Usual]

\* Mutant: the default thresholds do not look at the type.
FaultLevelInitUsual(cells, answer) ==
  IF answer["levels"] /\ Intact(cells["levels"]) THEN cells["levels"].page
  ELSE LevelsOf(Usual)

FaultLevelInit(cells, answer) ==
  IF answer["levels"] /\ Intact(cells["levels"]) THEN cells["levels"].page
  ELSE LevelsOf(Type(Restored("spec", cells, answer)))

Boot(cells, answer) ==
  [b \in Blocks |-> IF b = "levels" THEN FaultLevelInit(cells, answer)
                    ELSE Restored(b, cells, answer)]

NoJob == [block |-> "run", page |-> 1, then |-> "loop"]

ParamInit ==
  /\ eeprom = [b \in Blocks |-> [page |-> [p \in 1..Pages[b] |-> Torn], crc |-> Torn]]
  /\ read = [b \in Blocks |-> TRUE]
  /\ ram = Boot(eeprom, read)
  /\ may = [b \in Blocks |-> {Torn}]
  /\ pc = "loop" /\ job = NoJob /\ clean = TRUE /\ keyed = FALSE
  /\ saves = 0 /\ faults = 0

-------------------------------------------------------------------------------
(* The writes.  A content is written register by register; the last register *)
(* of a block is its CRC, which the save computes anew.                      *)

\* The copies after block b was written with content c: a change of type brings the
\* thresholds and the limits of the new one (FaultLevelOneKey).
Written(b, c) ==
  IF b = "spec" /\ Type(c) # Type(ram[b])
  THEN [ram EXCEPT !["levels"] = LevelsOf(Type(c)), !["spec"] = Limited(c)]
  ELSE [ram EXCEPT ![b] = c]

Keyed(b, c) == CASE b = "levels" -> FALSE
                 [] b = "spec" /\ Type(c) # Type(ram[b]) -> TRUE
                 [] OTHER -> keyed

\* byEEMemoryWrite: the block is cut into pages.
BeginSave(b, then) ==
  /\ saves < MaxSaves
  /\ saves' = saves + 1
  /\ pc' = "send"
  /\ job' = [block |-> b, page |-> 1, then |-> then]
  /\ clean' = TRUE
  /\ may' = [may EXCEPT ![b] = @ \union {ram'[b], Torn}]

\* SUNSPEC_WriteHoldingRegisterSingle: the register that ends a block saves it.
WriteHoldingRegisterSingle(b, p, d) ==
  /\ pc = "loop"
  /\ \/ LET c == [ram[b] EXCEPT ![p] = d]
        IN  /\ ram' = Written(b, c)
            /\ keyed' = Keyed(b, c)
            /\ UNCHANGED <<pc, job, clean, may, saves>>
     \/ /\ UNCHANGED <<ram, keyed>>
        /\ BeginSave(b, "reset")
  /\ UNCHANGED <<eeprom, read, faults>>

\* SUNSPEC_WriteHoldingRegisterMulti: several registers, c being what they leave; with
\* the last one of the block it is saved.  The result of saving "run" is dropped, so no
\* reset follows.
WriteHoldingRegisterMulti(b, c) ==
  /\ pc = "loop"
  /\ ram' = Written(b, c)
  /\ keyed' = Keyed(b, c)
  /\ \/ UNCHANGED <<pc, job, clean, may, saves>>
     \/ BeginSave(b, IF b = "run" THEN "loop" ELSE "reset")
  /\ UNCHANGED <<eeprom, read, faults>>

\* CanTxRx: a threshold that differs from what was sent is set and AFE_SetFlg raised,
\* upon which "levels" and then "run" are saved, whichever block was changed.
CanWrite(b, p, d) ==
  /\ pc = "loop"
  /\ d # ram[b][p]
  /\ ram' = [ram EXCEPT ![b][p] = d]
  /\ keyed' = (keyed /\ b # "levels")
  /\ BeginSave("levels", "run")
  /\ UNCHANGED <<eeprom, read, faults>>

\* The sleeps and the calibration of the SOC save what the estimation left in "run".
SaveRun(c) ==
  /\ pc = "loop"
  /\ ram' = [ram EXCEPT !["run"] = c]
  /\ BeginSave("run", "loop")
  /\ UNCHANGED <<eeprom, read, keyed, faults>>

\* BrokenDetect, once the cells are counted: the thresholds of the pack follow from
\* those of a cell and the number of cells; nothing is saved.
BrokenDetect(v) ==
  /\ pc = "loop"
  /\ ram' = [ram EXCEPT !["levels"][2] = v]
  /\ UNCHANGED <<eeprom, pc, job, clean, may, read, keyed, saves, faults>>

-------------------------------------------------------------------------------
(* The save: AX24_Master_MultiSend, then the read-back of byEEMemoryWrite. *)

\* The CRC follows the data of a block in its last page.
Sent(cell, p, c) ==
  [page |-> [cell.page EXCEPT ![p] = c[p]],
   crc |-> IF DOMAIN c = 1..p THEN c ELSE cell.crc]

\* What a transfer of page p may leave behind that fails or is cut off.
Leaves(cell, p, c) ==
  {[page |-> [cell.page EXCEPT ![p] = x], crc |-> y] :
     x \in {cell.page[p], c[p], Torn},
     y \in IF DOMAIN c = 1..p THEN {cell.crc, c, Torn} ELSE {cell.crc}}

\* Mutant: the page pointer passes the last page.
LastPageLate == job.page > Pages[job.block]

LastPage == job.page = Pages[job.block]

\* The page is sent; whether it was taken is not looked at.
SendPage ==
  LET b == job.block
      sent == Sent(eeprom[b], job.page, ram[b])
  IN  /\ pc = "send"
      /\ \E left \in Leaves(eeprom[b], job.page, ram[b]) :
           /\ left = sent \/ faults < MaxFaults
           /\ eeprom' = [eeprom EXCEPT ![b] = left]
           /\ clean' = (clean /\ left = sent)
           /\ faults' = IF left = sent THEN faults ELSE faults + 1
      /\ IF LastPage
         THEN pc' = "check" /\ UNCHANGED job
         ELSE job' = [job EXCEPT !.page = @ + 1] /\ UNCHANGED pc
      /\ UNCHANGED <<ram, may, read, keyed, saves>>

\* The block is read back.  Only a save asked for over Modbus looks at the result,
\* and only its success resets the MCU; the second save of AFE_SetFlg follows anyway.
CheckSave(answers) ==
  LET b == job.block
      stored == IF clean THEN [may EXCEPT ![b] = {ram[b]}] ELSE may
  IN  /\ pc = "check"
      /\ answers \/ faults < MaxFaults
      /\ faults' = IF answers THEN faults ELSE faults + 1
      /\ IF job.then = "run"
         THEN /\ may' = [stored EXCEPT !["run"] = @ \union {ram["run"], Torn}]
              /\ pc' = "send" /\ clean' = TRUE
              /\ job' = [block |-> "run", page |-> 1, then |-> "loop"]
         ELSE /\ may' = stored
              /\ pc' = IF job.then = "reset" /\ answers /\ Intact(eeprom[b])
                       THEN "reset" ELSE "loop"
              /\ job' = NoJob /\ clean' = TRUE
      /\ UNCHANGED <<ram, eeprom, read, keyed, saves>>

-------------------------------------------------------------------------------
(* Resets and power cuts. *)

Blind(answer) == Cardinality({b \in Blocks : ~answer[b]})

\* The program starts on what the EEPROM now holds.
Reboot ==
  /\ read' \in [Blocks -> BOOLEAN]
  /\ faults + Blind(read') <= MaxFaults
  /\ faults' = faults + Blind(read')
  /\ ram' = Boot(eeprom', read')
  /\ keyed' = (keyed /\ Type(ram'["spec"]) = Type(ram["spec"]))
  /\ pc' = "loop" /\ job' = NoJob /\ clean' = TRUE
  /\ UNCHANGED <<may, saves>>

\* NVIC_SystemReset after a save.
Restart == pc = "reset" /\ UNCHANGED eeprom /\ Reboot

PowerCut ==
  /\ \/ pc # "send" /\ UNCHANGED eeprom
     \/ /\ pc = "send"
        /\ \E left \in Leaves(eeprom[job.block], job.page, ram[job.block]) :
             eeprom' = [eeprom EXCEPT ![job.block] = left]
  /\ Reboot

Write ==
  \/ \E b \in Blocks, d \in Data : \E p \in 1..Pages[b] :
       WriteHoldingRegisterSingle(b, p, d)
  \/ \E b \in Blocks : \E c \in ContentsOf(b) : WriteHoldingRegisterMulti(b, c)
  \/ \E b \in {"levels", "spec"}, d \in Data : \E p \in 1..Pages[b] :
       /\ b = "spec" => p > 1
       /\ CanWrite(b, p, d)
  \/ \E c \in ContentsOf("run") : SaveRun(c)
  \/ \E v \in Scaled[ram["levels"][1]] : BrokenDetect(v)

ParamNext == \/ Write
             \/ SendPage
             \/ \E answers \in BOOLEAN : CheckSave(answers)
             \/ Restart
             \/ PowerCut

ParamSpec == ParamInit /\ [][ParamNext]_paramVars

-------------------------------------------------------------------------------
(* Properties. *)

Cells(b) == [page : [1..Pages[b] -> Data \union {Torn}],
             crc : ContentsOf(b) \union {Torn}]

\* Type: the copies hold contents, the EEPROM whole or torn pages, and the page a
\* save is at is one of its block.
ParamTypeOK ==
  /\ \A b \in Blocks : /\ ram[b] \in ContentsOf(b)
                       /\ eeprom[b] \in Cells(b)
                       /\ may[b] \subseteq ContentsOf(b) \union {Torn}
  /\ pc \in {"loop", "send", "check", "reset"}
  /\ job \in [block : Blocks, page : Nat \ {0}, then : {"loop", "run", "reset"}]
  /\ job.page <= Pages[job.block]
  /\ clean \in BOOLEAN /\ keyed \in BOOLEAN
  /\ read \in [Blocks -> BOOLEAN]
  /\ saves \in 0..MaxSaves /\ faults \in 0..MaxFaults

Saving(b) == pc \in {"send", "check"} /\ job.block = b

LevelStore == INSTANCE ParamStore WITH
  Contents <- ContentsOf("levels"), Defaults <- DefaultsOf("levels"), Torn <- Torn,
  ram <- ram["levels"], may <- may["levels"], saving <- Saving("levels"), read <- read["levels"]

SpecStore == INSTANCE ParamStore WITH
  Contents <- ContentsOf("spec"), Defaults <- DefaultsOf("spec"), Torn <- Torn,
  ram <- ram["spec"], may <- may["spec"], saving <- Saving("spec"), read <- read["spec"]

RunStore == INSTANCE ParamStore WITH
  Contents <- ContentsOf("run"), Defaults <- DefaultsOf("run"), Torn <- Torn,
  ram <- ram["run"], may <- may["run"], saving <- Saving("run"), read <- read["run"]

\* Each block is a ParamStore: whatever page a save is cut off at, whichever
\* transfers fail unnoticed, a restart finds a content that was handed to a save, the
\* last one if its pages were all taken, or takes a default; never a mixture, and
\* never the worse for a save of another block (byEEMemoryWrite, byEEMemoryRead).
StoresImplement == LevelStore!Spec /\ SpecStore!Spec /\ RunStore!Spec

\* The thresholds of type t, those of the pack as they are set or worked out anew.
FitsType(levels, t) ==
  levels \in {LevelsOf(t)} \union {[LevelsOf(t) EXCEPT ![2] = v] : v \in Scaled[t]}

\* Until thresholds are written or saved, those in force belong to the battery type: a
\* change of type sets them (FaultLevelOneKey), a restart that finds none takes those
\* of the type it has just restored (FaultLevelInit, after App_Init), and what
\* BrokenDetect works out follows from them, never from those of an earlier type.
LevelsFitType ==
  keyed /\ may["levels"] = {Torn} => FitsType(ram["levels"], Type(ram["spec"]))
===============================================================================
