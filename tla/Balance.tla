-------------------------------- MODULE Balance --------------------------------
(***************************************************************************)
(* Passive balancing: every pass of AFE_Handle may compute the cells whose *)
(* resistors should be on (BalanceProcess, DVC1124.c) and hands a mask to  *)
(* the chip once two passes asked for the same; commands set the criteria  *)
(* (ExecDiagnoseCmd, App.c).  Transfers fail, and sleeps and resets of the *)
(* MCU reset the chip.                                                     *)
(*                                                                         *)
(* A cell is named by its switch in CELL_BAL; of the 24 switches, cells    *)
(* may occupy all or some.  A voltage of 0 is that of an open wire.        *)
(***************************************************************************)
EXTENDS Naturals, FiniteSetsExt

CONSTANTS
  Cells,     \* the cells of the pack
  Switches,  \* the bits of CELL_BAL
  Volts,     \* cell voltages
  Gaps,      \* values of wBalanceDiff
  Preset,    \* FELI_BMS_BALANCE_VOLT
  CmdGap     \* the 50 mV of ExecDiagnoseCmd

ASSUME CellAssumption == Cells \subseteq Switches /\ IsFiniteSet(Cells) /\ Cells # {}
ASSUME VoltAssumption == /\ Volts \subseteq Nat /\ 0 \in Volts /\ Preset \in Volts
                         /\ Gaps \subseteq Nat /\ 0 \in Gaps /\ CmdGap \in Gaps

VARIABLES
  volt,      \* wVolt: the voltages last read
  hot,       \* bOTC
  crit,      \* wBalanceVolt and wBalanceDiff
  known,     \* uiBalMaskFlags
  prepared,  \* uiBalMaskFlags_Prepared
  chip,      \* the chip's CELL_BAL
  settled,   \* environment: steady cells, a working bus, balancing enabled, no commands
  asked,     \* history: the mask the last pass asked for
  stopped    \* history: the criteria's last change was the command to stop

balanceVars == <<volt, hot, crit, known, prepared, chip, settled, asked, stopped>>

Masks == SUBSET Cells

\* wVolMin leaves out the cells that read 0; 0 if all do.
Lowest(v) == LET live == {v[i] : i \in Cells} \ {0}
             IN  IF live = {} THEN 0 ELSE Min(live)

Highest(v) == Max({v[i] : i \in Cells})

\* The cells to be balanced, in integers: a cell at 0 is below the lowest.
Wanted(v, h, c) ==
  IF ~h /\ Highest(v) > c.at /\ Highest(v) >= Lowest(v) + c.by
  THEN {i \in Cells : v[i] >= Lowest(v) + c.by}
  ELSE {}

BalInit == /\ volt = [i \in Cells |-> 0] /\ hot = FALSE
           /\ crit \in [at : Volts, by : Gaps]
           /\ known = {} /\ prepared = {} /\ chip = {}
           /\ settled = FALSE /\ asked = {} /\ stopped = FALSE

-------------------------------------------------------------------------------
(* A pass. *)

\* Transfers succeed or not.
Works == IF settled THEN {TRUE} ELSE BOOLEAN

\* A failed read leaves the voltages.  The temperature that is not read is whatever
\* the uninitialized `t` holds.
Measured == IF settled THEN {volt} ELSE [Cells -> Volts]
Heats    == IF settled THEN {hot} ELSE BOOLEAN

\* Mutant: the chip is not asked for the mask it has.
SeenTrusting(read) == known
Seen(read) == IF read THEN chip ELSE known

\* Mutant: any mask is written.
WritableAny(mask) == TRUE

\* Balance_Contrl does not write the mask of all switches.
Writable(mask) == mask # Switches

\* Mutant: a mask is written the first time it is asked for.
ConfirmedAtOnce(wish) == TRUE
Confirmed(wish) == wish = prepared

\* BalanceProcess; afterwards the prepared mask is the one asked for, whichever way.
BalanceProcess(wish, read, written) ==
  LET changes == wish # Seen(read) /\ Confirmed(wish)
  IN  /\ known' = IF changes THEN wish ELSE Seen(read)
      /\ prepared' = wish
      /\ chip' = IF changes /\ Writable(wish) /\ written THEN wish ELSE chip

\* Blance_Cell, if eDiagBalance is set in wDiagFltSet.
Pass(enabled) ==
  /\ volt' \in Measured
  /\ IF enabled
     THEN /\ hot' \in Heats
          /\ asked' = Wanted(volt', hot', crit)
          /\ \E read \in Works, written \in Works : BalanceProcess(asked', read, written)
     ELSE UNCHANGED <<hot, known, prepared, chip, asked>>
  /\ UNCHANGED <<crit, settled, stopped>>

-------------------------------------------------------------------------------
(* Commands, sleeps and resets. *)

\* wVolMin as a command reads it: before the first sample it is 0xFFFF, beyond all.
VolMin == IF volt = [i \in Cells |-> 0] THEN {0} \union {v \in Volts : \A u \in Volts : u <= v}
          ELSE {Lowest(volt)}

\* byEquCmd of ExecDiagnoseCmd.
Equ(cmd, value, low) ==
  CASE cmd = "preset"  -> [at |-> Preset, by |-> CmdGap]
    [] cmd = "passive" -> [at |-> value, by |-> CmdGap]
    [] cmd = "active"  -> [at |-> low, by |-> CmdGap]
    [] cmd = "stop"    -> crit                     \* its assignments are comments
    [] cmd = "other"   -> [at |-> 0, by |-> 0]     \* eLecuEquStop

ExecDiagnoseCmd(cmd, value) ==
  /\ ~settled
  /\ \E low \in VolMin : crit' = Equ(cmd, value, low)
  /\ stopped' = (cmd = "stop")
  /\ UNCHANGED <<volt, hot, known, prepared, chip, settled, asked>>

\* A register write to wBalanceVolt or wBalanceDiff.
WriteCriteria == /\ ~settled
                 /\ crit' \in [at : Volts, by : Gaps]
                 /\ stopped' = FALSE
                 /\ UNCHANGED <<volt, hot, known, prepared, chip, settled, asked>>

\* AFE_Iicinit: the reset of the chip or the preset switch every resistor off; both
\* may fail.
AFE_Iicinit == chip' \in {{}, chip}

\* Sleep_PeripheralRestore: the loop's variables stay.
Wake == /\ ~settled
        /\ AFE_Iicinit
        /\ UNCHANGED <<volt, hot, crit, known, prepared, settled, asked, stopped>>

\* The criteria are restored, saved or default ones.
Reset == /\ ~settled
         /\ AFE_Iicinit
         /\ volt' = [i \in Cells |-> 0] /\ hot' = FALSE
         /\ crit' \in [at : Volts, by : Gaps]
         /\ known' = {} /\ prepared' = {} /\ asked' = {} /\ stopped' = FALSE
         /\ UNCHANGED settled

Settle == /\ ~settled /\ settled' = TRUE
          /\ UNCHANGED <<volt, hot, crit, known, prepared, chip, asked, stopped>>

BalNext == \/ Pass(TRUE)
           \/ ~settled /\ Pass(FALSE)
           \/ \E cmd \in {"preset", "passive", "active", "stop", "other"}, value \in Volts :
                ExecDiagnoseCmd(cmd, value)
           \/ WriteCriteria
           \/ Wake
           \/ Reset
           \/ Settle

\* The loop runs on.
BalSpec == BalInit /\ [][BalNext]_balanceVars /\ WF_balanceVars(Pass(TRUE))

-------------------------------------------------------------------------------
(* Properties. *)

\* Type: the chip never balances what is not a cell, nor every switch at once.
BalTypeOK ==
  /\ volt \in [Cells -> Volts] /\ crit \in [at : Volts, by : Gaps]
  /\ known \in Masks /\ prepared \in Masks /\ asked \in Masks
  /\ chip \in Masks \ {Switches}
  /\ {hot, settled, stopped} \subseteq BOOLEAN

\* A resistor is switched on only for a cell that two balancing passes running asked
\* for, whatever reads and writes failed and however often the chip was reset between
\* (uiBalMaskFlags_Prepared in BalanceProcess).
MaskConfirmed == [][chip' \ chip \subseteq asked \cap asked']_balanceVars

\* Once cells, criteria and bus are steady the chip comes to hold the mask that is
\* wanted and keeps it, whatever writes failed unnoticed, or resets happened, before
\* (BalanceProcess reads the mask back); unless it is the mask of all switches.
BalanceFollows ==
  <>settled => <>[](LET mask == Wanted(volt, hot, crit) IN chip = mask \/ mask = Switches)

\* ExecDiagnoseCmd: "0x00" is the command to stop balancing.
StopEnds == settled /\ stopped ~> chip = {}
===============================================================================
