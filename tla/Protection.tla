----------------------------- MODULE Protection -----------------------------
(***************************************************************************)
(* The battery protection of the pack: the 100 ms branch of AFE_Handle     *)
(* (DVC1124.c), every detector of Protection_handle and MosCtrl            *)
(* (Protection.c), against the analogue front end (AFE) chip that trips    *)
(* and drives the FETs on its own.                                         *)
(*                                                                         *)
(* The firmware is one cooperative loop: in each turn the due timer tasks  *)
(* run first (AFE_Handle among them, and the message pumps with a          *)
(* diagnosis tool's commands), MosCtrl after them, the sleep modes last.   *)
(* The chip acts between any two of its I2C transfers, and any transfer    *)
(* may fail.  While a sleep is waited for, AFE_Handle returns at once and  *)
(* MosCtrl goes on with what was measured last.                            *)
(*                                                                         *)
(* One detector function of the C code is one operator from a protection   *)
(* state to the next; Protection_handle composes them in source order.     *)
(***************************************************************************)
EXTENDS Integers, FiniteSets

Flag == {"Short", "Ov", "Uv", "Occ1", "Occ2", "Ocd1", "Ocd2",
         "Utc", "Otc", "Utd", "Otd"}
AfeFlag == {"SCD", "OCC2", "OCD2", "CUV", "COV", "OCC1", "OCD1"}
\* Flags the MCU raises itself after a delay, and those it releases after one.
Debounced == {"Uv", "Occ1", "Ocd1", "Utc", "Otc", "Utd", "Otd"}
Timed     == {"Uv", "Ov", "Occ1", "Ocd1", "Ocd2", "Utc", "Otc", "Utd", "Otd"}
WaitBit   == {"temp", "Vol"}
Gate      == {"dsg", "chg", "pdsg"}
FaultBit  == {"Short", "Temp", "DisChg", "Chg", "Cell", "Soc", "Bat"}
ScdStates == {"IDLE", "COOLDOWN", "PDSG_CHECK", "DSG_VERIFY", "LATCHED"}
Current   == {"chg", "idle", "dsg"}
Mode      == {"on", "run", "diag", "off"}

\* I2C transfers of one pass that may fail besides the CleanFlg of each flag.
Transfer  == {"cur", "R0", "scdR0", "pdsg", "cow", "fet"} \cup AfeFlag

CONSTANTS
  TripDelay,        \* passes a condition lasts before its flag is raised
  ClearDelay,       \* passes a recovery lasts before its flag is released
  WaitPeriod,       \* ProtectWait looks at the MOS temperature once in so many passes
  ScdCooldown, ScdPdsgCheck, ScdDsgVerify,   \* SCD_*_MS, in 100 ms ticks
  ScdMaxRetries,    \* SCD_MAX_RETRIES
  PrechargeTicks, PrechargeTimeout,          \* the 200 and 500 ms of MosCtrl
  CounterMod,       \* where a recovery counter wraps: 2^16
  Samples,          \* what a pass may measure
  SettledSamples,   \* what it measures once the pack has settled
  Failures,         \* the sets of transfers that may fail together in a pass
  GateFailures,     \* the sets of gate writes that may fail in one MosCtrl
  Lates,            \* the sets of flags the chip may raise inside a pass
  Trips,            \* the flags the chip may raise between passes
  Commands,         \* the diagnosis commands a tool may send
  BootAnswers       \* whether the chip answers AFE_Iicinit

\* One set of measurements.  lvl says of each detector whether its quantity is
\* past the trip threshold, past the recovery threshold, or between the two.
Sample == [cur : Current, lvl : [Timed -> {"trip", "hold", "release"}],
           relief : BOOLEAN, alarm : SUBSET {"Soc", "Bat"},
           mos : {"hot", "warm", "cool"}, loadOff : BOOLEAN,
           cow : {"skip", "unread", "intact", "open", "fewer"}]

\* What the passcode of a command asks for, and the FETs it wants on.
DiagMode == {"none", "basic", "pro"}
Command  == [diag : DiagMode, chg : BOOLEAN, dsg : BOOLEAN]

ASSUME DelayAssumption ==
  /\ TripDelay \in [Debounced -> Nat \ {0}]
  /\ ClearDelay \in [Timed -> Nat \ {0}]
  /\ {WaitPeriod, ScdCooldown, ScdPdsgCheck, ScdDsgVerify,
      ScdMaxRetries, PrechargeTicks} \subseteq Nat \ {0}
  /\ PrechargeTimeout \in Nat /\ PrechargeTimeout > PrechargeTicks
  /\ CounterMod \in Nat /\ \A f \in Timed : ClearDelay[f] < CounterMod

ASSUME InputAssumption ==
  /\ Samples \subseteq Sample /\ SettledSamples \subseteq Samples
  /\ Failures \subseteq SUBSET Transfer /\ {} \in Failures
  /\ GateFailures \subseteq SUBSET Gate /\ {} \in GateFailures
  /\ Lates \subseteq SUBSET AfeFlag /\ {} \in Lates
  /\ Trips \subseteq AfeFlag
  /\ Commands \subseteq Command
  /\ BootAnswers \subseteq BOOLEAN

VARIABLES
  prot,      \* the protection data: MCU RAM, and the chip's R0 and R81
  phase,     \* "tasks": timer tasks are due next; "mos": MosCtrl is
  asleep,    \* shallow_sleeping or deep_sleeping: AFE_Handle takes no samples
  settled,   \* environment: from now on transfers work, the pack is at rest
             \* and there are no more commands or resets
  preAge     \* history: ticks the PDSG output has been on without a break

vars == <<prot, phase, asleep, settled, preAge>>

Smaller(a, b) == IF a < b THEN a ELSE b

ScdBound == ScdCooldown + ScdPdsgCheck + ScdDsgVerify   \* bound of prot.scdAge
PreBound == PrechargeTimeout + 1                        \* bound of pdsgAge, preAge

-----------------------------------------------------------------------------
(* The chip and the register cache g_AfeRegs. *)

\* The FET outputs (R6): the command in R81, unless a flag in R0 blocks it.
\* The preset leaves PDSG without effect on DSG.
DsgOn(p)  == p.chipGate["dsg"] /\ {"SCD", "OCD2", "CUV"} \cap p.chipR0 = {}
ChgOn(p)  == p.chipGate["chg"] /\ {"OCC2", "COV"} \cap p.chipR0 = {}
PdsgOn(p) == p.chipGate["pdsg"]

\* Writing R0 clears the flags whose cached bit is 0 and leaves the others.
ReadR0(p, ok) == IF ok THEN [p EXCEPT !.r0 = p.chipR0] ELSE p

CleanFlg(p, a, ok) ==
  [p EXCEPT !.r0 = @ \ {a},
            !.chipR0 = IF ok THEN @ \cap (p.r0 \ {a}) ELSE @]

CleanError(p, ok) ==
  [p EXCEPT !.r0 = {}, !.chipR0 = IF ok THEN {} ELSE @]

\* CHG_, DSG_ and PDSG_FETControl: every write carries the whole cached R81.
FETControl(p, g, on, ok) ==
  LET c == [p.gate EXCEPT ![g] = on]
  IN  [p EXCEPT !.gate = c, !.chipGate = IF ok THEN c ELSE @]

-----------------------------------------------------------------------------
(* Current_Acquisition: which way the current flows, and the control mode. *)
CurrentAcquisition(p, s, bad) ==
  IF "cur" \in bad THEN p
  ELSE [p EXCEPT
          !.cur  = IF p.diag = "none" THEN s.cur ELSE "idle",
          !.mode = CASE p.diag = "basic" -> "diag"
                     [] p.diag = "pro"   -> "off"
                     [] OTHER            -> "run"]

(* The delay counters every detector shares. *)

\* One more pass over the trip threshold.
TripStep(p, f) ==
  IF p.trip[f] + 1 >= TripDelay[f]
  THEN [p EXCEPT !.flg = @ \cup {f}, !.trip[f] = 0, !.rel[f] = 0]
  ELSE [p EXCEPT !.trip[f] = @ + 1]

\* A recovery counter has 16 bits.
Counted(n) == IF n + 1 = CounterMod THEN 0 ELSE n + 1

\* One more pass past the recovery threshold: from the end of the delay on the
\* flag is released if q, the state after the chip's flag was cleared, is ok;
\* otherwise the counter runs on, and once round is short of the delay again.
ReleaseStep(p, f, q, ok) ==
  LET n == Counted(p.rel[f])
  IN  IF n < ClearDelay[f] THEN [p EXCEPT !.rel[f] = n]
      ELSE IF ok THEN [q EXCEPT !.flg = @ \ {f}, !.rel[f] = 0]
      ELSE [q EXCEPT !.rel[f] = n]

\* Mutant: the flag is dropped even when the chip was not reached.
ReverseReleaseUnchecked(p, a, g, c, ok) ==
  [CleanFlg(p, a, ok) EXCEPT !.flg = @ \ {g}, !.rel[c] = 0]

\* Current the other way: clear chip flag a, then drop flag g and counter c.
ReverseRelease(p, a, g, c, ok) ==
  LET q == CleanFlg(p, a, ok)
  IN  IF ok THEN [q EXCEPT !.flg = @ \ {g}, !.rel[c] = 0] ELSE q

-----------------------------------------------------------------------------
(* ProtectSCD: the recovery from a short circuit, one operator per state. *)
\* Mutant of ScdIdle: the flag of the chip is not cleared.
ScdIdleUncleared(p, bad) ==
  IF "Short" \notin p.flg THEN p
  ELSE [p EXCEPT !.retry = 0, !.scdAge = 0, !.scd = "COOLDOWN"]

ScdIdle(p, bad) ==
  IF "Short" \notin p.flg THEN p
  ELSE [CleanFlg(p, "SCD", "SCD" \notin bad) EXCEPT
          !.retry = 0, !.scdAge = 0, !.scd = "COOLDOWN"]

ScdRecovered(p) == [p EXCEPT !.flg = @ \ {"Short"}, !.retry = 0,
                             !.active = FALSE, !.scd = "IDLE"]

ScdCooling(p, s, bad) ==
  IF p.scdAge < ScdCooldown THEN p
  ELSE IF s.loadOff THEN ScdRecovered(p)
  ELSE [FETControl(p, "pdsg", TRUE, "pdsg" \notin bad) EXCEPT
          !.active = TRUE, !.scdAge = 0, !.scd = "PDSG_CHECK"]

\* Mutant: a short met again is not counted.
ScdAgainUncounted(p, bad) ==
  LET q == CleanFlg(p, "SCD", "SCD" \notin bad)
  IN  IF p.retry + 1 < ScdMaxRetries
      THEN [q EXCEPT !.scdAge = 0, !.scd = "COOLDOWN"]
      ELSE [q EXCEPT !.retry = @ + 1, !.scd = "LATCHED"]

\* The short is still there: once more round, or latched.
ScdAgain(p, bad) ==
  LET q == CleanFlg(p, "SCD", "SCD" \notin bad)
  IN  IF p.retry + 1 < ScdMaxRetries
      THEN [q EXCEPT !.retry = @ + 1, !.scdAge = 0, !.scd = "COOLDOWN"]
      ELSE [q EXCEPT !.retry = @ + 1, !.scd = "LATCHED"]

\* Mutant: MosCtrl stays locked out when the load trips the chip again.
ScdProbingLocked(p, bad) ==
  LET off == FETControl(p, "pdsg", FALSE, "pdsg" \notin bad)
  IN  IF "SCD" \in p.r0 THEN ScdAgain(off, bad)
      ELSE IF p.scdAge >= ScdPdsgCheck
      THEN [off EXCEPT !.flg = @ \ {"Short"}, !.active = FALSE,
                       !.scdAge = 0, !.scd = "DSG_VERIFY"]
      ELSE p

\* Mutant: a probe that meets no short does not end.
ScdProbingEndless(p, bad) ==
  IF "SCD" \in p.r0
  THEN ScdAgain([FETControl(p, "pdsg", FALSE, "pdsg" \notin bad)
                   EXCEPT !.active = FALSE], bad)
  ELSE p

ScdProbing(p, bad) ==
  LET off == [FETControl(p, "pdsg", FALSE, "pdsg" \notin bad)
                EXCEPT !.active = FALSE]
  IN  IF "SCD" \in p.r0
      THEN LET q == ScdAgain(off, bad)
           IN  [q EXCEPT !.flg = IF q.scd = "LATCHED" THEN @ \cup {"Short"} ELSE @]
      ELSE IF p.scdAge >= ScdPdsgCheck
      THEN [off EXCEPT !.flg = @ \ {"Short"}, !.scdAge = 0, !.scd = "DSG_VERIFY"]
      ELSE p

ScdVerifying(p, bad) ==
  IF "SCD" \in p.r0
  THEN ScdAgain([p EXCEPT !.flg = @ \cup {"Short"}], bad)
  ELSE IF p.scdAge >= ScdDsgVerify THEN ScdRecovered(p) ELSE p

ProtectSCD(p0, s, bad) ==
  LET p == ReadR0(p0, "scdR0" \notin bad)
  IN  CASE p.scd = "IDLE"       -> ScdIdle(p, bad)
        [] p.scd = "COOLDOWN"   -> ScdCooling(p, s, bad)
        [] p.scd = "PDSG_CHECK" -> ScdProbing(p, bad)
        [] p.scd = "DSG_VERIFY" -> ScdVerifying(p, bad)
        [] p.scd = "LATCHED"    -> IF p.cur = "chg" \/ s.loadOff
                                   THEN ScdRecovered(p) ELSE p

-----------------------------------------------------------------------------
(* The voltage and current detectors. *)

\* Below the threshold the trip counter stays: only the recovery one is reset.
ProtectUV(p, s, bad) ==
  LET ok == "CUV" \notin bad
  IN  IF "Uv" \notin p.flg
      THEN IF s.lvl["Uv"] = "trip" /\ p.cur # "chg" THEN TripStep(p, "Uv")
           ELSE [p EXCEPT !.rel["Uv"] = 0]
      ELSE IF p.cur = "chg" THEN ReverseRelease(p, "CUV", "Uv", "Uv", ok)
      ELSE IF s.lvl["Uv"] = "release"
           THEN ReleaseStep(p, "Uv", CleanFlg(p, "CUV", ok), ok)
      ELSE [p EXCEPT !.rel["Uv"] = 0]

\* Released by discharging, it resets the counter of UV, not its own.
ProtectOV(p, s, bad) ==
  LET ok == "COV" \notin bad
  IN  IF "Ov" \in p.flg /\ p.cur = "dsg"
      THEN ReverseRelease(p, "COV", "Ov", "Uv", ok)
      ELSE IF "Ov" \in p.flg /\ s.lvl["Ov"] = "release"
      THEN ReleaseStep(p, "Ov", CleanFlg(p, "COV", ok), ok)
      ELSE [p EXCEPT !.rel["Ov"] = 0]

\* Mutant: the inhibit is released while the over-voltage stands.
ProtectReChgInhibitEager(p, s) ==
  [p EXCEPT !.inhibit = (@ \/ "Ov" \in p.flg) /\ ~s.relief]

\* relief: more than 2 A of discharge, or SOC below 98 %.
ProtectReChgInhibit(p, s) ==
  IF "Ov" \in p.flg THEN [p EXCEPT !.inhibit = TRUE]
  ELSE [p EXCEPT !.inhibit = @ /\ ~s.relief]

ProtectOCC1(p, s, bad) ==
  LET ok == "OCC1" \notin bad
  IN  IF "Occ1" \notin p.flg
      THEN IF s.lvl["Occ1"] = "trip" /\ p.cur = "chg" THEN TripStep(p, "Occ1")
           ELSE [p EXCEPT !.trip["Occ1"] = 0]
      ELSE IF p.cur = "dsg" THEN ReverseRelease(p, "OCC1", "Occ1", "Occ1", ok)
      ELSE IF s.lvl["Occ1"] = "release"
           THEN ReleaseStep(p, "Occ1", CleanFlg(p, "OCC1", ok), ok)
      ELSE [p EXCEPT !.rel["Occ1"] = 0]

\* While charging, the branch meant to release Ocd1 drops Uv and its counter.
ProtectOCD1(p, s, bad) ==
  LET ok == "OCD1" \notin bad
  IN  IF "Ocd1" \notin p.flg
      THEN IF s.lvl["Ocd1"] = "trip" /\ p.cur = "dsg" THEN TripStep(p, "Ocd1")
           ELSE [p EXCEPT !.trip["Ocd1"] = 0]
      ELSE IF p.cur = "chg" THEN ReverseRelease(p, "OCD1", "Uv", "Uv", ok)
      ELSE IF s.lvl["Ocd1"] = "release"
           THEN ReleaseStep(p, "Ocd1", CleanFlg(p, "OCD1", ok), ok)
      ELSE [p EXCEPT !.rel["Ocd1"] = 0]

\* The same slip as in ProtectOCD1.
ProtectOCD2(p, bad) ==
  LET ok == "OCD2" \notin bad
  IN  IF "Ocd2" \in p.flg /\ p.cur = "chg"
      THEN ReverseRelease(p, "OCD2", "Uv", "Uv", ok)
      ELSE IF "Ocd2" \in p.flg /\ p.cur # "dsg"
      THEN ReleaseStep(p, "Ocd2", CleanFlg(p, "OCD2", ok), ok)
      ELSE [p EXCEPT !.rel["Ocd2"] = 0]

-----------------------------------------------------------------------------
(* The temperature detectors: no flag of the chip is involved. *)
Thermal(p, s, f, armed) ==
  IF f \notin p.flg
  THEN IF s.lvl[f] = "trip" /\ armed THEN TripStep(p, f)
       ELSE [p EXCEPT !.trip[f] = 0]
  ELSE IF s.lvl[f] = "release" THEN ReleaseStep(p, f, p, TRUE)
  ELSE [p EXCEPT !.rel[f] = 0]

ProtectUTC_OTC(p, s) ==
  LET q == Thermal(p, s, "Utc", p.cur = "chg")
  IN  Thermal(q, s, "Otc", q.cur = "chg" /\ "temp" \notin q.wait)

ProtectUTD_OTD(p, s) ==
  LET q == Thermal(p, s, "Utd", p.cur = "dsg")
  IN  Thermal(q, s, "Otd", q.cur = "dsg" /\ "temp" \notin q.wait)

ProtectWait(p, s) ==
  IF p.waitCnt + 1 < WaitPeriod THEN [p EXCEPT !.waitCnt = @ + 1]
  ELSE [p EXCEPT
          !.waitCnt = 0,
          !.wait = CASE p.mode = "on"    -> @
                     [] p.mode # "on" /\ s.mos = "hot"  -> @ \cup {"temp"}
                     [] p.mode # "on" /\ s.mos = "cool" -> @ \ {"temp"}
                     [] OTHER            -> @]

-----------------------------------------------------------------------------
(* DIAG_FaultLevelTranProcess: the fault bits and level every bus reports,  *)
(* then ExecLogErrStRecord.                                                 *)
FaultBits(p, s) ==
  LET has(F) == F \cap p.flg # {}
  IN  {b \in FaultBit :
         \/ b = "Short"  /\ "SCD" \in p.r0
         \/ b = "Temp"   /\ (has({"Utc", "Otc", "Utd", "Otd"}) \/ "temp" \in p.wait)
         \/ b = "DisChg" /\ has({"Ocd1", "Ocd2", "Utd", "Otd"})
         \/ b = "Chg"    /\ has({"Occ1", "Occ2", "Utc", "Otc"})
         \/ b = "Cell"   /\ (has({"Uv", "Ov"}) \/ "Vol" \in p.wait)
         \/ b \in s.alarm}

\* Mutants: a low SOC sets level 2; a short circuit sets no level; an
\* overheated MOS sets none.
FaultLevelSoc(bits) ==
  IF bits \cap {"Temp", "DisChg", "Chg", "Cell", "Bat"} # {} THEN 3
  ELSE IF "Soc" \in bits THEN 2 ELSE IF "Short" \in bits THEN 3 ELSE 0
FaultLevelShort(bits) ==
  IF bits \cap {"Temp", "DisChg", "Chg", "Cell", "Bat"} # {} THEN 3
  ELSE IF "Soc" \in bits THEN 1 ELSE 0
FaultLevelMos(bits) ==
  IF bits \cap {"DisChg", "Chg", "Cell", "Bat"} # {} THEN 3
  ELSE IF "Soc" \in bits THEN 1 ELSE IF "Short" \in bits THEN 3 ELSE 0

\* A low SOC sets level 1 after the short circuit set level 3; the other
\* faults set level 3 after both.
FaultLevel(bits) ==
  IF bits \cap {"Temp", "DisChg", "Chg", "Cell", "Bat"} # {} THEN 3
  ELSE IF "Soc" \in bits THEN 1
  ELSE IF "Short" \in bits THEN 3
  ELSE 0

\* A record is written on a change, except on the change to no fault, which
\* also leaves the remembered bits as they were.
ExecLogErrStRecord(p) ==
  IF p.fault = {} \/ <<p.fault, p.level>> = <<p.lastFault, p.lastLevel>>
  THEN [p EXCEPT !.logged = FALSE]
  ELSE [p EXCEPT !.logged = TRUE, !.lastFault = p.fault, !.lastLevel = p.level]

DIAG_FaultLevelTranProcess(p, s) ==
  LET bits == FaultBits(p, s)
  IN  ExecLogErrStRecord(
        [p EXCEPT !.fault = bits, !.level = FaultLevel(bits),
                  !.flg = IF "SCD" \in p.r0 THEN @ ELSE @ \ {"Short"}])

-----------------------------------------------------------------------------
(* Protection_handle.  The chip raises the flags of late after the last    *)
(* read of R0 of the pass.                                                 *)
FlagsOf(r0) == {f \in Flag : \/ f = "Short" /\ "SCD" \in r0
                             \/ f = "Occ2" /\ "OCC2" \in r0
                             \/ f = "Ocd2" /\ "OCD2" \in r0
                             \/ f = "Uv" /\ "CUV" \in r0
                             \/ f = "Ov" /\ "COV" \in r0}

TakeFlags(p, bad) ==
  IF "R0" \in bad THEN p
  ELSE [p EXCEPT !.r0 = p.chipR0, !.flg = @ \cup FlagsOf(p.chipR0)]

Raise(p, late) == [p EXCEPT !.chipR0 = @ \cup late]

ProtectionHandle(p, s, bad, late) ==
  LET a == ProtectSCD(TakeFlags(p, bad), s, bad)
      b == ProtectOV(ProtectUV(Raise(a, late), s, bad), s, bad)
      c == ProtectUTD_OTD(ProtectUTC_OTC(ProtectReChgInhibit(b, s), s), s)
      d == ProtectOCD2(ProtectOCD1(ProtectOCC1(c, s, bad), s, bad), bad)
  IN  DIAG_FaultLevelTranProcess(ProtectWait(d, s), s)

\* Mutant: the shadow flags keep what the MCU last meant to write.
FetStatusTrusting(p, bad) == p

\* Fet_Status: the shadow flags dsg, chg, pdsg follow the outputs.
FetStatus(p, bad) ==
  IF "fet" \in bad THEN p
  ELSE [p EXCEPT !.fet = [g \in Gate |-> CASE g = "dsg"  -> DsgOn(p)
                                           [] g = "chg"  -> ChgOn(p)
                                           [] g = "pdsg" -> PdsgOn(p)]]

\* BrokenDetect (every 250th AFE_Handle): the open-wire test clears R0 first.
\* fewer: the cells at the top of the stack are absent and the count is
\* corrected, once; AFEParam_Config ends with CleanError.
BrokenDetect(p, s, bad) ==
  LET q == CleanError(p, "cow" \notin bad)
  IN  CASE s.cow = "skip"   -> p
        [] s.cow = "unread" -> [p EXCEPT !.wait = @ \ {"Vol"}]
        [] s.cow = "intact" -> [q EXCEPT !.wait = @ \ {"Vol"}]
        [] s.cow = "open"   -> [q EXCEPT !.wait = @ \cup {"Vol"}]
        [] s.cow = "fewer"  -> IF p.counted THEN [q EXCEPT !.wait = @ \ {"Vol"}]
                               ELSE [q EXCEPT !.wait = @ \cup {"Vol"},
                                              !.flg = {}, !.counted = TRUE]

\* The clock: ages are read as now - timer, in 100 ms ticks.
Elapse(p) == [p EXCEPT !.scdAge = Smaller(@ + 1, ScdBound),
                       !.pdsgAge = Smaller(@ + 1, PreBound)]

AfePass(p, s, bad, late) ==
  BrokenDetect(
    FetStatus(
      ProtectionHandle(CurrentAcquisition(Elapse(p), s, bad), s, bad, late),
      bad),
    s, bad)

-----------------------------------------------------------------------------
(* MosCtrl: one operator for the discharge FETs, one for the charge FET.    *)
DsgFault(p) == \/ {"Short", "Uv", "Ocd1", "Ocd2", "Utd", "Otd"} \cap p.flg # {}
               \/ p.wait # {}
ChgFault(p) == \/ {"Ov", "Occ1", "Utc", "Otc"} \cap p.flg # {}
               \/ p.inhibit
               \/ p.wait # {}

\* Drive gate g and its shadow flag together.
Drive(p, g, on, bad) ==
  [FETControl(p, g, on, g \notin bad) EXCEPT !.fet[g] = on]

CloseDsg(p, bad) ==
  LET q == IF p.fet["dsg"] THEN Drive(p, "dsg", FALSE, bad) ELSE p
  IN  IF p.fet["pdsg"] /\ p.pdsgAge > PrechargeTimeout
      THEN Drive(q, "pdsg", FALSE, bad) ELSE q

\* Mutant: the main FET follows one tick early.
OpenDsgEarly(p, bad) ==
  IF p.fet["dsg"]
  THEN IF p.fet["pdsg"] THEN Drive(p, "pdsg", FALSE, bad) ELSE p
  ELSE IF ~p.fet["pdsg"] THEN [Drive(p, "pdsg", TRUE, bad) EXCEPT !.pdsgAge = 0]
  ELSE IF p.pdsgAge >= PrechargeTicks
       THEN Drive(Drive(p, "pdsg", FALSE, bad), "dsg", TRUE, bad)
  ELSE p

OpenDsg(p, bad) ==
  IF p.fet["dsg"]
  THEN IF p.fet["pdsg"] THEN Drive(p, "pdsg", FALSE, bad) ELSE p
  ELSE IF ~p.fet["pdsg"] THEN [Drive(p, "pdsg", TRUE, bad) EXCEPT !.pdsgAge = 0]
  ELSE IF p.pdsgAge > PrechargeTicks
       THEN Drive(Drive(p, "pdsg", FALSE, bad), "dsg", TRUE, bad)
  ELSE p

\* Mutant: a fault is looked at only while there is a FET to close.
DsgCtrlClosing(p, bad) ==
  IF p.active THEN p
  ELSE IF p.fet["dsg"] /\ DsgFault(p) /\ p.cur # "chg" THEN CloseDsg(p, bad)
  ELSE OpenDsg(p, bad)

DsgCtrl(p, bad) ==
  IF p.active THEN p
  ELSE IF DsgFault(p) /\ p.cur # "chg" THEN CloseDsg(p, bad)
  ELSE OpenDsg(p, bad)

\* Mutant: the charge FET opens only under charge current.
ChgCtrlCharging(p, bad) ==
  LET block == ChgFault(p) /\ p.cur = "chg"
  IN  IF p.fet["chg"] = block THEN Drive(p, "chg", ~block, bad) ELSE p

ChgCtrl(p, bad) ==
  LET block == ChgFault(p) /\ p.cur # "dsg"
  IN  IF p.fet["chg"] = block THEN Drive(p, "chg", ~block, bad) ELSE p

\* In power-off the gates are closed; the shadow flags are left alone.
AllOff(p, bad) ==
  LET c == FETControl(p, "chg", FALSE, "chg" \notin bad)
      d == FETControl(c, "dsg", FALSE, "dsg" \notin bad)
  IN  FETControl(d, "pdsg", FALSE, "pdsg" \notin bad)

MosStep(p, bad) ==
  CASE p.mode = "diag" -> p
    [] p.mode = "off"  -> AllOff(p, bad)
    [] OTHER           -> ChgCtrl(DsgCtrl(p, bad), bad)

-----------------------------------------------------------------------------
(* A diagnosis tool: its command drives the FETs at once, past the faults,  *)
(* the pre-discharge and the shadow flags.  The mode follows with the next  *)
(* pass.                                                                    *)
Diagnosed(p, c, bad) ==
  LET q == [p EXCEPT !.diag = c.diag]
      d == FETControl(q, "chg", c.chg, "chg" \notin bad)
  IN  IF c.diag = "basic" THEN FETControl(d, "dsg", c.dsg, "dsg" \notin bad) ELSE q

(* The end of a sleep without a restart of the MCU: AFE_Iicinit resets the  *)
(* chip and presets the cached registers, RAM stays.                        *)
Restored(p, ok) ==
  [p EXCEPT !.r0 = {}, !.chipR0 = IF ok THEN {} ELSE @,
            !.gate = [g \in Gate |-> FALSE],
            !.chipGate = IF ok THEN [g \in Gate |-> FALSE] ELSE @]

-----------------------------------------------------------------------------
NoGate == [g \in Gate |-> FALSE]

\* RAM after a reset; AFE_Iicinit resets the chip and writes the R81 preset.
InitProt ==
  [flg |-> {}, trip |-> [f \in Debounced |-> 0], rel |-> [f \in Timed |-> 0],
   wait |-> {}, waitCnt |-> 0, inhibit |-> FALSE, counted |-> FALSE,
   cur |-> "idle", mode |-> "on", diag |-> "none",
   scd |-> "IDLE", retry |-> 0, scdAge |-> ScdBound, active |-> FALSE,
   fault |-> {}, level |-> 0, lastFault |-> {}, lastLevel |-> 0, logged |-> FALSE,
   r0 |-> {}, chipR0 |-> {}, gate |-> NoGate, chipGate |-> NoGate,
   fet |-> NoGate, pdsgAge |-> PreBound]

Init == /\ prot = InitProt
        /\ phase = "tasks"
        /\ asleep = FALSE
        /\ settled = FALSE
        /\ preAge = 0

Watch(ticks) ==
  preAge' = IF PdsgOn(prot') /\ PdsgOn(prot)
            THEN Smaller(preAge + ticks, PreBound) ELSE 0

\* One pass of the 100 ms branch of AFE_Handle.
AfeHandle(s, bad, late) ==
  /\ phase = "tasks" /\ ~asleep
  /\ settled => bad = {} /\ late = {}
  /\ prot' = AfePass(prot, s, bad, late)
  /\ phase' = "mos"
  /\ Watch(1)
  /\ UNCHANGED <<asleep, settled>>

\* AFE_Handle returns at once.
AfeSkipped ==
  /\ phase = "tasks" /\ asleep
  /\ prot' = Elapse(prot)
  /\ phase' = "mos"
  /\ Watch(1)
  /\ UNCHANGED <<asleep, settled>>

\* The loop was held up (a flash erase, an EEPROM save): time passes only.
Stall ==
  /\ phase = "tasks" /\ ~settled
  /\ prot' = Elapse(prot)
  /\ Watch(1)
  /\ UNCHANGED <<phase, asleep, settled>>

MosCtrl(bad) ==
  /\ settled => bad = {}
  /\ prot' = MosStep(prot, bad)
  /\ phase' = "tasks"
  /\ Watch(0)
  /\ UNCHANGED <<asleep, settled>>

\* In the message pumps.  (That it ends a nap is Rouse.)
ExecDiagnoseCmd(c, bad) ==
  /\ ~settled
  /\ prot' = Diagnosed(prot, c, bad)
  /\ Watch(0)
  /\ UNCHANGED <<phase, asleep, settled>>

\* Shallow_Sleep begins its wait when no current flows; Deep_Sleep, which a
\* diagnosis command may ask for, whatever flows.
Doze ==
  /\ phase = "tasks" /\ ~asleep
  /\ prot.cur = "idle" \/ prot.diag = "basic"
  /\ asleep' = TRUE
  /\ UNCHANGED <<prot, phase, settled, preAge>>

\* Communication, or a current that was there, ends the wait.
Rouse ==
  /\ phase = "tasks" /\ asleep
  /\ asleep' = FALSE
  /\ UNCHANGED <<prot, phase, settled, preAge>>

\* A minute of turns is over: the ages have run out, and a pre-discharge that
\* MosCtrl had in hand has ended.
Rested(p) ==
  /\ p.scdAge = ScdBound /\ p.pdsgAge = PreBound
  /\ p.mode \in {"on", "run"} /\ ~p.active => ~p.fet["pdsg"]

\* Shallow_Sleep sleeps and is woken.
Wake(ok) ==
  /\ phase = "tasks" /\ asleep /\ Rested(prot)
  /\ settled => ok
  /\ prot' = Restored(prot, ok)
  /\ asleep' = FALSE
  /\ Watch(0)
  /\ UNCHANGED <<phase, settled>>

\* The chip trips: the short circuit and overcurrent detectors need a path
\* for the current.
CanTrip(a) == /\ a \in {"SCD", "OCD2"} => DsgOn(prot) \/ PdsgOn(prot)
              /\ a = "OCC2" => ChgOn(prot)

AfeTrip(a) ==
  /\ ~settled /\ a \notin prot.chipR0 /\ CanTrip(a)
  /\ prot' = Raise(prot, {a})
  /\ Watch(0)
  /\ UNCHANGED <<phase, asleep, settled>>

\* Power-on, watchdog or NVIC_SystemReset.  When the chip does not answer
\* AFE_Iicinit the registers it drives from stay as they were.
Reset(ok) ==
  /\ ~settled
  /\ prot' = IF ok THEN InitProt
             ELSE [InitProt EXCEPT !.chipR0 = prot.chipR0, !.chipGate = prot.chipGate]
  /\ phase' = "tasks" /\ asleep' = FALSE
  /\ Watch(0)
  /\ UNCHANGED settled

Settle == /\ ~settled /\ prot.diag = "none"
          /\ settled' = TRUE
          /\ UNCHANGED <<prot, phase, asleep, preAge>>

Measured == IF settled THEN SettledSamples ELSE Samples

AfeStep == \E s \in Measured, bad \in Failures, late \in Lates : AfeHandle(s, bad, late)
MosAct  == \E bad \in GateFailures : MosCtrl(bad)
DiagAct == \E c \in Commands, bad \in GateFailures : ExecDiagnoseCmd(c, bad)

Next == \/ AfeStep
        \/ AfeSkipped
        \/ Stall
        \/ MosAct
        \/ DiagAct
        \/ Doze
        \/ Rouse
        \/ \E ok \in BootAnswers : Wake(ok)
        \/ \E a \in Trips : AfeTrip(a)
        \/ \E ok \in BootAnswers : Reset(ok)
        \/ Settle

\* The loop never stops.  Only AFE_Handle takes phase from "tasks" to "mos",
\* and, short of a reset, only MosCtrl takes it back.  A sleep may last for ever.
TasksDone == phase = "tasks" /\ phase' = "mos"
TurnDone  == phase = "mos" /\ phase' = "tasks"
Fairness  == WF_phase(TasksDone) /\ WF_phase(TurnDone)

Spec     == Init /\ [][Next]_vars
FairSpec == Spec /\ Fairness
-----------------------------------------------------------------------------
(* What is promised. *)

ProtType ==
  [flg : SUBSET Flag, trip : [Debounced -> Nat], rel : [Timed -> Nat],
   wait : SUBSET WaitBit, waitCnt : Nat, inhibit : BOOLEAN, counted : BOOLEAN,
   cur : Current, mode : Mode, diag : DiagMode,
   scd : ScdStates, retry : Nat, scdAge : Nat, active : BOOLEAN,
   fault : SUBSET FaultBit, level : {0, 1, 3},
   lastFault : SUBSET FaultBit, lastLevel : {0, 1, 3}, logged : BOOLEAN,
   r0 : SUBSET AfeFlag, chipR0 : SUBSET AfeFlag,
   gate : [Gate -> BOOLEAN], chipGate : [Gate -> BOOLEAN],
   fet : [Gate -> BOOLEAN], pdsgAge : Nat]

TypeOK == /\ prot \in ProtType
          /\ phase \in {"tasks", "mos"}
          /\ asleep \in BOOLEAN /\ settled \in BOOLEAN
          /\ preAge \in Nat

\* The short-circuit recovery holds the discharge FETs back from MosCtrl
\* exactly while it probes the load through PDSG, and it counts its retries:
\* none when idle, all of them used up when latched, and only then.
ScdLockout ==
  /\ prot.active <=> prot.scd = "PDSG_CHECK"
  /\ prot.scd = "IDLE" => prot.retry = 0
  /\ prot.retry <= ScdMaxRetries
  /\ prot.scd = "LATCHED" <=> prot.retry = ScdMaxRetries

\* An over-voltage that is still flagged has latched the re-charge inhibit,
\* so its release alone never lets the charger back on.
OvInhibits == "Ov" \in prot.flg => prot.inhibit

\* The fault level every bus reports is never "none" while a protection flag
\* is up, and it is the highest one for every flag but the short circuit's
\* (a low SOC lowers that one to 1) and for an overheated MOS.
FaultReported ==
  /\ prot.flg # {} => prot.level > 0
  /\ prot.flg \ {"Short"} # {} \/ "temp" \in prot.wait => prot.level = 3

\* With a working bus, the main discharge FET is commanded on only after the
\* pre-discharge FET has carried the load for more than 200 ms, or by a diagnosis
\* command, whatever naps, wake-ups and commands came before.
PrechargeFirst ==
  [][~prot.chipGate["dsg"] /\ prot'.chipGate["dsg"]
       => preAge > PrechargeTicks \/ DiagAct]_vars

\* With a working bus, nothing but a diagnosis command turns the main discharge
\* FET on against a fault that stands while the pack is not being charged: every
\* write carries the whole cached R81, whose bits are as old as the last command.
OffWhileFaulted ==
  [][~prot.chipGate["dsg"] /\ prot'.chipGate["dsg"]
       => ~DsgFault(prot) \/ prot.cur = "chg" \/ DiagAct]_vars

\* A pass releases a flag the chip raised only when the chip has dropped it
\* too: otherwise the chip goes on blocking a FET the MCU takes for free.  The
\* correction of the cell count drops the flags without looking at the chip.
ReleasedInChip ==
  [][phase = "tasks" /\ phase' = "mos" /\ prot'.counted = prot.counted =>
       (prot.flg \ prot'.flg) \cap {"Uv", "Ov", "Ocd2"} \cap FlagsOf(prot'.chipR0) = {}]_vars

\* A discharge fault that stays while the pack is not charging ends with the
\* discharge output off for good, whatever transfers failed, and whatever a
\* diagnosis or a sleep left, before; while the pack naps nobody looks.
DsgFaultOpens ==
  <>[](settled /\ ~asleep /\ DsgFault(prot) /\ prot.cur # "chg"
         /\ prot.mode \in {"on", "run"})
    => <>[]~DsgOn(prot)

\* The same of the charge output.
ChgFaultOpens ==
  <>[](settled /\ ~asleep /\ ChgFault(prot) /\ prot.cur # "dsg"
         /\ prot.mode \in {"on", "run"})
    => <>[]~ChgOn(prot)

\* The probe of the load ends, with PDSG and the lock on MosCtrl given back,
\* unless a nap freezes it.
ProbeEnds == prot.scd = "PDSG_CHECK" ~> (prot.scd # "PDSG_CHECK" /\ ~prot.active) \/ asleep

\* In a pack that has come to rest in good health and is kept awake, no fault is
\* left standing against discharge and the discharge output comes on and stays
\* on, whatever diagnosis, naps and wake-ups left of flags and FETs.
DischargeReturns ==
  <>[](settled /\ ~asleep) => <>[](DsgOn(prot) /\ ~DsgFault(prot))

\* The short-circuit recovery as the rest of the program sees it.
StageOf(scd) == CASE scd = "IDLE"       -> "clear"
                  [] scd = "COOLDOWN"   -> "waiting"
                  [] scd = "PDSG_CHECK" -> "probing"
                  [] scd = "DSG_VERIFY" -> "verifying"
                  [] scd = "LATCHED"    -> "latched"

Recovery == INSTANCE ScdRecovery
              WITH MaxTries <- ScdMaxRetries, stage <- StageOf(prot.scd),
                   tries <- prot.retry, held <- prot.active, steady <- settled,
                   main <- prot.chipGate["dsg"], tool <- prot.diag = "basic"

\* With a working bus ProtectSCD and MosCtrl implement it: whatever trips, fails
\* or is measured, a cool-down ends in a probe or with the load gone, a round is
\* never repeated without being counted, nothing but a restart abandons a probe,
\* and while a probe lasts only a diagnosis command turns the main FET on.
RecoveryRefined == Recovery!Spec

(* What comments of the code say and the code does not do. *)

\* Protection.c: current the other way releases an overcurrent (the comments
\* at the reversal branch of each of the four detectors).
ReversalReleases ==
  [][phase = "tasks" /\ phase' = "mos" =>
       /\ prot'.cur = "chg" => {"Ocd1", "Ocd2"} \cap prot.flg \cap prot'.flg = {}
       /\ prot'.cur = "dsg" => {"Occ1", "Occ2"} \cap prot.flg \cap prot'.flg = {}]_vars

=============================================================================
