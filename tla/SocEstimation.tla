--------------------------- MODULE SocEstimation ---------------------------
(***************************************************************************)
(* The state of charge (Soc.c): SOC_Init, which restores it and corrects   *)
(* it from the open-circuit voltage after a reset or a sleep, and the      *)
(* 50 ms SocEstimation, which integrates the current, holds the display    *)
(* short of its ends and latches it at 100 % and at 0 %.                   *)
(*                                                                         *)
(* A SOC is an integer of 0.01 %.  A cell voltage is what the code         *)
(* compares it with: past a limit, back from it, or between.               *)
(***************************************************************************)
EXTENDS Integers

CONSTANTS
  Full,                 \* 10000: 100 %
  HoldFull, HoldEmpty,  \* 9900 and 100: where the display waits for the latch
  Near,                 \* 300: within it the display moves as the estimate does
  Limit,                \* 20: samples past the voltage limit before a latch
  ConnectWait,          \* TIME_WAIT_CONNECT, in calls of SocEstimation
  EndLow, EndHigh,      \* 2000 and 8000 or 9000: the steep ends of the OCV curve
  LowLim, HighLim,      \* differences that correct the display at those ends
  RefLim, ShowLim,      \* SOC_REF_CORRLIM, SOC_SHOW_CORRLIM
  Steps,                \* charge of one sample, in units of half a step of the display
  SavedSocs,            \* what tEERun may hold at a reset
  SetSocs,              \* what a calibration command may set (any uint16_t)
  OcvSocs               \* what the OCV table may answer

ASSUME SocAssumption ==
  /\ {Full, HoldFull, HoldEmpty, Near, Limit, ConnectWait} \subseteq Nat \ {0}
  /\ {EndLow, EndHigh, LowLim, HighLim, RefLim, ShowLim} \subseteq Nat
  /\ HoldEmpty <= HoldFull /\ HoldFull < Full
  /\ Steps \subseteq 0 .. Near
  /\ SavedSocs \subseteq Nat /\ SetSocs \subseteq Nat /\ OcvSocs \subseteq 0 .. Full

\* One sample.  volt: the highest cell when charging, the lowest when
\* discharging, is past its limit; moved: the other end's latch may go (the
\* lowest cell when charging, the highest when discharging); amp: the charge,
\* in half steps; out: its direction; fwd: wCur, cut to 0.1 A, is positive.
Sample == [mode : {"chg", "dsg", "other"}, amp : Steps, out : BOOLEAN,
           fwd : BOOLEAN, volt : {"past", "within"}, moved : BOOLEAN,
           small : BOOLEAN, valid : BOOLEAN, comm : BOOLEAN, counted : BOOLEAN]

\* The current has the mode's direction; 0.4 A or less is not a direction.
Sane(s) == /\ s.mode = "dsg" => s.out /\ s.fwd /\ ~s.small
           /\ s.mode = "chg" => ~s.out /\ ~s.fwd /\ ~s.small
           /\ s.fwd => s.out

CONSTANT Samples
ASSUME SamplesAssumption == Samples \subseteq {s \in Sample : Sane(s)}

VARIABLES
  soc,      \* the estimate, the display, the latches and their counters
  boot,     \* SOC_Init: bySocInit, its step and its timer
  steady    \* environment: the pack is from now on charged, or discharged, past its end

vars == <<soc, boot, steady>>

Clamp(x) == IF x > Full THEN Full ELSE IF x < 0 THEN 0 ELSE x
SetTo(p, x, y) == [p EXCEPT !.ref = x, !.show = y]
HoldAt(p, x)   == SetTo(p, x, x)

Gap(p)   == IF p.ref > p.show THEN p.ref - p.show ELSE p.show - p.ref

-----------------------------------------------------------------------------
(* One estimation, a stage at a time. *)

\* Mutant: far from the estimate the two rates are swapped.
ShiftSwapped(p, s) == IF Gap(p) < Near THEN 2 * s.amp
                      ELSE IF s.fwd = (p.show > p.ref) THEN s.amp ELSE 3 * s.amp

\* The display moves at the estimate's rate when near it, else half as fast
\* again towards it or half as fast away from it.
Shift(p, s) == IF Gap(p) < Near THEN 2 * s.amp
               ELSE IF s.fwd = (p.show > p.ref) THEN 3 * s.amp ELSE s.amp

Integrate(p, s) ==
  IF s.out
  THEN SetTo(p, p.ref - 2 * s.amp, p.show - Shift(p, s))
  ELSE SetTo(p, p.ref + 2 * s.amp, p.show + Shift(p, s))

\* Mutant: the mode is not looked at.
ReleaseAnyMode(p, s) == [p EXCEPT !.full = @ /\ ~s.moved, !.empty = @ /\ ~s.moved]

\* A latch is released by current the other way once the cells follow it.
Release(p, s) ==
  [p EXCEPT !.full  = @ /\ ~(s.mode = "dsg" /\ s.moved),
            !.empty = @ /\ ~(s.mode = "chg" /\ s.moved)]

\* Mutants of ChargeEnd: the empty latch is left on; the empty latch wins.
ChargeEndBoth(p, s) ==
  IF s.volt = "past"
  THEN IF p.hcnt > Limit THEN [p EXCEPT !.hcnt = 0, !.full = TRUE]
       ELSE [p EXCEPT !.hcnt = @ + 1]
  ELSE [p EXCEPT !.hcnt = 0]
ChargeEndEmptyWins(p, s) ==
  IF s.volt = "past"
  THEN IF p.hcnt > Limit THEN [p EXCEPT !.hcnt = 0, !.full = ~p.empty]
       ELSE [p EXCEPT !.hcnt = @ + 1]
  ELSE [p EXCEPT !.hcnt = 0]

ChargeEnd(p, s) ==
  IF s.volt = "past"
  THEN IF p.hcnt > Limit THEN [p EXCEPT !.hcnt = 0, !.full = TRUE, !.empty = FALSE]
       ELSE [p EXCEPT !.hcnt = @ + 1]
  ELSE LET q == [p EXCEPT !.hcnt = 0]
       IN  IF ~p.full /\ p.show >= HoldFull THEN HoldAt(q, HoldFull) ELSE q

DischargeEnd(p, s) ==
  IF s.volt = "past"
  THEN IF p.lcnt > Limit THEN [p EXCEPT !.lcnt = 0, !.empty = TRUE, !.full = FALSE]
       ELSE [p EXCEPT !.lcnt = @ + 1]
  ELSE LET q == [p EXCEPT !.lcnt = 0]
       IN  IF ~p.empty /\ p.show <= HoldEmpty THEN HoldAt(q, HoldEmpty) ELSE q

Endpoint(p, s) == CASE s.mode = "chg" -> ChargeEnd(p, s)
                    [] s.mode = "dsg" -> DischargeEnd(p, s)
                    [] OTHER          -> p

\* Mutant: no clamp at 0.
PinAbove(p) == IF p.full THEN HoldAt(p, Full) ELSE IF p.empty THEN HoldAt(p, 0)
               ELSE SetTo(p, IF p.ref > Full THEN Full ELSE p.ref,
                             IF p.show > Full THEN Full ELSE p.show)

Pin(p) == IF p.full THEN HoldAt(p, Full)
          ELSE IF p.empty THEN HoldAt(p, 0)
          ELSE SetTo(p, Clamp(p.ref), Clamp(p.show))

Estimated(p, s) == Pin(Endpoint(Release(Integrate(p, s), s), s))

-----------------------------------------------------------------------------
(* SOC_Init. *)

\* The OCV's answer v corrects the estimate and the display by its zone.
Corrected(p, v) ==
  LET far(a, lim) == (IF a > v THEN a - v ELSE v - a) >= lim
      low  == IF p.show > v /\ p.show - v > LowLim THEN v ELSE p.show
      high == IF v > p.show /\ v - p.show >= HighLim THEN v ELSE p.show
  IN  CASE v \in 1 .. EndLow -> SetTo(p, v, low)
        [] v \in EndLow + 1 .. EndHigh ->
             SetTo(p, IF far(p.ref, RefLim) THEN v ELSE p.ref,
                      IF far(p.show, ShowLim) THEN v ELSE p.show)
        [] v \in EndHigh + 1 .. Full - 1 -> SetTo(p, v, high)
        [] OTHER -> p

\* The call that starts the initialisation drops the latches, and times it.
Started(p) == IF boot.soc THEN p ELSE [p EXCEPT !.full = FALSE, !.empty = FALSE]
Timed == IF boot.soc THEN [boot EXCEPT !.age = IF @ < ConnectWait THEN @ + 1 ELSE @]
         ELSE [boot EXCEPT !.soc = TRUE, !.afeInit = FALSE, !.age = 0]

Connected(b, s) == b.afeInit \/ (b.age >= ConnectWait /\ s.comm)

InitCall(s) ==
  LET p == Started(soc)
      b == IF s.valid THEN [Timed EXCEPT !.afeInit = Connected(Timed, s)] ELSE Timed
      done(n) == boot' = [b EXCEPT !.init = n]
  IN  CASE ~s.valid -> soc' = p /\ boot' = b
        [] s.valid /\ b.step = "EE" ->
             /\ \E r \in SavedSocs, w \in SavedSocs : soc' = SetTo(p, r, w)
             /\ boot' = [b EXCEPT !.step = "Table"]
        [] s.valid /\ b.step = "Table" /\ b.afeInit /\ ~s.comm ->
             soc' = HoldAt(p, 0) /\ done(4)
        [] s.valid /\ b.step = "Table" /\ b.afeInit /\ s.comm /\ s.counted /\ s.small ->
             \/ \E v \in OcvSocs : soc' = Corrected(p, v) /\ done(1)
             \/ \E v \in {0, Full} : soc' = HoldAt(p, v) /\ done(2)  \* off the table
        [] s.valid /\ b.step = "Table" /\ b.afeInit /\ s.comm /\ s.counted /\ ~s.small ->
             soc' = p /\ done(3)
        [] OTHER -> soc' = p /\ boot' = b

-----------------------------------------------------------------------------
InitSoc  == [ref |-> 0, show |-> 0, full |-> FALSE, empty |-> FALSE,
             hcnt |-> 0, lcnt |-> 0]
InitBoot == [init |-> 0, soc |-> FALSE, afeInit |-> FALSE, step |-> "EE", age |-> 0]

Init == soc = InitSoc /\ boot = InitBoot /\ steady = "no"

Initialise(s) == boot.init = 0 /\ InitCall(s) /\ UNCHANGED steady

Estimate(s) ==
  /\ boot.init # 0
  /\ soc' = Estimated(soc, s)
  /\ boot' = [boot EXCEPT !.soc = FALSE]
  /\ UNCHANGED steady

Measured ==
  IF steady = "no" THEN Samples
  ELSE {s \in Samples : s.mode = steady /\ s.volt = "past" /\ s.valid /\ s.comm /\ s.counted}

SocTask == \E s \in Measured : Initialise(s) \/ Estimate(s)

\* Sys_WakeUp after a sleep.
SOC_WakeupCalibrate ==
  /\ steady = "no"
  /\ boot' = [boot EXCEPT !.init = 0]
  /\ soc' = [soc EXCEPT !.full = FALSE, !.empty = FALSE]
  /\ UNCHANGED steady

\* The calibration command of ExecDiagnoseCmd.
Calibrate(v) == steady = "no" /\ soc' = HoldAt(soc, v) /\ UNCHANGED <<boot, steady>>

Reset == steady = "no" /\ soc' = InitSoc /\ boot' = InitBoot /\ UNCHANGED steady

Settle == steady = "no" /\ steady' \in {"chg", "dsg"} /\ UNCHANGED <<soc, boot>>

Next == \/ SocTask
        \/ SOC_WakeupCalibrate
        \/ \E v \in SetSocs : Calibrate(v)
        \/ Reset
        \/ Settle

Spec == Init /\ [][Next]_vars /\ WF_vars(SocTask)

-----------------------------------------------------------------------------
SocType == [ref : Nat, show : Nat, full : BOOLEAN, empty : BOOLEAN, hcnt : Nat, lcnt : Nat]

TypeOK == /\ soc \in SocType
          /\ boot \in [init : 0 .. 4, soc : BOOLEAN, afeInit : BOOLEAN,
                       step : {"EE", "Table"}, age : Nat]
          /\ steady \in {"no", "chg", "dsg"}

\* The pack is never held full and empty at once, and neither counter passes
\* the sample that sets its latch.
LatchesApart == ~(soc.full /\ soc.empty) /\ soc.hcnt <= Limit + 1 /\ soc.lcnt <= Limit + 1

\* Once a latch has set the display, only current the other way moves it off
\* its end: neither float charge or rest, nor the recovery of an empty pack's
\* voltage.  (A sleep, a calibration or a reset is not an estimation.)
LatchHolds ==
  [][\A s \in Measured : Estimate(s) =>
       /\ soc.full  /\ soc.show = Full /\ s.mode # "dsg" => soc'.show = Full
       /\ soc.empty /\ soc.show = 0    /\ s.mode # "chg" => soc'.show = 0]_vars

\* While current flows, the display never moves away from the estimate, not
\* where it is clamped, held short of an end or pinned to one either.
GapNeverGrows ==
  [][\A s \in Measured : Estimate(s) /\ s.mode # "other" => Gap(soc') <= Gap(soc)]_vars

\* A pack charged past its end, or discharged past it, comes to show 100 %, or
\* 0 %, and stays there, whatever it went through and wherever it started.
EndReached ==
  /\ steady = "chg" ~> [](soc.show = Full /\ soc.ref = Full)
  /\ steady = "dsg" ~> [](soc.show = 0 /\ soc.ref = 0)

=============================================================================
