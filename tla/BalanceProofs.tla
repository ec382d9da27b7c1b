----------------------------- MODULE BalanceProofs -----------------------------
(***************************************************************************)
(* Proofs about Balance, for every pack and every set of voltages.  The    *)
(* invariant is the type and that the prepared mask is the one the last    *)
(* pass asked for, whichever branch of BalanceProcess it took.             *)
(***************************************************************************)
EXTENDS Balance, WellFoundedInduction, TLAPS

\* A non-empty set of voltages has a least one.
LEMMA LeastVolt ==
  ASSUME NEW T, T \subseteq Nat, T # {}
  PROVE  Min(T) \in T /\ \A y \in T : Min(T) <= y
<1> DEFINE R == OpToRel(<, Nat)
<1>1. \E x \in T : \A y \in T : ~(<<y, x>> \in R)
  <2>1. IsWellFoundedOn(R, Nat)  BY NatLessThanWellFounded
  <2> HIDE DEF R
  <2> QED  BY <2>1, WFMin
<1>2. \A x \in Nat, y \in Nat : y < x => <<y, x>> \in R  BY DEF OpToRel
<1> HIDE DEF R
<1>3. PICK x \in T : \A y \in T : ~(<<y, x>> \in R)  BY <1>1
<1>4. \E z \in T : \A y \in T : z <= y
  <2>1. \A y \in T : ~(y < x)  BY <1>2, <1>3
  <2>2. \A y \in T : x <= y  BY <2>1
  <2> QED  BY <2>2
<1>5. Min(T) = CHOOSE z \in T : \A y \in T : z <= y  BY DEF Min
<1> QED  BY <1>4, <1>5, Zenon

\* The lowest voltage is one of the pack's, or 0.
LEMMA LowestVolt ==
  ASSUME NEW v \in [Cells -> Volts]
  PROVE  Lowest(v) \in Volts /\ (Lowest(v) = 0 \/ \E i \in Cells : v[i] = Lowest(v))
<1> DEFINE live == {v[i] : i \in Cells} \ {0}
<1>1. live \subseteq Volts /\ live \subseteq Nat  BY VoltAssumption
<1>2. CASE live = {}  BY <1>2, VoltAssumption DEF Lowest
<1>3. CASE live # {}
  <2>1. Min(live) \in live  BY <1>1, <1>3, LeastVolt
  <2> QED  BY <1>1, <1>3, <2>1 DEF Lowest
<1> QED  BY <1>2, <1>3

\* With a gap asked for (wBalanceDiff > 0) a pass of BalanceProcess wants no cell at the lowest
\* live voltage, nor one that reads 0, and so never every cell: the exception in BalanceFollows
\* is left to a gap of 0, as a command outside 0..3 sets it.
THEOREM LowestSpared ==
  ASSUME NEW v \in [Cells -> Volts], NEW h \in BOOLEAN,
         NEW c \in [at : Volts, by : Gaps], c.by > 0
  PROVE  /\ \A i \in Cells : v[i] <= Lowest(v) => i \notin Wanted(v, h, c)
         /\ Wanted(v, h, c) # Cells
<1>1. c.by \in Nat /\ \A i \in Cells : v[i] \in Nat  BY VoltAssumption
<1>2. Lowest(v) \in Nat  BY LowestVolt, VoltAssumption
<1>3. PICK i \in Cells : v[i] <= Lowest(v)
  <2>1. CASE \E i \in Cells : v[i] = Lowest(v)
    <3>1. PICK i \in Cells : v[i] = Lowest(v)  BY <2>1
    <3> QED  BY <1>2, <3>1
  <2>2. CASE ~\E i \in Cells : v[i] = Lowest(v)
    <3>1. Lowest(v) = 0  BY <2>2, LowestVolt
    <3> DEFINE live == {v[j] : j \in Cells} \ {0}
    <3>2. live = {}
      <4>1. SUFFICES ASSUME live # {} PROVE FALSE  OBVIOUS
      <4>2. live \subseteq Nat  BY <1>1
      <4>3. Min(live) \in live  BY <4>1, <4>2, LeastVolt
      <4>4. Lowest(v) = Min(live)  BY <4>1 DEF Lowest
      <4> QED  BY <3>1, <4>3, <4>4
    <3>3. PICK j \in Cells : TRUE  BY CellAssumption
    <3> QED  BY <3>1, <3>2, <3>3
  <2> QED  BY <2>1, <2>2
<1>4. ASSUME NEW j \in Cells, v[j] <= Lowest(v)
      PROVE  j \notin Wanted(v, h, c)
  <2>1. ~(v[j] >= Lowest(v) + c.by)  BY <1>1, <1>2, <1>4
  <2> QED  BY <2>1 DEF Wanted
<1> QED  BY <1>3, <1>4

LEMMA WantedCells ==
  ASSUME NEW v, NEW h, NEW c
  PROVE  Wanted(v, h, c) \in Masks
BY DEF Wanted, Masks

-------------------------------------------------------------------------------

BalInv == BalTypeOK /\ prepared = asked

LEMMA BalInitInv == BalInit => BalInv
<1> SUFFICES ASSUME BalInit PROVE BalInv  OBVIOUS
<1>1. [i \in Cells |-> 0] \in [Cells -> Volts]  BY VoltAssumption
<1>2. {} \in Masks \ {Switches}  BY CellAssumption DEF Masks
<1> QED  BY <1>1, <1>2 DEF BalInit, BalInv, BalTypeOK

\* A pass keeps the invariant, and switches on only what was confirmed.
LEMMA PassKeeps ==
  ASSUME BalInv, NEW enabled \in BOOLEAN, Pass(enabled)
  PROVE  BalInv' /\ chip' \ chip \subseteq asked \cap asked'
<1> USE DEF BalInv, BalTypeOK
<1>1. volt' \in [Cells -> Volts]  BY DEF Pass, Measured
<1>2. crit' = crit /\ settled' = settled /\ stopped' = stopped  BY DEF Pass
<1>3. CASE enabled
  <2>1. hot' \in BOOLEAN  BY <1>3 DEF Pass, Heats
  <2>2. asked' \in Masks  BY <1>3, WantedCells DEF Pass
  <2>3. PICK read \in Works, written \in Works : BalanceProcess(asked', read, written)
    BY <1>3 DEF Pass
  <2>4. Seen(read) \in Masks  BY DEF Seen
  <2>5. prepared' = asked' /\ known' \in Masks
    BY <2>2, <2>3, <2>4 DEF BalanceProcess
  <2>6. \/ chip' = chip
        \/ chip' = asked' /\ asked' # Switches /\ asked' = asked
    BY <2>3 DEF BalanceProcess, Confirmed, Writable
  <2> QED  BY <1>1, <1>2, <2>1, <2>2, <2>5, <2>6
<1>4. CASE ~enabled
  <2>1. UNCHANGED <<hot, known, prepared, chip, asked>>  BY <1>4 DEF Pass
  <2> QED  BY <1>1, <1>2, <2>1
<1> QED  BY <1>3, <1>4

LEMMA OtherKeeps ==
  ASSUME BalInv,
         \/ \E cmd \in {"preset", "passive", "active", "stop", "other"}, value \in Volts :
              ExecDiagnoseCmd(cmd, value)
         \/ WriteCriteria \/ Wake \/ Reset \/ Settle \/ UNCHANGED balanceVars
  PROVE  BalInv' /\ chip' \ chip \subseteq asked \cap asked'
<1> USE DEF BalInv, BalTypeOK
<1>1. {} \in Masks \ {Switches}  BY CellAssumption DEF Masks
<1>2. ASSUME NEW cmd \in {"preset", "passive", "active", "stop", "other"}, NEW value \in Volts,
             ExecDiagnoseCmd(cmd, value)
      PROVE  BalInv' /\ chip' \ chip \subseteq asked \cap asked'
  <2>1. VolMin \subseteq Volts  BY LowestVolt, VoltAssumption DEF VolMin
  <2>2. ASSUME NEW low \in VolMin PROVE Equ(cmd, value, low) \in [at : Volts, by : Gaps]
    <3>1. CASE cmd = "preset"  BY <3>1, VoltAssumption DEF Equ
    <3>2. CASE cmd = "passive"  BY <3>2, VoltAssumption DEF Equ
    <3>3. CASE cmd = "active"  BY <2>1, <3>3, VoltAssumption DEF Equ
    <3>4. CASE cmd = "stop"  BY <3>4 DEF Equ
    <3>5. CASE cmd = "other"  BY <3>5, VoltAssumption DEF Equ
    <3> QED  BY <3>1, <3>2, <3>3, <3>4, <3>5
  <2> QED  BY <1>2, <2>2 DEF ExecDiagnoseCmd
<1>3. CASE WriteCriteria  BY <1>3 DEF WriteCriteria
<1>4. CASE Wake  BY <1>1, <1>4 DEF Wake, AFE_Iicinit
<1>5. CASE Reset
  <2>1. [i \in Cells |-> 0] \in [Cells -> Volts]  BY VoltAssumption
  <2> QED  BY <1>1, <1>5, <2>1 DEF Reset, AFE_Iicinit
<1>6. CASE Settle  BY <1>6 DEF Settle
<1>7. CASE UNCHANGED balanceVars  BY <1>7 DEF balanceVars
<1> QED  BY <1>2, <1>3, <1>4, <1>5, <1>6, <1>7

LEMMA BalStep ==
  ASSUME BalInv, [BalNext]_balanceVars
  PROVE  BalInv' /\ chip' \ chip \subseteq asked \cap asked'
<1>1. CASE Pass(TRUE)  BY <1>1, PassKeeps
<1>2. CASE Pass(FALSE)  BY <1>2, PassKeeps
<1> QED  BY <1>1, <1>2, OtherKeeps DEF BalNext

LEMMA BalInvariant == BalSpec => []BalInv
<1>1. BalInv /\ [BalNext]_balanceVars => BalInv'  BY BalStep
<1> QED  BY BalInitInv, <1>1, PTL DEF BalSpec

\* Only cells are balanced, and never through the mask of all switches.
THEOREM BalTypeCorrect == BalSpec => []BalTypeOK
<1>1. BalInv => BalTypeOK  BY DEF BalInv
<1> QED  BY <1>1, BalInvariant, PTL

\* A resistor goes on only if two balancing passes running asked for it.
THEOREM MaskConfirmedHolds == BalSpec => MaskConfirmed
<1>1. BalInv /\ [BalNext]_balanceVars => [chip' \ chip \subseteq asked \cap asked']_balanceVars
  BY BalStep
<1> QED  BY <1>1, BalInvariant, PTL DEF BalSpec, MaskConfirmed
===============================================================================
