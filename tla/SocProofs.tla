----------------------------- MODULE SocProofs -----------------------------
(***************************************************************************)
(* Proofs about SocEstimation, for every scale, threshold, delay and set   *)
(* of inputs.  The stages of an estimation are followed one by one, over   *)
(* estimates that may leave the scale until Pin brings them back.          *)
(***************************************************************************)
EXTENDS SocEstimation, TLAPS

\* The scale in the middle of an estimation: not clamped yet.
OpenType == [ref : Int, show : Int, full : BOOLEAN, empty : BOOLEAN,
             hcnt : 0 .. Limit + 1, lcnt : 0 .. Limit + 1]

Apart(p) == ~(p.full /\ p.empty)

LEMMA LimitType == Limit \in Nat /\ Full \in Nat /\ HoldFull \in Nat /\ HoldEmpty \in Nat
BY SocAssumption

LEMMA SampleType ==
  ASSUME NEW s \in Samples
  PROVE  /\ s \in Sample /\ Sane(s)
         /\ s.amp \in Nat /\ s.amp <= Near /\ Near \in Nat
<1>1. s \in Sample /\ Sane(s)  BY SamplesAssumption
<1>2. s.amp \in 0 .. Near /\ Near \in Nat  BY <1>1, SocAssumption DEF Sample
<1> QED  BY <1>1, <1>2

\* Setting the two scales touches nothing else.
LEMMA SetScales ==
  ASSUME NEW p \in OpenType
  PROVE  \A x \in Int, y \in Int :
           /\ SetTo(p, x, y) \in OpenType
           /\ SetTo(p, x, y).ref = x /\ SetTo(p, x, y).show = y
           /\ SetTo(p, x, y).full = p.full /\ SetTo(p, x, y).empty = p.empty
BY DEF OpenType, SetTo

\* Each stage keeps the type, and no stage sets one latch beside the other.
LEMMA IntegrateKeeps ==
  ASSUME NEW p \in OpenType, NEW s \in Samples
  PROVE  /\ Integrate(p, s) \in OpenType
         /\ Integrate(p, s).full = p.full /\ Integrate(p, s).empty = p.empty
<1>1. s.amp \in Nat  BY SampleType
<1>2. Shift(p, s) \in Int  BY <1>1 DEF Shift
<1>3. p.ref \in Int /\ p.show \in Int  BY DEF OpenType
<1>4. /\ p.ref - 2 * s.amp \in Int /\ p.show - Shift(p, s) \in Int
      /\ p.ref + 2 * s.amp \in Int /\ p.show + Shift(p, s) \in Int
  BY <1>1, <1>2, <1>3
<1> QED  BY <1>4, SetScales DEF Integrate

LEMMA ReleaseKeeps ==
  ASSUME NEW p \in OpenType, NEW s \in Samples
  PROVE  /\ Release(p, s) \in OpenType
         /\ Release(p, s).ref = p.ref /\ Release(p, s).show = p.show
         /\ Release(p, s).full => p.full
         /\ Release(p, s).empty => p.empty
BY DEF Release, OpenType

\* What the two ends do to the estimate, field by field.
LEMMA EndpointShapes ==
  ASSUME NEW p \in OpenType
  PROVE  /\ \A n \in 0 .. Limit + 1 :
              /\ [p EXCEPT !.hcnt = n] \in OpenType
              /\ [p EXCEPT !.hcnt = n].full = p.full
              /\ [p EXCEPT !.hcnt = n].empty = p.empty
              /\ [p EXCEPT !.lcnt = n] \in OpenType
              /\ [p EXCEPT !.lcnt = n].full = p.full
              /\ [p EXCEPT !.lcnt = n].empty = p.empty
         /\ \A x \in Int :
              /\ HoldAt(p, x) \in OpenType
              /\ HoldAt(p, x).full = p.full /\ HoldAt(p, x).empty = p.empty
BY DEF OpenType, HoldAt, SetTo

LEMMA EndpointKeeps ==
  ASSUME NEW p \in OpenType, NEW s \in Samples, Apart(p)
  PROVE  Endpoint(p, s) \in OpenType /\ Apart(Endpoint(p, s))
<1>1. /\ 0 \in 0 .. Limit + 1 /\ HoldFull \in Int /\ HoldEmpty \in Int
      /\ p.hcnt > Limit \/ p.hcnt + 1 \in 0 .. Limit + 1
      /\ p.lcnt > Limit \/ p.lcnt + 1 \in 0 .. Limit + 1
  BY LimitType DEF OpenType
<1>2. ChargeEnd(p, s) \in OpenType /\ Apart(ChargeEnd(p, s))
  <2> DEFINE q == [p EXCEPT !.hcnt = 0]
  <2>1. q \in OpenType /\ q.full = p.full /\ q.empty = p.empty
    BY <1>1, EndpointShapes
  <2>2. HoldAt(q, HoldFull) \in OpenType /\ Apart(HoldAt(q, HoldFull)) /\ Apart(q)
    <3> HIDE DEF q
    <3> QED  BY <1>1, <2>1, EndpointShapes DEF Apart
  <2>3. CASE s.volt = "past" /\ p.hcnt > Limit
    BY <2>3, <1>1 DEF ChargeEnd, OpenType, Apart
  <2>4. CASE s.volt = "past" /\ ~(p.hcnt > Limit)
    BY <2>4, <1>1, EndpointShapes, ZenonT(60) DEF ChargeEnd, Apart
  <2>5. CASE s.volt # "past"
    <3>1. ChargeEnd(p, s) = IF ~p.full /\ p.show >= HoldFull THEN HoldAt(q, HoldFull) ELSE q
      BY <2>5 DEF ChargeEnd
    <3> HIDE DEF q
    <3> QED  BY <3>1, <2>1, <2>2
  <2> QED  BY <2>3, <2>4, <2>5
<1>3. DischargeEnd(p, s) \in OpenType /\ Apart(DischargeEnd(p, s))
  <2> DEFINE q == [p EXCEPT !.lcnt = 0]
  <2>1. q \in OpenType /\ q.full = p.full /\ q.empty = p.empty
    BY <1>1, EndpointShapes
  <2>2. HoldAt(q, HoldEmpty) \in OpenType /\ Apart(HoldAt(q, HoldEmpty)) /\ Apart(q)
    <3> HIDE DEF q
    <3> QED  BY <1>1, <2>1, EndpointShapes DEF Apart
  <2>3. CASE s.volt = "past" /\ p.lcnt > Limit
    BY <2>3, <1>1 DEF DischargeEnd, OpenType, Apart
  <2>4. CASE s.volt = "past" /\ ~(p.lcnt > Limit)
    BY <2>4, <1>1, EndpointShapes, ZenonT(60) DEF DischargeEnd, Apart
  <2>5. CASE s.volt # "past"
    <3>1. DischargeEnd(p, s) = IF ~p.empty /\ p.show <= HoldEmpty THEN HoldAt(q, HoldEmpty) ELSE q
      BY <2>5 DEF DischargeEnd
    <3> HIDE DEF q
    <3> QED  BY <3>1, <2>1, <2>2
  <2> QED  BY <2>3, <2>4, <2>5
<1> QED  BY <1>2, <1>3 DEF Endpoint

SocIn(p) == p \in OpenType /\ p.ref \in Nat /\ p.show \in Nat /\ Apart(p)

LEMMA PinKeeps ==
  ASSUME NEW p \in OpenType, Apart(p)
  PROVE  /\ SocIn(Pin(p)) /\ Pin(p) \in OpenType
         /\ Pin(p).full = p.full /\ Pin(p).empty = p.empty
         /\ p.full => Pin(p).show = Full
         /\ p.empty => Pin(p).show = 0
<1>1. p.ref \in Int /\ p.show \in Int  BY DEF OpenType
<1>2. \A x \in Int : Clamp(x) \in Nat  BY LimitType DEF Clamp
<1>3. /\ Full \in Int /\ 0 \in Int /\ Full \in Nat /\ 0 \in Nat
      /\ Clamp(p.ref) \in Nat /\ Clamp(p.show) \in Nat
      /\ Clamp(p.ref) \in Int /\ Clamp(p.show) \in Int
  BY <1>1, <1>2, LimitType
<1>4. \A x \in Nat, y \in Nat :
        /\ SocIn(SetTo(p, x, y)) /\ SetTo(p, x, y) \in OpenType
        /\ SetTo(p, x, y).show = y
        /\ SetTo(p, x, y).full = p.full /\ SetTo(p, x, y).empty = p.empty
  <2>1. Nat \subseteq Int  OBVIOUS
  <2> QED  BY <2>1, SetScales DEF SocIn, Apart
<1> QED  BY <1>3, <1>4 DEF Pin, HoldAt, Apart

LEMMA EstimatedKeeps ==
  ASSUME SocIn(soc), NEW s \in Samples
  PROVE  /\ SocIn(Estimated(soc, s))
         /\ Estimated(soc, s).full => Estimated(soc, s).show = Full
         /\ Estimated(soc, s).empty => Estimated(soc, s).show = 0
<1> DEFINE a == Integrate(soc, s)
           b == Release(a, s)
           c == Endpoint(b, s)
<1>1. a \in OpenType /\ Apart(a)  BY IntegrateKeeps DEF SocIn, Apart
<1> HIDE DEF a
<1>2. b \in OpenType /\ Apart(b)  BY <1>1, ReleaseKeeps DEF Apart
<1> HIDE DEF b
<1>3. c \in OpenType /\ Apart(c)  BY <1>2, EndpointKeeps
<1> HIDE DEF c
<1>4. Pin(c) \in OpenType /\ SocIn(Pin(c)) /\ Pin(c).full = c.full /\ Pin(c).empty = c.empty
      /\ (c.full => Pin(c).show = Full) /\ (c.empty => Pin(c).show = 0)
  BY <1>3, PinKeeps
<1> QED  BY <1>4 DEF Estimated, a, b, c

-----------------------------------------------------------------------------
(* The inductive invariant: every other operation keeps it too. *)
BootType == [init : 0 .. 4, soc : BOOLEAN, afeInit : BOOLEAN,
             step : {"EE", "Table"}, age : Nat]

IInv == SocIn(soc) /\ boot \in BootType /\ steady \in {"no", "chg", "dsg"}

LEMMA SetKeeps ==
  ASSUME NEW p, SocIn(p), NEW x \in Nat, NEW y \in Nat
  PROVE  SocIn(SetTo(p, x, y))
<1>1. p \in OpenType /\ x \in Int /\ y \in Int  BY DEF SocIn
<1> QED  BY <1>1, SetScales DEF SocIn, Apart

LEMMA UnlatchKeeps ==
  ASSUME NEW p, SocIn(p)
  PROVE  SocIn([p EXCEPT !.full = FALSE, !.empty = FALSE])
BY DEF SocIn, OpenType, Apart

LEMMA CorrectedKeeps ==
  ASSUME NEW p, SocIn(p), NEW v \in OcvSocs
  PROVE  SocIn(Corrected(p, v))
<1>1. v \in Nat  BY SocAssumption
<1>2. p.ref \in Nat /\ p.show \in Nat  BY DEF SocIn
<1>3. \A b \in BOOLEAN : /\ (IF b THEN v ELSE p.ref) \in Nat
                         /\ (IF b THEN v ELSE p.show) \in Nat
  BY <1>1, <1>2
<1>4. \A x \in Nat, y \in Nat : SocIn(SetTo(p, x, y))  BY SetKeeps
<1> QED  BY <1>1, <1>2, <1>4 DEF Corrected

LEMMA InitCallKeeps ==
  ASSUME IInv, NEW s \in Samples, boot.init = 0, InitCall(s)
  PROVE  SocIn(soc') /\ boot' \in BootType
<1> DEFINE p == Started(soc)
           b == IF s.valid THEN [Timed EXCEPT !.afeInit = Connected(Timed, s)] ELSE Timed
<1>1. SocIn(p)  BY UnlatchKeeps DEF Started, IInv
<1>2. Timed \in BootType
  <2>1. boot.age \in Nat /\ ConnectWait \in Nat /\ boot \in BootType
    BY SocAssumption DEF IInv, BootType
  <2>2. (IF boot.age < ConnectWait THEN boot.age + 1 ELSE boot.age) \in Nat  BY <2>1
  <2> QED  BY <2>1, <2>2 DEF Timed, BootType
<1>3. s.comm \in BOOLEAN  BY SampleType DEF Sample
<1>4. b \in BootType
  <2> HIDE DEF Timed
  <2>1. Connected(Timed, s) \in BOOLEAN  BY <1>2, <1>3 DEF Connected, BootType
  <2> QED  BY <1>2, <2>1 DEF BootType
<1>5. /\ \A n \in 1 .. 4 : [b EXCEPT !.init = n] \in BootType
      /\ [b EXCEPT !.step = "Table"] \in BootType
  <2> HIDE DEF b
  <2> QED  BY <1>4 DEF BootType
<1>6. \A x \in Nat : SocIn(HoldAt(p, x))
  BY <1>1, SetKeeps DEF HoldAt
<1>7. \A r \in SavedSocs, w \in SavedSocs : SocIn(SetTo(p, r, w))
  BY <1>1, SetKeeps, SocAssumption
<1>8. \A v \in OcvSocs : SocIn(Corrected(p, v))
  BY <1>1, CorrectedKeeps
<1>9. 0 \in Nat /\ Full \in Nat /\ {1, 2, 3, 4} \subseteq 1 .. 4  BY LimitType
<1> HIDE DEF p, b
<1>10. \/ boot' = b \/ boot' = [b EXCEPT !.step = "Table"]
       \/ \E n \in {1, 2, 3, 4} : boot' = [b EXCEPT !.init = n]
  BY DEF InitCall, p, b
<1>11. \/ soc' = p
       \/ \E r \in SavedSocs, w \in SavedSocs : soc' = SetTo(p, r, w)
       \/ \E v \in OcvSocs : soc' = Corrected(p, v)
       \/ \E v \in {0, Full} : soc' = HoldAt(p, v)
  BY DEF InitCall, p, b
<1>12. boot' \in BootType  BY <1>4, <1>5, <1>9, <1>10
<1>13. SocIn(soc')  BY <1>1, <1>6, <1>7, <1>8, <1>9, <1>11
<1> QED  BY <1>12, <1>13

LEMMA MeasuredType == Measured \subseteq Samples
BY DEF Measured

LEMMA NextKeeps == IInv /\ [Next]_vars => IInv'
<1> SUFFICES ASSUME IInv, [Next]_vars PROVE IInv'
  OBVIOUS
<1>1. ASSUME NEW s \in Measured, Initialise(s)
      PROVE  IInv'
  <2>1. s \in Samples  BY MeasuredType
  <2>2. SocIn(soc') /\ boot' \in BootType  BY <1>1, <2>1, InitCallKeeps DEF Initialise
  <2> QED  BY <1>1, <2>2 DEF Initialise, IInv
<1>2. ASSUME NEW s \in Measured, Estimate(s)
      PROVE  IInv'
  <2>1. SocIn(Estimated(soc, s))  BY MeasuredType, EstimatedKeeps DEF IInv
  <2>2. [boot EXCEPT !.soc = FALSE] \in BootType  BY DEF IInv, BootType
  <2> QED  BY <1>2, <2>1, <2>2 DEF Estimate, IInv
<1>3. CASE SOC_WakeupCalibrate
  <2>1. [boot EXCEPT !.init = 0] \in BootType  BY DEF IInv, BootType
  <2>2. SocIn([soc EXCEPT !.full = FALSE, !.empty = FALSE])  BY UnlatchKeeps DEF IInv
  <2> QED  BY <1>3, <2>1, <2>2 DEF SOC_WakeupCalibrate, IInv
<1>4. ASSUME NEW v \in SetSocs, Calibrate(v)
      PROVE  IInv'
  <2>1. v \in Nat  BY SocAssumption
  <2>2. SocIn(HoldAt(soc, v))  BY <2>1, SetKeeps DEF HoldAt, IInv
  <2> QED  BY <1>4, <2>2 DEF Calibrate, IInv
<1>5. CASE Reset
  <2>1. SocIn(InitSoc) /\ InitBoot \in BootType
    BY LimitType DEF SocIn, OpenType, Apart, InitSoc, InitBoot, BootType
  <2> QED  BY <1>5, <2>1 DEF Reset, IInv
<1>6. CASE Settle
  BY <1>6 DEF Settle, IInv
<1>7. CASE UNCHANGED vars
  BY <1>7 DEF vars, IInv
<1> QED  BY <1>1, <1>2, <1>3, <1>4, <1>5, <1>6, <1>7 DEF Next, SocTask

\* The inductive invariant of the estimation.
THEOREM Invariance == Spec => []IInv
<1>1. Init => IInv
  <2>1. SocIn(InitSoc) /\ InitBoot \in BootType
    BY LimitType DEF SocIn, OpenType, Apart, InitSoc, InitBoot, BootType
  <2> QED  BY <2>1 DEF Init, IInv
<1> QED  BY <1>1, NextKeeps, PTL DEF Spec

\* Types are kept through initialisation, estimation, sleep and calibration.
THEOREM TypeCorrect == Spec => []TypeOK
<1>1. 0 .. Limit + 1 \subseteq Nat  BY LimitType
<1>2. IInv => TypeOK
  BY <1>1 DEF IInv, SocIn, OpenType, BootType, TypeOK, SocType
<1> QED  BY <1>2, Invariance, PTL

\* SocEstimation never latches full and empty together, and neither of its
\* counters runs past the sample that sets its latch.
THEOREM LatchesApartHold == Spec => []LatchesApart
<1>1. IInv => LatchesApart
  BY LimitType DEF IInv, SocIn, OpenType, Apart, LatchesApart
<1> QED  BY <1>1, Invariance, PTL

-----------------------------------------------------------------------------
(* What an estimation may not do: the stages again, for the latches and for *)
(* the distance between the display and the estimate.                       *)

\* Neither stage before Pin drops a latch unless current flows the other way.
LEMMA EndpointLatches ==
  ASSUME NEW p \in OpenType, NEW s \in Samples
  PROVE  /\ p.full /\ s.mode # "dsg" /\ ~p.empty => Endpoint(p, s).full
         /\ p.empty /\ s.mode # "chg" /\ ~p.full => Endpoint(p, s).empty
<1>1. p.full => ChargeEnd(p, s).full
  BY DEF ChargeEnd, HoldAt, SetTo, OpenType
<1>2. p.empty => DischargeEnd(p, s).empty
  BY DEF DischargeEnd, HoldAt, SetTo, OpenType
<1> QED  BY <1>1, <1>2 DEF Endpoint

LEMMA ReleaseLatches ==
  ASSUME NEW p \in OpenType, NEW s \in Samples
  PROVE  /\ p.full /\ s.mode # "dsg" => Release(p, s).full
         /\ p.empty /\ s.mode # "chg" => Release(p, s).empty
BY DEF Release, OpenType

LEMMA EstimatedLatches ==
  ASSUME SocIn(soc), NEW s \in Samples
  PROVE  /\ soc.full /\ s.mode # "dsg" => Estimated(soc, s).show = Full
         /\ soc.empty /\ s.mode # "chg" => Estimated(soc, s).show = 0
<1> DEFINE a == Integrate(soc, s)
           b == Release(a, s)
           c == Endpoint(b, s)
<1>1. /\ a \in OpenType /\ Apart(a)
      /\ a.full = soc.full /\ a.empty = soc.empty
  BY IntegrateKeeps DEF SocIn, Apart
<1> HIDE DEF a
<1>2. /\ b \in OpenType /\ Apart(b)
      /\ a.full /\ s.mode # "dsg" => b.full
      /\ a.empty /\ s.mode # "chg" => b.empty
  BY <1>1, ReleaseKeeps, ReleaseLatches DEF Apart
<1> HIDE DEF b
<1>3. /\ c \in OpenType /\ Apart(c)
      /\ b.full /\ s.mode # "dsg" => c.full
      /\ b.empty /\ s.mode # "chg" => c.empty
  BY <1>2, EndpointKeeps, EndpointLatches DEF Apart
<1> HIDE DEF c
<1>4. (c.full => Pin(c).show = Full) /\ (c.empty => Pin(c).show = 0)
  BY <1>3, PinKeeps
<1> QED  BY <1>1, <1>2, <1>3, <1>4 DEF Estimated, a, b, c

\* Once a latch has set the display, only current the other way moves it.
THEOREM LatchHoldsAlways == Spec => LatchHolds
<1> DEFINE Kept == \A s \in Measured : Estimate(s) =>
             /\ soc.full  /\ soc.show = Full /\ s.mode # "dsg" => soc'.show = Full
             /\ soc.empty /\ soc.show = 0    /\ s.mode # "chg" => soc'.show = 0
<1>1. IInv => Kept
  <2> SUFFICES ASSUME IInv, NEW s \in Measured, Estimate(s)
               PROVE  /\ soc.full  /\ soc.show = Full /\ s.mode # "dsg" => soc'.show = Full
                      /\ soc.empty /\ soc.show = 0    /\ s.mode # "chg" => soc'.show = 0
    OBVIOUS
  <2>1. soc' = Estimated(soc, s) /\ s \in Samples  BY MeasuredType DEF Estimate
  <2> QED  BY <2>1, EstimatedLatches DEF IInv
<1>2. IInv /\ [Next]_vars => [Kept]_vars  BY <1>1
<1> QED  BY <1>2, Invariance, PTL DEF Spec, LatchHolds

Distance(a, b) == IF a > b THEN a - b ELSE b - a

\* The step of the display against the step of the estimate: k is Shift.
LEMMA CloserDown ==
  ASSUME NEW r \in Int, NEW w \in Int, NEW d \in Nat, NEW n \in Nat, d <= n,
         NEW k \in Int, NEW x \in Int, NEW y \in Int, x = r - 2 * d, y = w - k,
         Distance(r, w) < n => k = 2 * d,
         Distance(r, w) >= n /\ w > r => k = 3 * d,
         Distance(r, w) >= n /\ ~(w > r) => k = d
  PROVE  Distance(x, y) <= Distance(r, w)
BY DEF Distance

LEMMA CloserUp ==
  ASSUME NEW r \in Int, NEW w \in Int, NEW d \in Nat, NEW n \in Nat, d <= n,
         NEW k \in Int, NEW x \in Int, NEW y \in Int, x = r + 2 * d, y = w + k,
         Distance(r, w) < n => k = 2 * d,
         Distance(r, w) >= n /\ w > r => k = d,
         Distance(r, w) >= n /\ ~(w > r) => k = 3 * d
  PROVE  Distance(x, y) <= Distance(r, w)
BY DEF Distance

LEMMA IntegrateGap ==
  ASSUME NEW p \in OpenType, NEW s \in Samples, s.mode # "other"
  PROVE  Gap(Integrate(p, s)) <= Gap(p)
<1> DEFINE r == p.ref
           w == p.show
           d == s.amp
<1>1. r \in Int /\ w \in Int /\ d \in Nat /\ d <= Near /\ Near \in Nat
  BY SampleType DEF OpenType
<1>2. s.out \in BOOLEAN /\ s.fwd \in BOOLEAN /\ s.fwd = s.out
  BY SampleType DEF Sample, Sane
<1>3. /\ r - 2 * d \in Int /\ w - Shift(p, s) \in Int
      /\ r + 2 * d \in Int /\ w + Shift(p, s) \in Int
  BY <1>1 DEF Shift
<1>4. /\ s.out => /\ Integrate(p, s).ref = r - 2 * d
                  /\ Integrate(p, s).show = w - Shift(p, s)
      /\ ~s.out => /\ Integrate(p, s).ref = r + 2 * d
                   /\ Integrate(p, s).show = w + Shift(p, s)
  BY <1>3, SetScales DEF Integrate
<1>5. /\ Gap(p) = Distance(r, w)
      /\ Gap(Integrate(p, s)) = Distance(Integrate(p, s).ref, Integrate(p, s).show)
  BY DEF Gap, Distance
<1>6. /\ Distance(r, w) < Near => Shift(p, s) = 2 * d
      /\ Distance(r, w) >= Near /\ (s.out <=> w > r) => Shift(p, s) = 3 * d
      /\ Distance(r, w) >= Near /\ ~(s.out <=> w > r) => Shift(p, s) = d
  BY <1>1, <1>2 DEF Shift, Gap, Distance
<1>7. Shift(p, s) \in Int  BY <1>1 DEF Shift
<1>8. Integrate(p, s).ref \in Int /\ Integrate(p, s).show \in Int
  BY <1>2, <1>3, <1>4
<1> DEFINE k == Shift(p, s)
           x == Integrate(p, s).ref
           y == Integrate(p, s).show
<1>9. CASE s.out
  <2>1. x = r - 2 * d /\ y = w - k  BY <1>4, <1>9
  <2>2. /\ Distance(r, w) < Near => k = 2 * d
        /\ Distance(r, w) >= Near /\ w > r => k = 3 * d
        /\ Distance(r, w) >= Near /\ ~(w > r) => k = d
    BY <1>6, <1>9
  <2>3. k \in Int /\ x \in Int /\ y \in Int  BY <1>7, <1>8
  <2>4. Distance(x, y) <= Distance(r, w)
    <3> HIDE DEF r, w, d, k, x, y
    <3> QED  BY <1>1, <2>1, <2>2, <2>3, CloserDown
  <2> QED  BY <1>5, <2>4
<1>10. CASE ~s.out
  <2>1. x = r + 2 * d /\ y = w + k  BY <1>4, <1>10
  <2>2. /\ Distance(r, w) < Near => k = 2 * d
        /\ Distance(r, w) >= Near /\ w > r => k = d
        /\ Distance(r, w) >= Near /\ ~(w > r) => k = 3 * d
    BY <1>6, <1>10
  <2>3. k \in Int /\ x \in Int /\ y \in Int  BY <1>7, <1>8
  <2>4. Distance(x, y) <= Distance(r, w)
    <3> HIDE DEF r, w, d, k, x, y
    <3> QED  BY <1>1, <2>1, <2>2, <2>3, CloserUp
  <2> QED  BY <1>5, <2>4
<1> QED  BY <1>2, <1>9, <1>10

LEMMA EndpointGap ==
  ASSUME NEW p \in OpenType, NEW s \in Samples
  PROVE  Gap(Endpoint(p, s)) <= Gap(p)
<1>1. Gap(p) \in Nat  BY DEF Gap, OpenType
<1>2. Gap(p) = Gap(p) /\ 0 <= Gap(p)  BY <1>1
<1>3. \/ Gap(ChargeEnd(p, s)) = 0
      \/ ChargeEnd(p, s).ref = p.ref /\ ChargeEnd(p, s).show = p.show
  BY LimitType DEF ChargeEnd, HoldAt, SetTo, OpenType, Gap
<1>4. \/ Gap(DischargeEnd(p, s)) = 0
      \/ DischargeEnd(p, s).ref = p.ref /\ DischargeEnd(p, s).show = p.show
  BY LimitType DEF DischargeEnd, HoldAt, SetTo, OpenType, Gap
<1>5. \A q : q.ref = p.ref /\ q.show = p.show => Gap(q) = Gap(p)  BY DEF Gap
<1>6. Gap(ChargeEnd(p, s)) <= Gap(p)  BY <1>1, <1>2, <1>3, <1>5
<1>7. Gap(DischargeEnd(p, s)) <= Gap(p)  BY <1>1, <1>2, <1>4, <1>5
<1> QED  BY <1>1, <1>6, <1>7 DEF Endpoint

LEMMA PinGap ==
  ASSUME NEW p \in OpenType
  PROVE  Gap(Pin(p)) <= Gap(p)
<1>1. p.ref \in Int /\ p.show \in Int /\ Full \in Nat  BY LimitType DEF OpenType
<1>2. \A x \in Int : HoldAt(p, x).ref = x /\ HoldAt(p, x).show = x
  BY SetScales DEF HoldAt
<1>3. \A x \in Int : Gap(HoldAt(p, x)) = 0  BY <1>2 DEF Gap
<1>4. Clamp(p.ref) \in Int /\ Clamp(p.show) \in Int  BY <1>1 DEF Clamp
<1>5. Gap(SetTo(p, Clamp(p.ref), Clamp(p.show))) = Distance(Clamp(p.ref), Clamp(p.show))
  BY <1>4, SetScales DEF Gap, Distance
<1>6. Distance(Clamp(p.ref), Clamp(p.show)) <= Distance(p.ref, p.show)
  BY <1>1 DEF Distance, Clamp
<1>7. Gap(p) = Distance(p.ref, p.show) /\ Gap(p) \in Nat  BY <1>1 DEF Gap, Distance
<1> QED  BY <1>1, <1>3, <1>5, <1>6, <1>7 DEF Pin

LEMMA EstimatedGap ==
  ASSUME SocIn(soc), NEW s \in Samples, s.mode # "other"
  PROVE  Gap(Estimated(soc, s)) <= Gap(soc)
<1> DEFINE a == Integrate(soc, s)
           b == Release(a, s)
           c == Endpoint(b, s)
<1>0. \A q \in OpenType : Gap(q) \in Nat  BY DEF Gap, OpenType
<1>1. a \in OpenType /\ Apart(a) /\ Gap(a) <= Gap(soc)
  BY IntegrateKeeps, IntegrateGap DEF SocIn, Apart
<1> HIDE DEF a
<1>2. b \in OpenType /\ Apart(b) /\ Gap(b) = Gap(a)
  BY <1>1, ReleaseKeeps DEF Apart, Gap
<1> HIDE DEF b
<1>3. c \in OpenType /\ Apart(c) /\ Gap(c) <= Gap(b)
  BY <1>2, EndpointKeeps, EndpointGap
<1> HIDE DEF c
<1>4. Pin(c) \in OpenType /\ Gap(Pin(c)) <= Gap(c)  BY <1>3, PinKeeps, PinGap
<1>5. soc \in OpenType  BY DEF SocIn
<1>6. Gap(Pin(c)) <= Gap(soc)  BY <1>0, <1>1, <1>2, <1>3, <1>4, <1>5
<1> QED  BY <1>6 DEF Estimated, a, b, c

\* While current flows, the display never moves away from the estimate.
THEOREM GapNeverGrowsHolds == Spec => GapNeverGrows
<1> DEFINE Kept == \A s \in Measured :
                     Estimate(s) /\ s.mode # "other" => Gap(soc') <= Gap(soc)
<1>1. IInv => Kept
  <2> SUFFICES ASSUME IInv, NEW s \in Measured, Estimate(s), s.mode # "other"
               PROVE  Gap(soc') <= Gap(soc)
    OBVIOUS
  <2>1. soc' = Estimated(soc, s) /\ s \in Samples  BY MeasuredType DEF Estimate
  <2> QED  BY <2>1, EstimatedGap DEF IInv
<1>2. IInv /\ [Next]_vars => [Kept]_vars  BY <1>1
<1> QED  BY <1>2, Invariance, PTL DEF Spec, GapNeverGrows

=============================================================================
