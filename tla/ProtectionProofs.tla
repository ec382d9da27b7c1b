-------------------------- MODULE ProtectionProofs --------------------------
(***************************************************************************)
(* Proofs about Protection, for every delay, every set of samples and      *)
(* every pattern of failing transfers.                                     *)
(*                                                                         *)
(* The invariants are stated of a protection state p, so that they can be  *)
(* followed through the chain of detectors a pass is made of: first what   *)
(* the shared steps keep, then what each detector keeps, then the pass,    *)
(* the actions and the theorems.  Two relations follow the same chain for  *)
(* the action properties: Detects, for a pass that releases a flag, and    *)
(* ScdMoves, for the refinement of ScdRecovery; PreIn ties the clock of    *)
(* the pre-discharge to the FETs.                                          *)
(***************************************************************************)
EXTENDS Protection, TLAPS

\* Typed.
Sound(p) == p \in ProtType

ScdIn(p) ==
  /\ p.active <=> p.scd = "PDSG_CHECK"
  /\ p.scd = "IDLE" => p.retry = 0
  /\ p.retry <= ScdMaxRetries
  /\ p.scd = "LATCHED" <=> p.retry = ScdMaxRetries

OvIn(p) == "Ov" \in p.flg => p.inhibit

FaultIn(p) ==
  /\ p.flg # {} => p.level > 0
  /\ p.flg \ {"Short"} # {} \/ "temp" \in p.wait => p.level = 3

\* q differs from p neither in the short-circuit recovery nor in the inhibit,
\* and has no over-voltage p has not.
SameScd(p, q) == q.scd = p.scd /\ q.retry = p.retry /\ q.active = p.active
SameOv(p, q)  == q.inhibit = p.inhibit /\ ("Ov" \in q.flg => "Ov" \in p.flg)
Keep(p, q)    == Sound(q) /\ SameScd(p, q) /\ SameOv(p, q)

\* q reports what p reports and has no fault p has not.
SameFault(p, q) == /\ q.flg \subseteq p.flg /\ q.level = p.level
                   /\ "temp" \in q.wait => "temp" \in p.wait

\* One state of the short-circuit recovery after another.
ScdMoves(p, q) ==
  \/ SameScd(p, q)
  \/ p.scd = "IDLE" /\ q.scd = "COOLDOWN" /\ q.retry = 0
  \/ p.scd = "COOLDOWN" /\ q.scd = "PDSG_CHECK" /\ q.retry = p.retry
  \/ p.scd = "PDSG_CHECK" /\ q.scd = "DSG_VERIFY" /\ q.retry = p.retry
  \/ /\ p.scd \in {"PDSG_CHECK", "DSG_VERIFY"} /\ q.retry = p.retry + 1
     /\ q.scd = IF p.retry + 1 < ScdMaxRetries THEN "COOLDOWN" ELSE "LATCHED"
  \/ /\ p.scd \in {"COOLDOWN", "DSG_VERIFY", "LATCHED"}
     /\ q.scd = "IDLE" /\ q.retry = 0

-----------------------------------------------------------------------------
(* The shared steps. *)

\* Clearing a flag of the chip touches no protection flag and no counter.
LEMMA CleanFlgKeeps ==
  ASSUME NEW p, Sound(p), NEW a \in AfeFlag, NEW ok \in BOOLEAN
  PROVE  Keep(p, CleanFlg(p, a, ok)) /\ CleanFlg(p, a, ok).flg = p.flg
BY DEF CleanFlg, ProtType, Sound, Keep, SameScd, SameOv

\* A trip counter steps on or starts over with the flag raised.
LEMMA TripStepKeeps ==
  ASSUME NEW p, Sound(p), NEW f \in Debounced
  PROVE  Keep(p, TripStep(p, f))
<1>1. f \in Flag /\ f \in Timed /\ f # "Ov"
  BY DEF Debounced, Flag, Timed
<1>2. p \in ProtType /\ p.trip \in [Debounced -> Nat] /\ p.rel \in [Timed -> Nat]
  BY DEF Sound, ProtType
<1> DEFINE t0 == [p.trip EXCEPT ![f] = 0]
           t1 == [p.trip EXCEPT ![f] = @ + 1]
           r0 == [p.rel EXCEPT ![f] = 0]
           up == [p EXCEPT !.flg = @ \cup {f}, !.trip = t0, !.rel = r0]
           on == [p EXCEPT !.trip = t1]
<1>3. t0 \in [Debounced -> Nat] /\ t1 \in [Debounced -> Nat] /\ r0 \in [Timed -> Nat]
  BY <1>1, <1>2
<1>4. TripStep(p, f) \in {up, on}  BY DEF TripStep
<1> HIDE DEF t0, t1, r0
<1>5. Keep(p, up)
  BY <1>1, <1>2, <1>3 DEF ProtType, Keep, Sound, SameScd, SameOv
<1>6. Keep(p, on)
  BY <1>2, <1>3 DEF ProtType, Keep, Sound, SameScd, SameOv
<1> HIDE DEF up, on
<1> QED  BY <1>4, <1>5, <1>6

\* Resetting a trip counter, or a recovery counter.
LEMMA TripZeroKeeps ==
  ASSUME NEW p, Sound(p), NEW f \in Debounced
  PROVE  Keep(p, [p EXCEPT !.trip[f] = 0])
<1> DEFINE t == [p.trip EXCEPT ![f] = 0]
<1>1. p \in ProtType /\ t \in [Debounced -> Nat]
  BY DEF Sound, ProtType
<1> HIDE DEF t
<1>2. Keep(p, [p EXCEPT !.trip = t])
  BY <1>1 DEF ProtType, Keep, Sound, SameScd, SameOv
<1> QED  BY <1>2 DEF t

LEMMA RelSetKeeps ==
  ASSUME NEW p, Sound(p), NEW f \in Timed, NEW n \in Nat, NEW F \in SUBSET p.flg
  PROVE  Keep(p, [p EXCEPT !.flg = F, !.rel[f] = n])
<1> DEFINE r == [p.rel EXCEPT ![f] = n]
<1>1. p \in ProtType /\ r \in [Timed -> Nat] /\ p.flg \subseteq Flag
  BY DEF Sound, ProtType
<1> HIDE DEF r
<1>2. Keep(p, [p EXCEPT !.flg = F, !.rel = r])
  BY <1>1 DEF ProtType, Keep, Sound, SameScd, SameOv
<1> QED  BY <1>2 DEF r

LEMMA DropKeeps ==
  ASSUME NEW p, Sound(p), NEW g, NEW c \in Timed
  PROVE  Keep(p, [p EXCEPT !.flg = p.flg \ {g}, !.rel[c] = 0])
<1>1. p.flg \ {g} \in SUBSET p.flg  OBVIOUS
<1> QED  BY <1>1, RelSetKeeps

LEMMA RelKeeps ==
  ASSUME NEW p, Sound(p), NEW f \in Timed, NEW n \in Nat
  PROVE  Keep(p, [p EXCEPT !.rel[f] = n])
<1>1. [p EXCEPT !.rel[f] = n] = [p EXCEPT !.flg = p.flg, !.rel[f] = n]
  BY ZenonT(60) DEF Sound, ProtType
<1> QED  BY <1>1, RelSetKeeps

\* Two steps in a row keep what each of them keeps.
LEMMA KeepTrans ==
  ASSUME NEW p, NEW q, NEW r, Keep(p, q), Keep(q, r)
  PROVE  Keep(p, r)
BY DEF Keep, SameScd, SameOv

LEMMA KeepSelf ==
  ASSUME NEW p, Sound(p)
  PROVE  Keep(p, p)
BY DEF Keep, SameScd, SameOv

\* A recovery counter steps on, and wraps; past its limit the flag is released.
LEMMA CountedType ==
  ASSUME NEW n \in Nat
  PROVE  Counted(n) \in Nat
BY DEF Counted

LEMMA ReleaseStepKeeps ==
  ASSUME NEW p, Sound(p), NEW q, Keep(p, q), q.flg = p.flg,
         NEW f \in Timed, NEW ok \in BOOLEAN
  PROVE  Keep(p, ReleaseStep(p, f, q, ok))
<1> DEFINE n == Counted(p.rel[f])
<1>1. n \in Nat /\ Sound(q)
  BY CountedType DEF Sound, ProtType, Keep
<1>2. ReleaseStep(p, f, q, ok)
        \in {[p EXCEPT !.rel[f] = n], [q EXCEPT !.flg = q.flg \ {f}, !.rel[f] = 0],
            [q EXCEPT !.rel[f] = n]}
  BY DEF ReleaseStep
<1> HIDE DEF n
<1>3. Keep(p, [p EXCEPT !.rel[f] = n])  BY <1>1, RelKeeps
<1>4. Keep(q, [q EXCEPT !.flg = q.flg \ {f}, !.rel[f] = 0])  BY <1>1, DropKeeps
<1>5. Keep(q, [q EXCEPT !.rel[f] = n])  BY <1>1, RelKeeps
<1> QED  BY <1>2, <1>3, <1>4, <1>5, KeepTrans

LEMMA ReverseReleaseKeeps ==
  ASSUME NEW p, Sound(p), NEW a \in AfeFlag, NEW g \in Flag, NEW c \in Timed,
         NEW ok \in BOOLEAN
  PROVE  Keep(p, ReverseRelease(p, a, g, c, ok))
<1> DEFINE q == CleanFlg(p, a, ok)
           r == [q EXCEPT !.flg = q.flg \ {g}, !.rel[c] = 0]
<1>1. Keep(p, q)  BY CleanFlgKeeps
<1>2. Sound(q)    BY <1>1 DEF Keep
<1>3. Keep(q, r)  BY <1>2, DropKeeps
<1>4. ReverseRelease(p, a, g, c, ok) = IF ok THEN r ELSE q
  BY DEF ReverseRelease
<1>5. Keep(p, r)  BY <1>1, <1>3, KeepTrans
<1> QED  BY <1>1, <1>4, <1>5

-----------------------------------------------------------------------------
(* The detectors. *)
LEMMA UVKeeps ==
  ASSUME NEW p, Sound(p), NEW s, NEW bad
  PROVE  Keep(p, ProtectUV(p, s, bad))
<1>1. "Uv" \in Debounced /\ "Uv" \in Timed /\ "Uv" \in Flag /\ "CUV" \in AfeFlag
  BY DEF Debounced, Timed, Flag, AfeFlag
<1> DEFINE ok == "CUV" \notin bad
<1>2. ok \in BOOLEAN  OBVIOUS
<1>3. Keep(p, CleanFlg(p, "CUV", ok)) /\ CleanFlg(p, "CUV", ok).flg = p.flg
  BY <1>1, <1>2, CleanFlgKeeps
<1>4. Keep(p, ReleaseStep(p, "Uv", CleanFlg(p, "CUV", ok), ok))
  BY <1>1, <1>2, <1>3, ReleaseStepKeeps
<1>5. Keep(p, ReverseRelease(p, "CUV", "Uv", "Uv", ok))
  BY <1>1, <1>2, ReverseReleaseKeeps
<1>6. Keep(p, TripStep(p, "Uv"))  BY <1>1, TripStepKeeps
<1>7. Keep(p, [p EXCEPT !.rel["Uv"] = 0])
  BY <1>1, RelKeeps, DelayAssumption
<1> QED  BY <1>4, <1>5, <1>6, <1>7 DEF ProtectUV

LEMMA OVKeeps ==
  ASSUME NEW p, Sound(p), NEW s, NEW bad
  PROVE  Keep(p, ProtectOV(p, s, bad))
<1>1. "Ov" \in Timed /\ "Uv" \in Timed /\ "Ov" \in Flag /\ "COV" \in AfeFlag
  BY DEF Timed, Flag, AfeFlag
<1> DEFINE ok == "COV" \notin bad
<1>2. ok \in BOOLEAN  OBVIOUS
<1>3. Keep(p, CleanFlg(p, "COV", ok)) /\ CleanFlg(p, "COV", ok).flg = p.flg
  BY <1>1, <1>2, CleanFlgKeeps
<1>4. Keep(p, ReleaseStep(p, "Ov", CleanFlg(p, "COV", ok), ok))
  BY <1>1, <1>2, <1>3, ReleaseStepKeeps
<1>5. Keep(p, ReverseRelease(p, "COV", "Ov", "Uv", ok))
  BY <1>1, <1>2, ReverseReleaseKeeps
<1>6. Keep(p, [p EXCEPT !.rel["Ov"] = 0])
  BY <1>1, RelKeeps, DelayAssumption
<1> QED  BY <1>4, <1>5, <1>6 DEF ProtectOV

LEMMA OCC1Keeps ==
  ASSUME NEW p, Sound(p), NEW s, NEW bad
  PROVE  Keep(p, ProtectOCC1(p, s, bad))
<1>1. "Occ1" \in Debounced /\ "Occ1" \in Timed /\ "Occ1" \in Flag /\ "OCC1" \in AfeFlag
  BY DEF Debounced, Timed, Flag, AfeFlag
<1> DEFINE ok == "OCC1" \notin bad
<1>2. ok \in BOOLEAN  OBVIOUS
<1>3. Keep(p, CleanFlg(p, "OCC1", ok)) /\ CleanFlg(p, "OCC1", ok).flg = p.flg
  BY <1>1, <1>2, CleanFlgKeeps
<1>4. Keep(p, ReleaseStep(p, "Occ1", CleanFlg(p, "OCC1", ok), ok))
  BY <1>1, <1>2, <1>3, ReleaseStepKeeps
<1>5. Keep(p, ReverseRelease(p, "OCC1", "Occ1", "Occ1", ok))
  BY <1>1, <1>2, ReverseReleaseKeeps
<1>6. Keep(p, TripStep(p, "Occ1")) /\ Keep(p, [p EXCEPT !.trip["Occ1"] = 0])
  BY <1>1, TripStepKeeps, TripZeroKeeps
<1>7. Keep(p, [p EXCEPT !.rel["Occ1"] = 0])
  BY <1>1, RelKeeps, DelayAssumption
<1> QED  BY <1>4, <1>5, <1>6, <1>7 DEF ProtectOCC1

LEMMA OCD1Keeps ==
  ASSUME NEW p, Sound(p), NEW s, NEW bad
  PROVE  Keep(p, ProtectOCD1(p, s, bad))
<1>1. /\ "Ocd1" \in Debounced /\ "Ocd1" \in Timed /\ "OCD1" \in AfeFlag
      /\ "Uv" \in Flag /\ "Uv" \in Timed
  BY DEF Debounced, Timed, Flag, AfeFlag
<1> DEFINE ok == "OCD1" \notin bad
<1>2. ok \in BOOLEAN  OBVIOUS
<1>3. Keep(p, CleanFlg(p, "OCD1", ok)) /\ CleanFlg(p, "OCD1", ok).flg = p.flg
  BY <1>1, <1>2, CleanFlgKeeps
<1>4. Keep(p, ReleaseStep(p, "Ocd1", CleanFlg(p, "OCD1", ok), ok))
  BY <1>1, <1>2, <1>3, ReleaseStepKeeps
<1>5. Keep(p, ReverseRelease(p, "OCD1", "Uv", "Uv", ok))
  BY <1>1, <1>2, ReverseReleaseKeeps
<1>6. Keep(p, TripStep(p, "Ocd1")) /\ Keep(p, [p EXCEPT !.trip["Ocd1"] = 0])
  BY <1>1, TripStepKeeps, TripZeroKeeps
<1>7. Keep(p, [p EXCEPT !.rel["Ocd1"] = 0])
  BY <1>1, RelKeeps, DelayAssumption
<1> QED  BY <1>4, <1>5, <1>6, <1>7 DEF ProtectOCD1

LEMMA OCD2Keeps ==
  ASSUME NEW p, Sound(p), NEW bad
  PROVE  Keep(p, ProtectOCD2(p, bad))
<1>1. /\ "Ocd2" \in Timed /\ "OCD2" \in AfeFlag /\ "Uv" \in Flag /\ "Uv" \in Timed
  BY DEF Timed, Flag, AfeFlag
<1> DEFINE ok == "OCD2" \notin bad
<1>2. ok \in BOOLEAN  OBVIOUS
<1>3. Keep(p, CleanFlg(p, "OCD2", ok)) /\ CleanFlg(p, "OCD2", ok).flg = p.flg
  BY <1>1, <1>2, CleanFlgKeeps
<1>4. Keep(p, ReleaseStep(p, "Ocd2", CleanFlg(p, "OCD2", ok), ok))
  BY <1>1, <1>2, <1>3, ReleaseStepKeeps
<1>5. Keep(p, ReverseRelease(p, "OCD2", "Uv", "Uv", ok))
  BY <1>1, <1>2, ReverseReleaseKeeps
<1>6. Keep(p, [p EXCEPT !.rel["Ocd2"] = 0])
  BY <1>1, RelKeeps, DelayAssumption
<1> QED  BY <1>4, <1>5, <1>6 DEF ProtectOCD2

LEMMA ThermalKeeps ==
  ASSUME NEW p, Sound(p), NEW s, NEW f \in {"Utc", "Otc", "Utd", "Otd"},
         NEW armed \in BOOLEAN
  PROVE  Keep(p, Thermal(p, s, f, armed))
<1>1. f \in Debounced /\ f \in Timed
  BY DEF Debounced, Timed
<1>2. Keep(p, ReleaseStep(p, f, p, TRUE))
  BY <1>1, KeepSelf, ReleaseStepKeeps
<1>3. Keep(p, TripStep(p, f)) /\ Keep(p, [p EXCEPT !.trip[f] = 0])
  BY <1>1, TripStepKeeps, TripZeroKeeps
<1>4. Keep(p, [p EXCEPT !.rel[f] = 0])
  BY <1>1, RelKeeps, DelayAssumption
<1> QED  BY <1>2, <1>3, <1>4 DEF Thermal

\* Two thermal detectors in a row.
LEMMA TemperaturesKeep ==
  ASSUME NEW p, Sound(p), NEW s
  PROVE  Keep(p, ProtectUTC_OTC(p, s)) /\ Keep(p, ProtectUTD_OTD(p, s))
<1>1. Keep(p, ProtectUTC_OTC(p, s))
  <2> DEFINE q == Thermal(p, s, "Utc", p.cur = "chg")
  <2>1. Keep(p, q)  BY ThermalKeeps
  <2>2. Sound(q)    BY <2>1 DEF Keep
  <2>3. Keep(q, Thermal(q, s, "Otc", q.cur = "chg" /\ "temp" \notin q.wait))
    BY <2>2, ThermalKeeps
  <2> QED  BY <2>1, <2>3, KeepTrans DEF ProtectUTC_OTC
<1>2. Keep(p, ProtectUTD_OTD(p, s))
  <2> DEFINE q == Thermal(p, s, "Utd", p.cur = "dsg")
  <2>1. Keep(p, q)  BY ThermalKeeps
  <2>2. Sound(q)    BY <2>1 DEF Keep
  <2>3. Keep(q, Thermal(q, s, "Otd", q.cur = "dsg" /\ "temp" \notin q.wait))
    BY <2>2, ThermalKeeps
  <2> QED  BY <2>1, <2>3, KeepTrans DEF ProtectUTD_OTD
<1> QED  BY <1>1, <1>2

LEMMA WaitKeeps ==
  ASSUME NEW p, Sound(p), NEW s
  PROVE  Keep(p, ProtectWait(p, s))
<1>1. WaitPeriod \in Nat \ {0}  BY DelayAssumption
<1>2. CASE p.waitCnt + 1 < WaitPeriod
  <2> DEFINE q == [p EXCEPT !.waitCnt = @ + 1]
  <2>1. q \in ProtType  BY DEF Sound, ProtType
  <2>2. /\ q.waitCnt = p.waitCnt + 1 /\ q.trip = p.trip /\ q.rel = p.rel
        /\ q.flg = p.flg /\ SameScd(p, q) /\ q.inhibit = p.inhibit
    BY DEF Sound, ProtType, SameScd
  <2> QED  BY <1>2, <2>1, <2>2 DEF ProtectWait, Keep, Sound, SameOv
<1>3. CASE ~(p.waitCnt + 1 < WaitPeriod)
  <2>1. PICK w \in SUBSET WaitBit :
          ProtectWait(p, s) = [p EXCEPT !.waitCnt = 0, !.wait = w]
    <3>1. p.wait \in SUBSET WaitBit /\ "temp" \in WaitBit
      BY DEF Sound, ProtType, WaitBit
    <3> QED  BY <1>3, <3>1 DEF ProtectWait
  <2> DEFINE q == [p EXCEPT !.waitCnt = 0, !.wait = w]
  <2>2. q \in ProtType  BY DEF Sound, ProtType
  <2>3. /\ q.waitCnt = 0 /\ q.trip = p.trip /\ q.rel = p.rel /\ q.flg = p.flg
        /\ SameScd(p, q) /\ q.inhibit = p.inhibit
    BY DEF Sound, ProtType, SameScd
  <2>4. 0 < WaitPeriod  BY <1>1
  <2> QED  BY <2>1, <2>2, <2>3, <2>4 DEF Keep, Sound, SameOv
<1> QED  BY <1>2, <1>3

LEMMA CurrentKeeps ==
  ASSUME NEW p, Sound(p), NEW s \in Sample, NEW bad
  PROVE  Keep(p, CurrentAcquisition(p, s, bad))
<1>1. CASE "cur" \in bad
  BY <1>1, KeepSelf DEF CurrentAcquisition
<1>2. CASE "cur" \notin bad
  <2>1. PICK c \in Current, m \in Mode :
          CurrentAcquisition(p, s, bad) = [p EXCEPT !.cur = c, !.mode = m]
    BY <1>2 DEF CurrentAcquisition, Sample, Current, Mode
  <2>2. Sound(CurrentAcquisition(p, s, bad))  BY <2>1, ZenonT(60) DEF Sound, ProtType
  <2> QED  BY <2>1, <2>2 DEF Keep, Sound, SameScd, SameOv, ProtType
<1> QED  BY <1>1, <1>2

LEMMA ElapseKeeps ==
  ASSUME NEW p, Sound(p)
  PROVE  Keep(p, Elapse(p)) /\ SameFault(p, Elapse(p))
<1>1. PICK n \in Nat, m \in Nat : Elapse(p) = [p EXCEPT !.scdAge = n, !.pdsgAge = m]
  <2>1. p.scdAge \in Nat /\ p.pdsgAge \in Nat /\ ScdBound \in Nat /\ PreBound \in Nat
    BY DelayAssumption DEF Sound, ProtType, ScdBound, PreBound
  <2>2. Smaller(p.scdAge + 1, ScdBound) \in Nat /\ Smaller(p.pdsgAge + 1, PreBound) \in Nat
    BY <2>1 DEF Smaller
  <2> QED  BY <2>2 DEF Elapse
<1>2. Sound(Elapse(p))  BY <1>1, ZenonT(60) DEF Sound, ProtType
<1>3. SameScd(p, Elapse(p)) /\ SameOv(p, Elapse(p)) /\ SameFault(p, Elapse(p))
  BY <1>1 DEF Sound, ProtType, SameScd, SameOv, SameFault
<1> QED  BY <1>2, <1>3 DEF Keep

\* What only the chip and the register cache see: R0, R81, the FETs.
LEMMA RaiseKeeps ==
  ASSUME NEW p, Sound(p), NEW late \in SUBSET AfeFlag
  PROVE  Keep(p, Raise(p, late)) /\ SameFault(p, Raise(p, late))
BY DEF Raise, Keep, Sound, SameScd, SameOv, SameFault, ProtType

LEMMA FETControlKeeps ==
  ASSUME NEW p, Sound(p), NEW g \in Gate, NEW on \in BOOLEAN, NEW ok \in BOOLEAN
  PROVE  /\ Keep(p, FETControl(p, g, on, ok)) /\ SameFault(p, FETControl(p, g, on, ok))
         /\ Keep(p, [FETControl(p, g, on, ok) EXCEPT !.fet[g] = on])
         /\ SameFault(p, [FETControl(p, g, on, ok) EXCEPT !.fet[g] = on])
<1> DEFINE c == [p.gate EXCEPT ![g] = on]
           h == IF ok THEN c ELSE p.chipGate
           q == [p EXCEPT !.gate = c, !.chipGate = h]
           f == [q.fet EXCEPT ![g] = on]
           r == [q EXCEPT !.fet = f]
<1>1. c \in [Gate -> BOOLEAN] /\ h \in [Gate -> BOOLEAN]
  BY DEF Sound, ProtType
<1>2. FETControl(p, g, on, ok) = q  BY DEF FETControl
<1>3. Keep(p, q) /\ SameFault(p, q)
  BY <1>1 DEF Keep, Sound, SameScd, SameOv, SameFault, ProtType
<1>4. f \in [Gate -> BOOLEAN]  BY <1>3 DEF Keep, Sound, ProtType
<1>5. Keep(p, r) /\ SameFault(p, r)
  <2> HIDE DEF q, f
  <2> QED  BY <1>3, <1>4 DEF Keep, Sound, SameScd, SameOv, SameFault, ProtType
<1> QED  BY <1>2, <1>3, <1>5

LEMMA FetStatusKeeps ==
  ASSUME NEW p, Sound(p), NEW bad
  PROVE  Keep(p, FetStatus(p, bad)) /\ SameFault(p, FetStatus(p, bad))
<1>1. CASE "fet" \in bad
  BY <1>1, KeepSelf DEF FetStatus, SameFault
<1>2. CASE "fet" \notin bad
  <2> DEFINE f == [g \in Gate |-> CASE g = "dsg"  -> DsgOn(p)
                                    [] g = "chg"  -> ChgOn(p)
                                    [] g = "pdsg" -> PdsgOn(p)]
  <2>1. DsgOn(p) \in BOOLEAN /\ ChgOn(p) \in BOOLEAN /\ PdsgOn(p) \in BOOLEAN
    <3>1. p.chipGate \in [Gate -> BOOLEAN]  BY DEF Sound, ProtType
    <3> QED  BY <3>1 DEF DsgOn, ChgOn, PdsgOn, Gate
  <2>2. f \in [Gate -> BOOLEAN]  BY <2>1 DEF Gate
  <2>3. FetStatus(p, bad) = [p EXCEPT !.fet = f]  BY <1>2 DEF FetStatus
  <2> HIDE DEF f
  <2> QED  BY <2>2, <2>3 DEF Keep, Sound, SameScd, SameOv, SameFault, ProtType
<1> QED  BY <1>1, <1>2

LEMMA BrokenDetectKeeps ==
  ASSUME NEW p, Sound(p), NEW s \in Sample, NEW bad
  PROVE  Keep(p, BrokenDetect(p, s, bad)) /\ SameFault(p, BrokenDetect(p, s, bad))
<1> DEFINE q == CleanError(p, "cow" \notin bad)
<1>1. Keep(p, q) /\ SameFault(p, q) /\ q.wait = p.wait /\ q.flg = p.flg
  BY DEF CleanError, Keep, Sound, SameScd, SameOv, SameFault, ProtType
<1>2. p.wait \in SUBSET WaitBit /\ q.wait \in SUBSET WaitBit /\ "Vol" \in WaitBit
  BY <1>1 DEF Sound, ProtType, WaitBit
<1> DEFINE up   == [q EXCEPT !.wait = @ \cup {"Vol"}]
           down == [q EXCEPT !.wait = @ \ {"Vol"}]
           none == [p EXCEPT !.wait = @ \ {"Vol"}]
           new  == [q EXCEPT !.wait = @ \cup {"Vol"}, !.flg = {}, !.counted = TRUE]
<1>3. Keep(p, none) /\ SameFault(p, none)
  BY <1>2 DEF Keep, Sound, SameScd, SameOv, SameFault, ProtType
<1> HIDE DEF q
<1>4. /\ Keep(p, up) /\ SameFault(p, up) /\ Keep(p, down) /\ SameFault(p, down)
      /\ Keep(p, new) /\ SameFault(p, new)
  BY <1>1, <1>2 DEF Keep, Sound, SameScd, SameOv, SameFault, ProtType
<1>5. Keep(p, p) /\ SameFault(p, p)  BY KeepSelf DEF SameFault
<1>6. BrokenDetect(p, s, bad) \in {p, none, down, up, new}
  BY DEF BrokenDetect, Sample, q
<1> QED  BY <1>3, <1>4, <1>5, <1>6

-----------------------------------------------------------------------------
(* The short-circuit recovery. *)

\* Setting the flag of the short circuit or dropping it changes nothing else
\* the invariants speak of.
LEMMA ShortSet ==
  ASSUME NEW p, Sound(p), NEW F \in {p.flg \cup {"Short"}, p.flg \ {"Short"}, p.flg}
  PROVE  Keep(p, [p EXCEPT !.flg = F])
<1>1. F \in SUBSET Flag /\ ("Ov" \in F => "Ov" \in p.flg)
  BY DEF Sound, ProtType, Flag
<1> QED  BY <1>1 DEF Keep, Sound, SameScd, SameOv, ProtType

LEMMA ScdRecoveredIn ==
  ASSUME NEW p, Sound(p)
  PROVE  LET r == ScdRecovered(p)
         IN  /\ Sound(r) /\ ScdIn(r) /\ SameOv(p, r)
             /\ r.scd = "IDLE" /\ r.retry = 0
<1> DEFINE q == [p EXCEPT !.flg = @ \ {"Short"}]
           r == [q EXCEPT !.scd = "IDLE", !.retry = 0, !.scdAge = p.scdAge, !.active = FALSE]
<1>1. Keep(p, q)  BY ShortSet
<1>2. Sound(q) /\ p.scdAge \in Nat  BY <1>1 DEF Keep, Sound, ProtType
<1>3. ScdRecovered(p) = r  BY DEF ScdRecovered, Sound, ProtType
<1>4. /\ Sound(r) /\ SameOv(q, r)
      /\ r.scd = "IDLE" /\ r.retry = 0 /\ r.active = FALSE
  <2>1. "IDLE" \in ScdStates  BY DEF ScdStates
  <2> HIDE DEF q
  <2> QED  BY <1>2, <2>1 DEF Sound, SameOv, ProtType
<1>5. SameOv(p, r)  BY <1>1, <1>4 DEF Keep, SameOv
<1>6. ScdIn(r)  BY <1>4, DelayAssumption DEF ScdIn
<1> HIDE DEF q
<1> QED  BY <1>3, <1>4, <1>5, <1>6

\* One more round, or latched when the retries are used up.
LEMMA ScdAgainIn ==
  ASSUME NEW p, Sound(p), p.retry < ScdMaxRetries, NEW bad
  PROVE  LET r == ScdAgain(p, bad)
         IN  /\ Sound(r) /\ SameOv(p, r) /\ r.flg = p.flg /\ r.active = p.active
             /\ r.scd \in {"COOLDOWN", "LATCHED"} /\ r.retry \in Nat
             /\ r.retry <= ScdMaxRetries
             /\ r.scd = "LATCHED" <=> r.retry = ScdMaxRetries
             /\ r.retry = p.retry + 1
             /\ r.scd = IF p.retry + 1 < ScdMaxRetries THEN "COOLDOWN" ELSE "LATCHED"
<1> DEFINE q == CleanFlg(p, "SCD", "SCD" \notin bad)
           r == ScdAgain(p, bad)
           n == q.retry + 1
<1>1. Keep(p, q) /\ q.flg = p.flg
  BY CleanFlgKeeps DEF AfeFlag
<1>2. /\ Sound(q) /\ q.retry = p.retry /\ q.active = p.active /\ q.active \in BOOLEAN
      /\ q.retry \in Nat /\ q.scdAge \in Nat /\ SameOv(p, q)
  BY <1>1 DEF Keep, Sound, SameScd, ProtType
<1>3. ScdMaxRetries \in Nat \ {0} /\ p.retry \in Nat
  BY DelayAssumption DEF Sound, ProtType
<1>n. n \in Nat  BY <1>2
<1>4. "COOLDOWN" \in ScdStates /\ "LATCHED" \in ScdStates  BY DEF ScdStates
<1>5. CASE p.retry + 1 < ScdMaxRetries
  <2>1. r = [q EXCEPT !.scd = "COOLDOWN", !.retry = n, !.scdAge = 0,
                      !.active = q.active]
    <3>1. r = [q EXCEPT !.retry = n, !.scdAge = 0, !.scd = "COOLDOWN"]
      BY <1>5 DEF ScdAgain
    <3> HIDE DEF q
    <3> QED  BY <1>2, <3>1 DEF Sound, ProtType
  <2> HIDE DEF q, r, n
  <2>2. /\ Sound(r) /\ SameOv(q, r) /\ r.flg = q.flg
        /\ r.scd = "COOLDOWN" /\ r.retry = n /\ r.active = q.active
    BY <1>2, <1>n, <1>4, <2>1 DEF Sound, SameOv, ProtType
  <2>3. r.scd # "LATCHED" /\ r.retry # ScdMaxRetries /\ r.retry <= ScdMaxRetries
    BY <1>2, <1>3, <1>5, <2>2 DEF n
  <2> QED  BY <1>1, <1>2, <1>5, <1>n, <2>2, <2>3 DEF SameOv, r, n
<1>6. CASE ~(p.retry + 1 < ScdMaxRetries)
  <2>1. r = [q EXCEPT !.scd = "LATCHED", !.retry = n, !.scdAge = q.scdAge,
                      !.active = q.active]
    <3>1. r = [q EXCEPT !.retry = n, !.scd = "LATCHED"]
      BY <1>6 DEF ScdAgain
    <3> HIDE DEF q
    <3> QED  BY <1>2, <3>1 DEF Sound, ProtType
  <2> HIDE DEF q, r, n
  <2>2. /\ Sound(r) /\ SameOv(q, r) /\ r.flg = q.flg
        /\ r.scd = "LATCHED" /\ r.retry = n /\ r.active = q.active
    BY <1>2, <1>n, <1>4, <2>1 DEF Sound, SameOv, ProtType
  <2>3. r.retry = ScdMaxRetries /\ r.retry <= ScdMaxRetries
    BY <1>2, <1>3, <1>6, <2>2 DEF n
  <2> QED  BY <1>1, <1>2, <1>6, <1>n, <2>2, <2>3 DEF SameOv, r, n
<1> QED  BY <1>5, <1>6

\* Every state of the recovery keeps its invariant.
LEMMA ScdIdleIn ==
  ASSUME NEW p, Sound(p), ScdIn(p), p.scd = "IDLE", NEW bad
  PROVE  LET r == ScdIdle(p, bad)
         IN  Sound(r) /\ ScdIn(r) /\ SameOv(p, r) /\ ScdMoves(p, r)
<1>1. CASE "Short" \notin p.flg
  BY <1>1 DEF ScdIdle, SameOv, ScdMoves, SameScd
<1>2. CASE "Short" \in p.flg
  <2> DEFINE q == CleanFlg(p, "SCD", "SCD" \notin bad)
             r == [q EXCEPT !.scd = "COOLDOWN", !.retry = 0, !.scdAge = 0, !.active = q.active]
  <2>1. Keep(p, q)  BY CleanFlgKeeps DEF AfeFlag
  <2>2. /\ Sound(q) /\ q.active = p.active /\ q.active \in BOOLEAN /\ SameOv(p, q)
    BY <2>1 DEF Keep, Sound, SameScd, ProtType
  <2>3. ScdIdle(p, bad) = r
    <3>1. ScdIdle(p, bad) = [q EXCEPT !.retry = 0, !.scdAge = 0, !.scd = "COOLDOWN"]
      BY <1>2 DEF ScdIdle
    <3> HIDE DEF q
    <3> QED  BY <2>2, <3>1 DEF Sound, ProtType
  <2> HIDE DEF q
  <2>4. /\ Sound(r) /\ SameOv(q, r)
        /\ r.scd = "COOLDOWN" /\ r.retry = 0 /\ r.active = q.active
    BY <2>2 DEF ScdStates, Sound, SameOv, ProtType
  <2>5. ScdIn(r)  BY <2>2, <2>4, DelayAssumption DEF ScdIn
  <2>6. ScdMoves(p, r)  BY <2>4 DEF ScdMoves
  <2> HIDE DEF r
  <2> QED  BY <2>2, <2>3, <2>4, <2>5, <2>6 DEF SameOv
<1> QED  BY <1>1, <1>2

LEMMA ScdCoolingIn ==
  ASSUME NEW p, Sound(p), ScdIn(p), p.scd = "COOLDOWN", NEW s, NEW bad
  PROVE  LET r == ScdCooling(p, s, bad)
         IN  Sound(r) /\ ScdIn(r) /\ SameOv(p, r) /\ ScdMoves(p, r)
<1>1. CASE p.scdAge < ScdCooldown
  BY <1>1 DEF ScdCooling, SameOv, ScdMoves, SameScd
<1>2. CASE ~(p.scdAge < ScdCooldown) /\ s.loadOff
  <2> DEFINE r == ScdRecovered(p)
  <2>1. Sound(r) /\ ScdIn(r) /\ SameOv(p, r) /\ r.scd = "IDLE" /\ r.retry = 0
    BY ScdRecoveredIn
  <2>2. ScdCooling(p, s, bad) = r  BY <1>2 DEF ScdCooling
  <2> HIDE DEF r
  <2> QED  BY <2>1, <2>2 DEF ScdMoves
<1>3. CASE ~(p.scdAge < ScdCooldown) /\ ~s.loadOff
  <2> DEFINE q == FETControl(p, "pdsg", TRUE, "pdsg" \notin bad)
             r == [q EXCEPT !.scd = "PDSG_CHECK", !.retry = q.retry, !.scdAge = 0,
                            !.active = TRUE]
  <2>1. Keep(p, q)  BY FETControlKeeps DEF Gate
  <2>2. /\ Sound(q) /\ q.retry = p.retry /\ q.retry \in Nat /\ SameOv(p, q)
    BY <2>1 DEF Keep, Sound, SameScd, ProtType
  <2>3. ScdCooling(p, s, bad) = r
    <3>1. ScdCooling(p, s, bad) =
            [q EXCEPT !.active = TRUE, !.scdAge = 0, !.scd = "PDSG_CHECK"]
      BY <1>3 DEF ScdCooling
    <3> HIDE DEF q
    <3> QED  BY <2>2, <3>1 DEF Sound, ProtType
  <2> HIDE DEF q
  <2>4. /\ Sound(r) /\ SameOv(q, r)
        /\ r.scd = "PDSG_CHECK" /\ r.retry = q.retry /\ r.active = TRUE
    BY <2>2 DEF ScdStates, Sound, SameOv, ProtType
  <2>5. ScdIn(r)  BY <2>2, <2>4 DEF ScdIn
  <2>6. ScdMoves(p, r)  BY <2>2, <2>4 DEF ScdMoves
  <2> HIDE DEF r
  <2> QED  BY <2>2, <2>3, <2>4, <2>5, <2>6 DEF SameOv
<1> QED  BY <1>1, <1>2, <1>3

LEMMA ScdProbingIn ==
  ASSUME NEW p, Sound(p), ScdIn(p), p.scd = "PDSG_CHECK", NEW bad
  PROVE  LET r == ScdProbing(p, bad)
         IN  Sound(r) /\ ScdIn(r) /\ SameOv(p, r) /\ ScdMoves(p, r)
<1> DEFINE f   == FETControl(p, "pdsg", FALSE, "pdsg" \notin bad)
           off == [f EXCEPT !.active = FALSE]
<1>1. /\ Sound(off) /\ SameOv(p, off) /\ off.active = FALSE
      /\ off.retry = p.retry /\ off.flg = p.flg
  <2>1. Keep(p, f)  BY FETControlKeeps DEF Gate
  <2>2. f.flg = p.flg  BY DEF FETControl, Sound, ProtType
  <2> HIDE DEF f
  <2> QED  BY <2>1, <2>2 DEF Keep, Sound, SameScd, SameOv, ProtType
<1>2. p.retry < ScdMaxRetries /\ p.retry \in Nat
  BY DelayAssumption DEF Sound, ScdIn, ProtType
<1>3. CASE "SCD" \in p.r0
  <2> DEFINE q == ScdAgain(off, bad)
             F == IF q.scd = "LATCHED" THEN q.flg \cup {"Short"} ELSE q.flg
             r == [q EXCEPT !.flg = F]
  <2>1. /\ Sound(q) /\ SameOv(off, q) /\ q.active = FALSE
        /\ q.scd \in {"COOLDOWN", "LATCHED"}
        /\ q.retry <= ScdMaxRetries
        /\ q.scd = "LATCHED" <=> q.retry = ScdMaxRetries
        /\ q.retry = p.retry + 1
        /\ q.scd = IF p.retry + 1 < ScdMaxRetries THEN "COOLDOWN" ELSE "LATCHED"
    <3> HIDE DEF off
    <3> QED  BY <1>1, <1>2, ScdAgainIn
  <2>2. ScdProbing(p, bad) = r  BY <1>3 DEF ScdProbing
  <2> HIDE DEF q, off
  <2>3. Keep(q, r)  BY <2>1, ShortSet
  <2>4. ScdIn(r)    BY <2>1, <2>3 DEF ScdIn, Keep, SameScd
  <2>5. ScdMoves(p, r)  BY <2>1, <2>3 DEF ScdMoves, Keep, SameScd
  <2> HIDE DEF r
  <2> QED  BY <1>1, <2>1, <2>2, <2>3, <2>4, <2>5 DEF Keep, SameOv
<1>4. CASE "SCD" \notin p.r0 /\ p.scdAge >= ScdPdsgCheck
  <2> DEFINE r == [off EXCEPT !.flg = @ \ {"Short"}, !.scdAge = 0, !.scd = "DSG_VERIFY"]
  <2>1. ScdProbing(p, bad) = r  BY <1>4 DEF ScdProbing
  <2> HIDE DEF off
  <2>2. /\ Sound(r) /\ SameOv(off, r)
        /\ r.scd = "DSG_VERIFY" /\ r.active = FALSE /\ r.retry = p.retry
    BY <1>1 DEF Sound, SameOv, ProtType, ScdStates
  <2>3. ScdIn(r)  BY <1>2, <2>2 DEF ScdIn
  <2>4. ScdMoves(p, r)  BY <2>2 DEF ScdMoves
  <2> HIDE DEF r
  <2> QED  BY <1>1, <2>1, <2>2, <2>3, <2>4 DEF SameOv
<1>5. CASE "SCD" \notin p.r0 /\ ~(p.scdAge >= ScdPdsgCheck)
  BY <1>5 DEF ScdProbing, SameOv, ScdMoves, SameScd
<1> QED  BY <1>3, <1>4, <1>5

LEMMA ScdVerifyingIn ==
  ASSUME NEW p, Sound(p), ScdIn(p), p.scd = "DSG_VERIFY", NEW bad
  PROVE  LET r == ScdVerifying(p, bad)
         IN  Sound(r) /\ ScdIn(r) /\ SameOv(p, r) /\ ScdMoves(p, r)
<1>1. CASE "SCD" \in p.r0
  <2> DEFINE q == [p EXCEPT !.flg = @ \cup {"Short"}]
             r == ScdAgain(q, bad)
  <2>1. Keep(p, q)  BY ShortSet
  <2>2. Sound(q) /\ SameOv(p, q) /\ q.retry = p.retry /\ q.active = FALSE
    BY <2>1 DEF Keep, SameScd, ScdIn
  <2>3. q.retry < ScdMaxRetries
    BY <2>2, DelayAssumption DEF Sound, ScdIn, ProtType
  <2>4. ScdVerifying(p, bad) = r  BY <1>1 DEF ScdVerifying
  <2> HIDE DEF q
  <2>5. /\ Sound(r) /\ SameOv(q, r) /\ r.active = FALSE
        /\ r.scd \in {"COOLDOWN", "LATCHED"} /\ r.retry <= ScdMaxRetries
        /\ r.scd = "LATCHED" <=> r.retry = ScdMaxRetries
        /\ r.retry = p.retry + 1
        /\ r.scd = IF p.retry + 1 < ScdMaxRetries THEN "COOLDOWN" ELSE "LATCHED"
    BY <2>2, <2>3, ScdAgainIn
  <2> HIDE DEF r
  <2>6. ScdIn(r)  BY <2>5 DEF ScdIn
  <2>7. ScdMoves(p, r)  BY <2>5 DEF ScdMoves
  <2> QED  BY <2>2, <2>4, <2>5, <2>6, <2>7 DEF SameOv
<1>2. CASE "SCD" \notin p.r0 /\ p.scdAge >= ScdDsgVerify
  <2> DEFINE r == ScdRecovered(p)
  <2>1. Sound(r) /\ ScdIn(r) /\ SameOv(p, r) /\ r.scd = "IDLE" /\ r.retry = 0
    BY ScdRecoveredIn
  <2>2. ScdVerifying(p, bad) = r  BY <1>2 DEF ScdVerifying
  <2> HIDE DEF r
  <2> QED  BY <2>1, <2>2 DEF ScdMoves
<1>3. CASE "SCD" \notin p.r0 /\ ~(p.scdAge >= ScdDsgVerify)
  BY <1>3 DEF ScdVerifying, SameOv, ScdMoves, SameScd
<1> QED  BY <1>1, <1>2, <1>3

LEMMA ScdKeeps ==
  ASSUME NEW p0, Sound(p0), ScdIn(p0), NEW s, NEW bad
  PROVE  LET r == ProtectSCD(p0, s, bad)
         IN  Sound(r) /\ ScdIn(r) /\ SameOv(p0, r) /\ ScdMoves(p0, r)
<1> DEFINE p == ReadR0(p0, "scdR0" \notin bad)
           r == ProtectSCD(p0, s, bad)
<1>1. Keep(p0, p)  BY DEF ReadR0, Keep, Sound, SameScd, SameOv, ProtType
<1>2. /\ Sound(p) /\ ScdIn(p) /\ SameOv(p0, p) /\ SameScd(p0, p)
      /\ p.scd \in ScdStates
  BY <1>1 DEF Keep, SameScd, ScdIn, Sound, ProtType
<1>m. ScdMoves(p, r) => ScdMoves(p0, r)
  <2> HIDE DEF p, r
  <2> QED  BY <1>2 DEF ScdMoves, SameScd
<1>3. r = CASE p.scd = "IDLE"       -> ScdIdle(p, bad)
            [] p.scd = "COOLDOWN"   -> ScdCooling(p, s, bad)
            [] p.scd = "PDSG_CHECK" -> ScdProbing(p, bad)
            [] p.scd = "DSG_VERIFY" -> ScdVerifying(p, bad)
            [] p.scd = "LATCHED"    -> IF p.cur = "chg" \/ s.loadOff
                                       THEN ScdRecovered(p) ELSE p
  BY DEF ProtectSCD
<1> HIDE DEF p, r
<1>4. CASE p.scd = "IDLE"
  BY <1>2, <1>3, <1>m, <1>4, ScdIdleIn DEF SameOv, r
<1>5. CASE p.scd = "COOLDOWN"
  BY <1>2, <1>3, <1>m, <1>5, ScdCoolingIn DEF SameOv, r
<1>6. CASE p.scd = "PDSG_CHECK"
  BY <1>2, <1>3, <1>m, <1>6, ScdProbingIn DEF SameOv, r
<1>7. CASE p.scd = "DSG_VERIFY"
  BY <1>2, <1>3, <1>m, <1>7, ScdVerifyingIn DEF SameOv, r
<1>8. CASE p.scd = "LATCHED"
  <2>1. r = ScdRecovered(p) \/ r = p  BY <1>3, <1>8
  <2>2. CASE r = p  BY <1>2, <1>m, <2>2 DEF ScdMoves, SameScd, SameOv, r
  <2>3. CASE r = ScdRecovered(p)
    <3>1. /\ Sound(r) /\ ScdIn(r) /\ SameOv(p, r)
          /\ r.scd = "IDLE" /\ r.retry = 0
      BY <1>2, <2>3, ScdRecoveredIn
    <3>2. ScdMoves(p, r)  BY <1>8, <3>1 DEF ScdMoves
    <3> QED  BY <1>2, <1>m, <3>1, <3>2 DEF SameOv, r
  <2> QED  BY <2>1, <2>2, <2>3
<1> QED  BY <1>2, <1>4, <1>5, <1>6, <1>7, <1>8 DEF ScdStates

-----------------------------------------------------------------------------
(* The pass. *)
LEMMA TakeFlagsKeeps ==
  ASSUME NEW p, Sound(p), NEW bad
  PROVE  Sound(TakeFlags(p, bad)) /\ SameScd(p, TakeFlags(p, bad))
<1>1. FlagsOf(p.chipR0) \in SUBSET Flag  BY DEF FlagsOf
<1> QED  BY <1>1 DEF TakeFlags, Sound, SameScd, ProtType

LEMMA ReChgInhibitIn ==
  ASSUME NEW p, Sound(p), NEW s \in Sample
  PROVE  LET r == ProtectReChgInhibit(p, s) IN Sound(r) /\ SameScd(p, r) /\ OvIn(r)
<1>1. p.inhibit \in BOOLEAN /\ s.relief \in BOOLEAN  BY DEF Sound, ProtType, Sample
<1> QED  BY <1>1 DEF ProtectReChgInhibit, Sound, SameScd, OvIn, ProtType

\* DIAG_FaultLevelTranProcess reports every flag that is left when it is done.
LEMMA DiagIn ==
  ASSUME NEW p, Sound(p), NEW s \in Sample
  PROVE  LET r == DIAG_FaultLevelTranProcess(p, s) IN Keep(p, r) /\ FaultIn(r)
<1> DEFINE bits == FaultBits(p, s)
           F    == IF "SCD" \in p.r0 THEN p.flg ELSE p.flg \ {"Short"}
           L    == FaultLevel(bits)
           q    == [p EXCEPT !.fault = bits, !.level = L, !.flg = F]
           r    == ExecLogErrStRecord(q)
<1>1. bits \in SUBSET FaultBit /\ L \in {0, 1, 3}
  BY DEF FaultBits, FaultLevel
<1>2. /\ F \in SUBSET p.flg /\ F \in SUBSET Flag
      /\ F # {} => L > 0
      /\ F \ {"Short"} # {} \/ "temp" \in p.wait => L = 3
  <2>1. p.flg \subseteq Flag  BY DEF Sound, ProtType
  <2>2. "SCD" \in p.r0 => "Short" \in bits  BY DEF FaultBits, FaultBit
  <2>3. p.flg \ {"Short"} # {} \/ "temp" \in p.wait
          => bits \cap {"Temp", "DisChg", "Chg", "Cell", "Bat"} # {}
    BY <2>1 DEF FaultBits, FaultBit, Flag
  <2> QED  BY <2>1, <2>2, <2>3 DEF FaultLevel
<1> HIDE DEF bits, F, L
<1>3. /\ Keep(p, q) /\ q.flg = F /\ q.level = L /\ q.wait = p.wait
  BY <1>1, <1>2 DEF Keep, Sound, SameScd, SameOv, ProtType
<1>4. Sound(q) /\ FaultIn(q)  BY <1>2, <1>3 DEF Keep, FaultIn
<1>5. DIAG_FaultLevelTranProcess(p, s) = r
  BY DEF DIAG_FaultLevelTranProcess, bits, F, L
<1> HIDE DEF q
<1>6. Keep(q, r) /\ r.flg = q.flg /\ r.level = q.level /\ r.wait = q.wait
  BY <1>4, ZenonT(60) DEF ExecLogErrStRecord, Keep, Sound, SameScd, SameOv, ProtType
<1>7. FaultIn(r)  BY <1>4, <1>6 DEF FaultIn
<1> QED  BY <1>3, <1>5, <1>6, <1>7, KeepTrans

Good(p) == Sound(p) /\ ScdIn(p) /\ OvIn(p) /\ FaultIn(p)

\* What keeps the recovery, the inhibit and the reports keeps Good.
LEMMA GoodKept ==
  ASSUME NEW p, NEW q, Good(p), Keep(p, q), SameFault(p, q)
  PROVE  Good(q)
BY DEF Good, Keep, SameScd, SameOv, SameFault, ScdIn, OvIn, FaultIn

\* Protection_handle: whatever the reports were before, Good holds after, and
\* the recovery has moved on by one state at most.
LEMMA HandleGood ==
  ASSUME NEW p, Sound(p), ScdIn(p), NEW s \in Sample, NEW bad,
         NEW late \in SUBSET AfeFlag
  PROVE  LET q == ProtectionHandle(p, s, bad, late) IN Good(q) /\ ScdMoves(p, q)
<1> DEFINE t  == TakeFlags(p, bad)
           a  == ProtectSCD(t, s, bad)
           a1 == Raise(a, late)
           a2 == ProtectUV(a1, s, bad)
           b  == ProtectOV(a2, s, bad)
           c1 == ProtectReChgInhibit(b, s)
           c2 == ProtectUTC_OTC(c1, s)
           c  == ProtectUTD_OTD(c2, s)
           d1 == ProtectOCC1(c, s, bad)
           d2 == ProtectOCD1(d1, s, bad)
           d  == ProtectOCD2(d2, bad)
           w  == ProtectWait(d, s)
           r  == DIAG_FaultLevelTranProcess(w, s)
<1>0. ProtectionHandle(p, s, bad, late) = r  BY DEF ProtectionHandle
<1>1. Sound(t) /\ ScdIn(t) /\ SameScd(p, t)
  BY TakeFlagsKeeps DEF SameScd, ScdIn
<1> HIDE DEF t
<1>2. Sound(a) /\ ScdIn(a) /\ ScdMoves(t, a)  BY <1>1, ScdKeeps
<1> HIDE DEF a
<1>3. Keep(a, a1)  BY <1>2, RaiseKeeps
<1> HIDE DEF a1
<1>4. Keep(a1, a2)  BY <1>3, UVKeeps DEF Keep
<1> HIDE DEF a2
<1>5. Keep(a2, b)  BY <1>4, OVKeeps DEF Keep
<1> HIDE DEF b
<1>6. Sound(b) /\ ScdIn(b)
  BY <1>2, <1>3, <1>4, <1>5 DEF Keep, SameScd, ScdIn
<1>7. Sound(c1) /\ ScdIn(c1) /\ OvIn(c1) /\ SameScd(b, c1)
  BY <1>6, ReChgInhibitIn DEF SameScd, ScdIn
<1> HIDE DEF c1
<1>8. Keep(c1, c2)  BY <1>7, TemperaturesKeep
<1> HIDE DEF c2
<1>9. Keep(c2, c)  BY <1>8, TemperaturesKeep DEF Keep
<1> HIDE DEF c
<1>10. Keep(c, d1)  BY <1>9, OCC1Keeps DEF Keep
<1> HIDE DEF d1
<1>11. Keep(d1, d2)  BY <1>10, OCD1Keeps DEF Keep
<1> HIDE DEF d2
<1>12. Keep(d2, d)  BY <1>11, OCD2Keeps DEF Keep
<1> HIDE DEF d
<1>13. Keep(d, w)  BY <1>12, WaitKeeps DEF Keep
<1> HIDE DEF w
<1>14. Keep(w, r) /\ FaultIn(r)  BY <1>13, DiagIn DEF Keep
<1>15. Keep(c1, d)
  BY <1>8, <1>9, <1>10, <1>11, <1>12, KeepTrans
<1>16. Keep(c1, r)  BY <1>13, <1>14, <1>15, KeepTrans
<1>17. Sound(r) /\ ScdIn(r) /\ OvIn(r)
  BY <1>7, <1>16 DEF Keep, SameScd, SameOv, ScdIn, OvIn
<1> HIDE DEF r
<1>18. SameScd(a, r)
  BY <1>3, <1>4, <1>5, <1>7, <1>16 DEF Keep, SameScd
<1>19. ScdMoves(p, r)  BY <1>1, <1>2, <1>18 DEF ScdMoves, SameScd
<1> QED  BY <1>0, <1>14, <1>17, <1>19 DEF Good

LEMMA PassGood ==
  ASSUME NEW p, Good(p), NEW s \in Sample, NEW bad, NEW late \in SUBSET AfeFlag
  PROVE  LET q == AfePass(p, s, bad, late) IN Good(q) /\ ScdMoves(p, q)
<1> DEFINE e == Elapse(p)
           c == CurrentAcquisition(e, s, bad)
           h == ProtectionHandle(c, s, bad, late)
           f == FetStatus(h, bad)
           q == BrokenDetect(f, s, bad)
<1>1. Good(e) /\ SameScd(p, e)  BY ElapseKeeps, GoodKept DEF Good, Keep
<1> HIDE DEF e
<1>2. Sound(c) /\ ScdIn(c) /\ SameScd(e, c)
  BY <1>1, CurrentKeeps DEF Good, Keep, SameScd, ScdIn
<1> HIDE DEF c
<1>3. Good(h) /\ ScdMoves(c, h)  BY <1>2, HandleGood
<1> HIDE DEF h
<1>4. Good(f) /\ SameScd(h, f)  BY <1>3, FetStatusKeeps, GoodKept DEF Good, Keep
<1> HIDE DEF f
<1>5. Good(q) /\ SameScd(f, q)
  BY <1>4, BrokenDetectKeeps, GoodKept DEF Good, Keep
<1>6. AfePass(p, s, bad, late) = q  BY DEF AfePass, e, c, h, f
<1> HIDE DEF q
<1>7. ScdMoves(p, q)  BY <1>1, <1>2, <1>3, <1>4, <1>5 DEF ScdMoves, SameScd
<1> QED  BY <1>5, <1>6, <1>7

-----------------------------------------------------------------------------
(* MosCtrl moves the gates and nothing the invariants speak of. *)
Held(o, p) == Good(p) /\ SameScd(o, p)

LEMMA ControlHeld ==
  ASSUME NEW o, NEW p, Held(o, p), NEW g \in Gate, NEW on \in BOOLEAN, NEW bad
  PROVE  /\ Held(o, FETControl(p, g, on, g \notin bad))
         /\ Held(o, Drive(p, g, on, bad))
<1>1. Sound(p) /\ (g \notin bad) \in BOOLEAN  BY DEF Held, Good
<1>2. /\ Keep(p, FETControl(p, g, on, g \notin bad))
      /\ SameFault(p, FETControl(p, g, on, g \notin bad))
  BY <1>1, FETControlKeeps
<1>3. Keep(p, Drive(p, g, on, bad)) /\ SameFault(p, Drive(p, g, on, bad))
  BY <1>1, FETControlKeeps DEF Drive
<1>4. /\ Good(FETControl(p, g, on, g \notin bad)) /\ Good(Drive(p, g, on, bad))
  BY <1>2, <1>3, GoodKept DEF Held
<1> QED  BY <1>2, <1>3, <1>4 DEF Held, Keep, SameScd

LEMMA MosHeld ==
  ASSUME NEW p, Good(p), NEW bad
  PROVE  Held(p, MosStep(p, bad))
<1>0. "dsg" \in Gate /\ "chg" \in Gate /\ "pdsg" \in Gate  BY DEF Gate
<1>s. Held(p, p)  BY DEF Held, SameScd
<1>1. Held(p, AllOff(p, bad))
  <2> DEFINE c == FETControl(p, "chg", FALSE, "chg" \notin bad)
             d == FETControl(c, "dsg", FALSE, "dsg" \notin bad)
  <2>1. Held(p, c)  BY <1>0, <1>s, ControlHeld
  <2> HIDE DEF c
  <2>2. Held(p, d)  BY <1>0, <2>1, ControlHeld
  <2> HIDE DEF d
  <2>3. Held(p, FETControl(d, "pdsg", FALSE, "pdsg" \notin bad))
    BY <1>0, <2>2, ControlHeld
  <2> QED  BY <2>3 DEF AllOff, c, d
<1>2. Held(p, CloseDsg(p, bad))
  <2> DEFINE q == IF p.fet["dsg"] THEN Drive(p, "dsg", FALSE, bad) ELSE p
  <2>1. Held(p, q)  BY <1>0, <1>s, ControlHeld
  <2> HIDE DEF q
  <2>2. Held(p, Drive(q, "pdsg", FALSE, bad))  BY <1>0, <2>1, ControlHeld
  <2> QED  BY <2>1, <2>2 DEF CloseDsg, q
<1>3. Held(p, OpenDsg(p, bad))
  <2>1. Held(p, Drive(p, "pdsg", FALSE, bad))  BY <1>0, <1>s, ControlHeld
  <2>2. Held(p, Drive(Drive(p, "pdsg", FALSE, bad), "dsg", TRUE, bad))
    BY <1>0, <2>1, ControlHeld
  <2>3. Held(p, [Drive(p, "pdsg", TRUE, bad) EXCEPT !.pdsgAge = 0])
    <3> DEFINE q == Drive(p, "pdsg", TRUE, bad)
    <3>1. Held(p, q)  BY <1>0, <1>s, ControlHeld
    <3> HIDE DEF q
    <3>2. Keep(q, [q EXCEPT !.pdsgAge = 0]) /\ SameFault(q, [q EXCEPT !.pdsgAge = 0])
      BY <3>1 DEF Held, Good, Keep, Sound, SameScd, SameOv, SameFault, ProtType
    <3>3. Good([q EXCEPT !.pdsgAge = 0])  BY <3>1, <3>2, GoodKept DEF Held
    <3> QED  BY <3>1, <3>2, <3>3 DEF q, Held, Keep, SameScd
  <2> QED  BY <1>s, <2>1, <2>2, <2>3 DEF OpenDsg
<1> DEFINE d == DsgCtrl(p, bad)
<1>4. Held(p, d)  BY <1>s, <1>2, <1>3 DEF DsgCtrl
<1> HIDE DEF d
<1>5. Held(p, ChgCtrl(d, bad))
  <2> DEFINE block == ChgFault(d) /\ d.cur # "dsg"
  <2>1. Held(p, Drive(d, "chg", ~block, bad))  BY <1>0, <1>4, ControlHeld
  <2> QED  BY <1>4, <2>1 DEF ChgCtrl
<1> QED  BY <1>s, <1>1, <1>5 DEF MosStep, d

\* Nor does a diagnosis command or the end of a sleep.
LEMMA DiagnosedHeld ==
  ASSUME NEW p, Good(p), NEW c \in Command, NEW bad
  PROVE  Held(p, Diagnosed(p, c, bad))
<1> DEFINE q == [p EXCEPT !.diag = c.diag]
           d == FETControl(q, "chg", c.chg, "chg" \notin bad)
           e == FETControl(d, "dsg", c.dsg, "dsg" \notin bad)
<1>0. /\ c.diag \in DiagMode /\ c.chg \in BOOLEAN /\ c.dsg \in BOOLEAN
      /\ "dsg" \in Gate /\ "chg" \in Gate
  BY DEF Command, Gate
<1>1. Keep(p, q) /\ SameFault(p, q)
  BY <1>0 DEF Good, Keep, Sound, SameScd, SameOv, SameFault, ProtType
<1>2. Held(p, q)  BY <1>1, GoodKept DEF Held, Keep
<1> HIDE DEF q
<1>3. Held(p, d)  BY <1>0, <1>2, ControlHeld
<1> HIDE DEF d
<1>4. Held(p, e)  BY <1>0, <1>3, ControlHeld
<1> QED  BY <1>2, <1>4 DEF Diagnosed, e, d, q

LEMMA RestoredHeld ==
  ASSUME NEW p, Good(p), NEW ok
  PROVE  Held(p, Restored(p, ok))
<1> DEFINE no == [g \in Gate |-> FALSE]
           c  == IF ok THEN {} ELSE p.chipR0
           h  == IF ok THEN no ELSE p.chipGate
           q  == [p EXCEPT !.r0 = {}, !.chipR0 = c, !.gate = no, !.chipGate = h]
<1>1. /\ no \in [Gate -> BOOLEAN] /\ h \in [Gate -> BOOLEAN] /\ c \in SUBSET AfeFlag
  BY DEF Good, Sound, ProtType
<1>2. Restored(p, ok) = q  BY DEF Restored
<1> HIDE DEF no, c, h
<1>3. Keep(p, q) /\ SameFault(p, q)
  BY <1>1 DEF Good, Keep, Sound, SameScd, SameOv, SameFault, ProtType
<1> QED  BY <1>2, <1>3, GoodKept DEF Held, Keep

-----------------------------------------------------------------------------
(* The specification. *)
IInv == /\ Good(prot)
        /\ phase \in {"tasks", "mos"} /\ preAge \in Nat
        /\ asleep \in BOOLEAN /\ settled \in BOOLEAN

LEMMA InitGood == Good(InitProt)
<1>1. InitProt \in ProtType
  <2>1. ScdBound \in Nat /\ PreBound \in Nat
    BY DelayAssumption DEF ScdBound, PreBound
  <2>2. NoGate \in [Gate -> BOOLEAN]  BY DEF NoGate
  <2>3. "idle" \in Current /\ "on" \in Mode /\ "none" \in DiagMode /\ "IDLE" \in ScdStates
    BY DEF Current, Mode, DiagMode, ScdStates
  <2> QED  BY <2>1, <2>2, <2>3 DEF InitProt, ProtType
<1>2. Sound(InitProt)
  BY <1>1, DelayAssumption DEF Sound, InitProt
<1>3. ScdIn(InitProt) /\ OvIn(InitProt) /\ FaultIn(InitProt)
  BY DelayAssumption DEF ScdIn, OvIn, FaultIn, InitProt
<1> QED  BY <1>2, <1>3 DEF Good

\* The history of the PDSG output stays a number.
LEMMA WatchType ==
  ASSUME preAge \in Nat, NEW n \in Nat, Watch(n)
  PROVE  preAge' \in Nat
<1>1. PreBound \in Nat  BY DelayAssumption DEF PreBound
<1> QED  BY <1>1 DEF Watch, Smaller

LEMMA NextKeeps == IInv /\ [Next]_vars => IInv'
<1> SUFFICES ASSUME IInv, [Next]_vars PROVE IInv'  OBVIOUS
<1> USE DEF IInv
<1>1. ASSUME NEW s \in Measured, NEW bad \in Failures, NEW late \in Lates,
             AfeHandle(s, bad, late)
      PROVE  IInv'
  <2>1. s \in Sample /\ late \in SUBSET AfeFlag
    BY InputAssumption DEF Measured
  <2>2. Good(prot')  BY <1>1, <2>1, PassGood DEF AfeHandle
  <2> QED  BY <1>1, <2>2, WatchType DEF AfeHandle
<1>2. CASE Stall
  <2>1. Good(prot')  BY <1>2, ElapseKeeps, GoodKept DEF Stall, Good
  <2> QED  BY <1>2, <2>1, WatchType DEF Stall
<1>3. ASSUME NEW bad \in GateFailures, MosCtrl(bad)
      PROVE  IInv'
  <2>1. Good(prot')  BY <1>3, MosHeld DEF MosCtrl, Held
  <2> QED  BY <1>3, <2>1, WatchType DEF MosCtrl
<1>4. ASSUME NEW a \in Trips, AfeTrip(a)
      PROVE  IInv'
  <2>1. {a} \in SUBSET AfeFlag  BY InputAssumption
  <2>2. Good(prot')  BY <1>4, <2>1, RaiseKeeps, GoodKept DEF AfeTrip, Good
  <2> QED  BY <1>4, <2>2, WatchType DEF AfeTrip
<1>5. ASSUME NEW ok \in BootAnswers, Reset(ok)
      PROVE  IInv'
  <2> DEFINE q == [InitProt EXCEPT !.chipR0 = prot.chipR0, !.chipGate = prot.chipGate]
  <2>1. Good(q)
    <3>1. prot.chipR0 \in SUBSET AfeFlag /\ prot.chipGate \in [Gate -> BOOLEAN]
      BY DEF Good, Sound, ProtType
    <3>2. Keep(InitProt, q) /\ SameFault(InitProt, q)
      <4> HIDE DEF InitProt
      <4> QED  BY <3>1, InitGood DEF Good, Keep, Sound, SameScd, SameOv, SameFault, ProtType
    <3> QED  BY <3>2, InitGood, GoodKept
  <2>2. Good(prot')  BY <1>5, <2>1, InitGood DEF Reset
  <2> QED  BY <1>5, <2>2, WatchType DEF Reset
<1>6. CASE Settle \/ Doze \/ Rouse
  BY <1>6 DEF Settle, Doze, Rouse
<1>7. CASE AfeSkipped
  <2>1. Good(prot')  BY <1>7, ElapseKeeps, GoodKept DEF AfeSkipped, Good
  <2> QED  BY <1>7, <2>1, WatchType DEF AfeSkipped
<1>8. ASSUME NEW c \in Commands, NEW bad \in GateFailures, ExecDiagnoseCmd(c, bad)
      PROVE  IInv'
  <2>1. c \in Command  BY InputAssumption
  <2>2. Good(prot')  BY <1>8, <2>1, DiagnosedHeld DEF ExecDiagnoseCmd, Held
  <2> QED  BY <1>8, <2>2, WatchType DEF ExecDiagnoseCmd
<1>9. ASSUME NEW ok \in BootAnswers, Wake(ok)
      PROVE  IInv'
  <2>1. Good(prot')  BY <1>9, RestoredHeld DEF Wake, Held
  <2> QED  BY <1>9, <2>1, WatchType DEF Wake
<1>10. CASE UNCHANGED vars
  BY <1>10 DEF vars
<1> QED  BY <1>1, <1>2, <1>3, <1>4, <1>5, <1>6, <1>7, <1>8, <1>9, <1>10
         DEF Next, AfeStep, MosAct, DiagAct

\* The inductive invariant of the protection.
THEOREM Invariance == Spec => []IInv
<1>1. Init => IInv
  <2> SUFFICES ASSUME Init PROVE IInv
    OBVIOUS
  <2>1. /\ prot = InitProt /\ phase = "tasks" /\ preAge = 0
        /\ asleep = FALSE /\ settled = FALSE
    BY DEF Init
  <2>2. Good(prot)  BY <2>1, InitGood
  <2>3. preAge \in Nat  BY <2>1
  <2> HIDE DEF InitProt
  <2> QED  BY <2>1, <2>2, <2>3 DEF IInv
<1> QED  BY <1>1, NextKeeps, PTL DEF Spec

\* Types are kept by every pass, gate command, trip and reset.
THEOREM TypeCorrect == Spec => []TypeOK
<1>1. IInv => TypeOK  BY DEF IInv, Good, Sound, TypeOK
<1> QED  BY <1>1, Invariance, PTL

\* The short-circuit recovery (ProtectSCD) holds MosCtrl back only while it
\* probes, and is latched exactly when its retries are used up.
THEOREM ScdLockoutHolds == Spec => []ScdLockout
<1>1. IInv => ScdLockout  BY DEF IInv, Good, ScdIn, ScdLockout
<1> QED  BY <1>1, Invariance, PTL

\* A flagged over-voltage has latched the re-charge inhibit.
THEOREM OvInhibitsHolds == Spec => []OvInhibits
<1>1. IInv => OvInhibits  BY DEF IInv, Good, OvIn, OvInhibits
<1> QED  BY <1>1, Invariance, PTL

\* No protection flag is up while the reported fault level is "none".
THEOREM FaultReportedHolds == Spec => []FaultReported
<1>1. IInv => FaultReported  BY DEF IInv, Good, FaultIn, FaultReported
<1> QED  BY <1>1, Invariance, PTL

-----------------------------------------------------------------------------
(* What a detector does to the chip: it clears flags there, and releases a  *)
(* flag of its own only when the chip has dropped it.                       *)

ChipFlag == {"Uv", "Ov", "Ocd2"}

Follows(p, q) ==
  /\ q.chipR0 \subseteq p.chipR0 /\ q.r0 \subseteq p.r0
  /\ q.cur = p.cur /\ q.counted = p.counted
  /\ (p.flg \ q.flg) \cap ChipFlag \cap FlagsOf(q.chipR0) = {}
  /\ "Uv" \in q.flg => "Uv" \in p.flg \/ p.cur # "chg"

\* While charging a standing under-voltage has had its chip flag cleared in the
\* cache of R0, so that the next write of R0 clears it in the chip.
Pending(p) == p.cur = "chg" /\ "Uv" \in p.flg => "CUV" \notin p.r0

\* The FETs, their shadow and the clock of the pre-discharge.
SameGates(p, q) ==
  /\ q.gate = p.gate /\ q.chipGate = p.chipGate /\ q.fet = p.fet
  /\ q.pdsgAge = p.pdsgAge /\ q.mode = p.mode /\ q.diag = p.diag

Detects(p, q) == Follows(p, q) /\ SameGates(p, q)

\* Fewer flags in R0 stand for fewer flags of the MCU.
LEMMA FlagsOfGrow ==
  ASSUME NEW A, NEW B \in SUBSET A
  PROVE  FlagsOf(B) \subseteq FlagsOf(A)
BY DEF FlagsOf

LEMMA DetectsTrans ==
  ASSUME NEW p, NEW q, NEW r, Detects(p, q), Detects(q, r)
  PROVE  Detects(p, r)
<1>1. FlagsOf(r.chipR0) \subseteq FlagsOf(q.chipR0)
  BY FlagsOfGrow DEF Detects, Follows
<1> QED  BY <1>1 DEF Detects, Follows, SameGates

LEMMA PendingKept ==
  ASSUME NEW p, NEW q, Pending(p), Detects(p, q)
  PROVE  Pending(q)
BY DEF Pending, Detects, Follows

\* A write of R0 that reaches the chip leaves it no flag the cache has dropped.
LEMMA CleanFlgDetects ==
  ASSUME NEW p, Sound(p), NEW a, NEW ok \in BOOLEAN
  PROVE  LET q == CleanFlg(p, a, ok)
         IN  /\ Detects(p, q) /\ q.flg = p.flg /\ q.r0 = p.r0 \ {a}
             /\ ok => q.chipR0 \subseteq q.r0
BY DEF CleanFlg, Sound, ProtType, Detects, Follows, SameGates

\* A step that moves counters and raises flags only.
LEMMA RaisingDetects ==
  ASSUME NEW p, Sound(p), NEW F, p.flg \subseteq F, "Uv" \in F => "Uv" \in p.flg \/ p.cur # "chg",
         NEW t, NEW r
  PROVE  Detects(p, [p EXCEPT !.flg = F, !.trip = t, !.rel = r])
BY DEF Sound, ProtType, Detects, Follows, SameGates

LEMMA CountingDetects ==
  ASSUME NEW p, Sound(p), NEW t, NEW r
  PROVE  Detects(p, [p EXCEPT !.trip = t]) /\ Detects(p, [p EXCEPT !.rel = r])
BY DEF Sound, ProtType, Detects, Follows, SameGates

LEMMA TripStepDetects ==
  ASSUME NEW p, Sound(p), NEW f, f = "Uv" => p.cur # "chg"
  PROVE  Detects(p, TripStep(p, f))
<1> DEFINE t0 == [p.trip EXCEPT ![f] = 0]
           t1 == [p.trip EXCEPT ![f] = @ + 1]
           r0 == [p.rel EXCEPT ![f] = 0]
           F  == p.flg \cup {f}
<1>1. Detects(p, [p EXCEPT !.flg = F, !.trip = t0, !.rel = r0])
  BY RaisingDetects
<1>2. Detects(p, [p EXCEPT !.trip = t1])
  BY CountingDetects
<1> QED  BY <1>1, <1>2 DEF TripStep

\* Dropping flag g is safe when the chip has not got it.
LEMMA DropDetects ==
  ASSUME NEW p, Sound(p), NEW g, g \in ChipFlag => g \notin FlagsOf(p.chipR0), NEW r
  PROVE  Detects(p, [p EXCEPT !.flg = p.flg \ {g}, !.rel = r])
BY DEF Sound, ProtType, Detects, Follows, SameGates

LEMMA ReleaseStepDetects ==
  ASSUME NEW p, Sound(p), NEW q, Sound(q), Detects(p, q), NEW f, NEW ok,
         ok => f \notin ChipFlag \/ f \notin FlagsOf(q.chipR0)
  PROVE  Detects(p, ReleaseStep(p, f, q, ok))
<1> DEFINE n    == Counted(p.rel[f])
           up   == [p.rel EXCEPT ![f] = n]
           zero == [q.rel EXCEPT ![f] = 0]
           past == [q.rel EXCEPT ![f] = n]
<1>1. CASE n < ClearDelay[f]
  BY <1>1, CountingDetects DEF ReleaseStep
<1>2. CASE ~(n < ClearDelay[f]) /\ ok
  <2>1. Detects(q, [q EXCEPT !.flg = q.flg \ {f}, !.rel = zero])
    BY <1>2, DropDetects
  <2> QED  BY <1>2, <2>1, DetectsTrans DEF ReleaseStep
<1>3. CASE ~(n < ClearDelay[f]) /\ ~ok
  <2>1. Detects(q, [q EXCEPT !.rel = past])
    BY CountingDetects
  <2> QED  BY <1>3, <2>1, DetectsTrans DEF ReleaseStep
<1> QED  BY <1>1, <1>2, <1>3

\* A release on current the other way: the write that comes first clears chip
\* flag a, and with it every flag the cache has dropped before.
LEMMA ReverseReleaseDetects ==
  ASSUME NEW p, Sound(p), NEW a \in AfeFlag, NEW g, NEW c, NEW ok \in BOOLEAN,
         g \in ChipFlag => g \notin FlagsOf(p.r0 \ {a})
  PROVE  Detects(p, ReverseRelease(p, a, g, c, ok))
<1> DEFINE q    == CleanFlg(p, a, ok)
           zero == [q.rel EXCEPT ![c] = 0]
<1>1. /\ Detects(p, q) /\ q.r0 = p.r0 \ {a}
      /\ ok => q.chipR0 \subseteq q.r0
  BY CleanFlgDetects
<1>2. Sound(q)  BY CleanFlgKeeps DEF Keep
<1>3. ASSUME ok PROVE Detects(q, [q EXCEPT !.flg = q.flg \ {g}, !.rel = zero])
  <2>1. FlagsOf(q.chipR0) \subseteq FlagsOf(p.r0 \ {a})
    BY <1>1, <1>3, FlagsOfGrow
  <2> HIDE DEF q
  <2> QED  BY <1>2, <2>1, DropDetects
<1> QED  BY <1>1, <1>3, DetectsTrans DEF ReverseRelease

\* Flag f of the MCU and flag a of the chip stand for the same fault.
LEMMA FlagPairs ==
  ASSUME NEW R
  PROVE  /\ "CUV" \notin R => "Uv" \notin FlagsOf(R)
         /\ "COV" \notin R => "Ov" \notin FlagsOf(R)
         /\ "OCD2" \notin R => "Ocd2" \notin FlagsOf(R)
BY DEF FlagsOf

\* The release of Uv in the reversal branch of ProtectOCD1 and ProtectOCD2 finds
\* the chip flag of Uv pending.
LEMMA SlipDetects ==
  ASSUME NEW p, Sound(p), Pending(p), p.cur = "chg", NEW a \in AfeFlag, NEW ok \in BOOLEAN
  PROVE  Detects(p, ReverseRelease(p, a, "Uv", "Uv", ok))
<1>1. CASE "Uv" \in p.flg
  <2>1. "Uv" \notin FlagsOf(p.r0 \ {a})  BY <1>1, FlagPairs DEF Pending
  <2> QED  BY <2>1, ReverseReleaseDetects
<1>2. CASE "Uv" \notin p.flg
  <2> DEFINE q    == CleanFlg(p, a, ok)
             zero == [q.rel EXCEPT !["Uv"] = 0]
             F    == q.flg \ {"Uv"}
  <2>1. Detects(p, q) /\ q.flg = p.flg /\ Sound(q)
    BY CleanFlgDetects, CleanFlgKeeps DEF Keep
  <2>2. Detects(q, [q EXCEPT !.flg = F, !.rel = zero])
    <3> HIDE DEF q
    <3>1. F = q.flg  BY <1>2, <2>1
    <3> QED  BY <2>1, <3>1 DEF Sound, ProtType, Detects, Follows, SameGates
  <2> QED  BY <2>1, <2>2, DetectsTrans DEF ReverseRelease
<1> QED  BY <1>1, <1>2

LEMMA UVDetects ==
  ASSUME NEW p, Sound(p), NEW s, NEW bad
  PROVE  Detects(p, ProtectUV(p, s, bad)) /\ Pending(ProtectUV(p, s, bad))
<1> DEFINE ok   == "CUV" \notin bad
           q    == CleanFlg(p, "CUV", ok)
           zero == [p.rel EXCEPT !["Uv"] = 0]
           r    == ProtectUV(p, s, bad)
<1>1. /\ Detects(p, q) /\ q.flg = p.flg /\ q.r0 = p.r0 \ {"CUV"}
      /\ ok => q.chipR0 \subseteq q.r0
  BY CleanFlgDetects
<1>2. Sound(q)  BY CleanFlgKeeps DEF Keep, AfeFlag
<1>3. "Uv" \notin FlagsOf(p.r0 \ {"CUV"}) /\ (ok => "Uv" \notin FlagsOf(q.chipR0))
  BY <1>1, FlagPairs
<1>4. Detects(p, ReleaseStep(p, "Uv", q, ok))
  <2> HIDE DEF q
  <2> QED  BY <1>1, <1>2, <1>3, ReleaseStepDetects
<1>5. Detects(p, ReverseRelease(p, "CUV", "Uv", "Uv", ok))
  BY <1>3, ReverseReleaseDetects DEF AfeFlag
<1>6. p.cur # "chg" => Detects(p, TripStep(p, "Uv"))
  BY TripStepDetects
<1>7. Detects(p, [p EXCEPT !.rel = zero])  BY CountingDetects
<1>8. Detects(p, r)
  BY <1>4, <1>5, <1>6, <1>7 DEF ProtectUV
<1>9. ASSUME r.cur = "chg", "Uv" \in r.flg PROVE "CUV" \notin r.r0
  <2>1. p.cur = "chg" /\ "Uv" \in p.flg
    BY <1>8, <1>9 DEF Detects, Follows
  <2>2. r = ReverseRelease(p, "CUV", "Uv", "Uv", ok)
    BY <2>1 DEF ProtectUV
  <2>3. r.r0 = q.r0
    <3> HIDE DEF q
    <3> QED  BY <1>2, <2>2 DEF ReverseRelease, Sound, ProtType, q
  <2> QED  BY <1>1, <2>3
<1> QED  BY <1>8, <1>9 DEF Pending

LEMMA OVDetects ==
  ASSUME NEW p, Sound(p), NEW s, NEW bad
  PROVE  Detects(p, ProtectOV(p, s, bad))
<1> DEFINE ok   == "COV" \notin bad
           q    == CleanFlg(p, "COV", ok)
           zero == [p.rel EXCEPT !["Ov"] = 0]
<1>1. /\ Detects(p, q) /\ q.r0 = p.r0 \ {"COV"} /\ Sound(q)
      /\ ok => q.chipR0 \subseteq q.r0
  BY CleanFlgDetects, CleanFlgKeeps DEF Keep, AfeFlag
<1>2. "Ov" \notin FlagsOf(p.r0 \ {"COV"}) /\ (ok => "Ov" \notin FlagsOf(q.chipR0))
  BY <1>1, FlagPairs
<1>3. Detects(p, ReleaseStep(p, "Ov", q, ok))
  <2> HIDE DEF q
  <2> QED  BY <1>1, <1>2, ReleaseStepDetects
<1>4. Detects(p, ReverseRelease(p, "COV", "Ov", "Uv", ok))
  BY <1>2, ReverseReleaseDetects DEF AfeFlag
<1>5. Detects(p, [p EXCEPT !.rel = zero])  BY CountingDetects
<1> QED  BY <1>3, <1>4, <1>5 DEF ProtectOV

LEMMA OCC1Detects ==
  ASSUME NEW p, Sound(p), NEW s, NEW bad
  PROVE  Detects(p, ProtectOCC1(p, s, bad))
<1> DEFINE ok    == "OCC1" \notin bad
           q     == CleanFlg(p, "OCC1", ok)
           zero  == [p.rel EXCEPT !["Occ1"] = 0]
           zeroT == [p.trip EXCEPT !["Occ1"] = 0]
<1>1. Detects(p, q) /\ Sound(q)
  BY CleanFlgDetects, CleanFlgKeeps DEF Keep, AfeFlag
<1>2. "Occ1" \notin ChipFlag /\ "OCC1" \in AfeFlag  BY DEF ChipFlag, AfeFlag
<1>3. Detects(p, ReleaseStep(p, "Occ1", q, ok))
  <2> HIDE DEF q
  <2> QED  BY <1>1, <1>2, ReleaseStepDetects
<1>4. Detects(p, ReverseRelease(p, "OCC1", "Occ1", "Occ1", ok))
  BY <1>2, ReverseReleaseDetects
<1>5. Detects(p, [p EXCEPT !.rel = zero]) /\ Detects(p, [p EXCEPT !.trip = zeroT])
  BY CountingDetects
<1>6. Detects(p, TripStep(p, "Occ1"))  BY TripStepDetects
<1> QED  BY <1>3, <1>4, <1>5, <1>6 DEF ProtectOCC1

\* The slip of ProtectOCD1 drops Uv, whose chip flag is pending by then.
LEMMA OCD1Detects ==
  ASSUME NEW p, Sound(p), Pending(p), NEW s, NEW bad
  PROVE  Detects(p, ProtectOCD1(p, s, bad))
<1> DEFINE ok    == "OCD1" \notin bad
           q     == CleanFlg(p, "OCD1", ok)
           zero  == [p.rel EXCEPT !["Ocd1"] = 0]
           zeroT == [p.trip EXCEPT !["Ocd1"] = 0]
<1>1. Detects(p, q) /\ Sound(q)
  BY CleanFlgDetects, CleanFlgKeeps DEF Keep, AfeFlag
<1>2. "Ocd1" \notin ChipFlag /\ "OCD1" \in AfeFlag  BY DEF ChipFlag, AfeFlag
<1>3. Detects(p, ReleaseStep(p, "Ocd1", q, ok))
  <2> HIDE DEF q
  <2> QED  BY <1>1, <1>2, ReleaseStepDetects
<1>4. ASSUME p.cur = "chg"
      PROVE  Detects(p, ReverseRelease(p, "OCD1", "Uv", "Uv", ok))
  BY <1>2, <1>4, SlipDetects
<1>5. Detects(p, [p EXCEPT !.rel = zero]) /\ Detects(p, [p EXCEPT !.trip = zeroT])
  BY CountingDetects
<1>6. Detects(p, TripStep(p, "Ocd1"))  BY TripStepDetects
<1> QED  BY <1>3, <1>4, <1>5, <1>6 DEF ProtectOCD1

LEMMA OCD2Detects ==
  ASSUME NEW p, Sound(p), Pending(p), NEW bad
  PROVE  Detects(p, ProtectOCD2(p, bad))
<1> DEFINE ok   == "OCD2" \notin bad
           q    == CleanFlg(p, "OCD2", ok)
           zero == [p.rel EXCEPT !["Ocd2"] = 0]
<1>1. /\ Detects(p, q) /\ q.r0 = p.r0 \ {"OCD2"} /\ Sound(q)
      /\ ok => q.chipR0 \subseteq q.r0
  BY CleanFlgDetects, CleanFlgKeeps DEF Keep, AfeFlag
<1>2. ok => "Ocd2" \notin FlagsOf(q.chipR0)
  BY <1>1, FlagPairs
<1>3. Detects(p, ReleaseStep(p, "Ocd2", q, ok))
  <2> HIDE DEF q
  <2> QED  BY <1>1, <1>2, ReleaseStepDetects
<1>4. ASSUME p.cur = "chg"
      PROVE  Detects(p, ReverseRelease(p, "OCD2", "Uv", "Uv", ok))
  BY <1>4, SlipDetects DEF AfeFlag
<1>5. Detects(p, [p EXCEPT !.rel = zero])  BY CountingDetects
<1> QED  BY <1>3, <1>4, <1>5 DEF ProtectOCD2

LEMMA ThermalDetects ==
  ASSUME NEW p, Sound(p), NEW s, NEW f \in {"Utc", "Otc", "Utd", "Otd"}, NEW armed
  PROVE  Detects(p, Thermal(p, s, f, armed))
<1> DEFINE zero  == [p.rel EXCEPT ![f] = 0]
           zeroT == [p.trip EXCEPT ![f] = 0]
<1>1. f \notin ChipFlag /\ f # "Uv"  BY DEF ChipFlag
<1>2. Detects(p, p)  BY DEF Detects, Follows, SameGates
<1>3. Detects(p, ReleaseStep(p, f, p, TRUE))
  BY <1>1, <1>2, ReleaseStepDetects
<1>4. Detects(p, [p EXCEPT !.rel = zero]) /\ Detects(p, [p EXCEPT !.trip = zeroT])
  BY CountingDetects
<1>5. Detects(p, TripStep(p, f))  BY <1>1, TripStepDetects
<1> QED  BY <1>3, <1>4, <1>5 DEF Thermal

LEMMA TemperaturesDetect ==
  ASSUME NEW p, Sound(p), NEW s
  PROVE  Detects(p, ProtectUTC_OTC(p, s)) /\ Detects(p, ProtectUTD_OTD(p, s))
<1>1. Detects(p, ProtectUTC_OTC(p, s))
  <2> DEFINE q == Thermal(p, s, "Utc", p.cur = "chg")
  <2>1. Detects(p, q) /\ Sound(q)  BY ThermalDetects, ThermalKeeps DEF Keep
  <2>2. Detects(q, Thermal(q, s, "Otc", q.cur = "chg" /\ "temp" \notin q.wait))
    BY <2>1, ThermalDetects
  <2> QED  BY <2>1, <2>2, DetectsTrans DEF ProtectUTC_OTC
<1>2. Detects(p, ProtectUTD_OTD(p, s))
  <2> DEFINE q == Thermal(p, s, "Utd", p.cur = "dsg")
  <2>1. Detects(p, q) /\ Sound(q)  BY ThermalDetects, ThermalKeeps DEF Keep
  <2>2. Detects(q, Thermal(q, s, "Otd", q.cur = "dsg" /\ "temp" \notin q.wait))
    BY <2>1, ThermalDetects
  <2> QED  BY <2>1, <2>2, DetectsTrans DEF ProtectUTD_OTD
<1> QED  BY <1>1, <1>2

\* The steps of a pass that touch neither the chip nor its flags.
LEMMA ReChgInhibitDetects ==
  ASSUME NEW p, Sound(p), NEW s
  PROVE  Detects(p, ProtectReChgInhibit(p, s))
BY DEF ProtectReChgInhibit, Sound, ProtType, Detects, Follows, SameGates

LEMMA WaitDetects ==
  ASSUME NEW p, Sound(p), NEW s
  PROVE  Detects(p, ProtectWait(p, s))
<1>1. CASE p.waitCnt + 1 < WaitPeriod
  BY <1>1 DEF ProtectWait, Sound, ProtType, Detects, Follows, SameGates
<1>2. CASE ~(p.waitCnt + 1 < WaitPeriod)
  <2>1. PICK w : ProtectWait(p, s) = [p EXCEPT !.waitCnt = 0, !.wait = w]
    BY <1>2 DEF ProtectWait
  <2> QED  BY <2>1 DEF Sound, ProtType, Detects, Follows, SameGates
<1> QED  BY <1>1, <1>2

LEMMA DiagDetects ==
  ASSUME NEW p, Sound(p), NEW s
  PROVE  Detects(p, DIAG_FaultLevelTranProcess(p, s))
<1> DEFINE bits == FaultBits(p, s)
           F    == IF "SCD" \in p.r0 THEN p.flg ELSE p.flg \ {"Short"}
           L    == FaultLevel(bits)
           q    == [p EXCEPT !.fault = bits, !.level = L, !.flg = F]
           r    == ExecLogErrStRecord(q)
<1>1. F \subseteq p.flg /\ (p.flg \ F) \cap ChipFlag = {}  BY DEF ChipFlag
<1>2. DIAG_FaultLevelTranProcess(p, s) = r
  BY DEF DIAG_FaultLevelTranProcess
<1> HIDE DEF F, bits, L
<1>3. /\ q.flg = F /\ q.chipR0 = p.chipR0 /\ q.r0 = p.r0 /\ q.cur = p.cur
      /\ q.counted = p.counted /\ SameGates(p, q)
  BY DEF Sound, ProtType, SameGates
<1>4. /\ r.flg = q.flg /\ r.chipR0 = q.chipR0 /\ r.r0 = q.r0 /\ r.cur = q.cur
      /\ r.counted = q.counted /\ SameGates(q, r)
  <2>1. DOMAIN q = DOMAIN p  OBVIOUS
  <2> HIDE DEF q
  <2> QED  BY <2>1 DEF ExecLogErrStRecord, Sound, ProtType, SameGates
<1> QED  BY <1>1, <1>2, <1>3, <1>4 DEF Detects, Follows, SameGates

-----------------------------------------------------------------------------
(* What the recovery from a short circuit does to the flags and the FETs.   *)

\* The main and the pre-discharge gate are as the cache of R81 has them.
Synced(p) == \A g \in {"dsg", "pdsg"} : p.gate[g] = p.chipGate[g]

\* No flag but Short is dropped, and the shadow of the FETs, the clock of the
\* pre-discharge and what MosCtrl decides by stay.
Spares(p, q) ==
  /\ p.flg \ q.flg \subseteq {"Short"} /\ q.cur = p.cur /\ q.counted = p.counted
  /\ q.fet = p.fet /\ q.pdsgAge = p.pdsgAge
  /\ q.mode = p.mode /\ q.diag = p.diag

\* The main gate stays; the pre-discharge gate is on outside a probe only when
\* it was on before, outside a probe.
HoldsGates(p, q) ==
  /\ Synced(p) => Synced(q) /\ q.chipGate["dsg"] = p.chipGate["dsg"]
  /\ Synced(p) /\ q.chipGate["pdsg"] /\ ~q.active => p.chipGate["pdsg"] /\ ~p.active

LEMMA FETControlGates ==
  ASSUME NEW p, Sound(p), NEW g \in Gate, NEW on \in BOOLEAN, NEW ok \in BOOLEAN
  PROVE  LET q == FETControl(p, g, on, ok)
         IN  /\ Spares(p, q) /\ q.active = p.active /\ q.flg = p.flg
             /\ q.gate = [p.gate EXCEPT ![g] = on]
             /\ q.chipGate = IF ok THEN q.gate ELSE p.chipGate
BY DEF FETControl, Sound, ProtType, Spares

LEMMA CleanFlgSpares ==
  ASSUME NEW p, Sound(p), NEW a, NEW ok \in BOOLEAN
  PROVE  LET q == CleanFlg(p, a, ok)
         IN  /\ Spares(p, q) /\ q.active = p.active
             /\ q.gate = p.gate /\ q.chipGate = p.chipGate
BY DEF CleanFlg, Sound, ProtType, Spares

LEMMA ScdAgainSpares ==
  ASSUME NEW p, Sound(p), NEW bad
  PROVE  LET q == ScdAgain(p, bad)
         IN  /\ Spares(p, q) /\ q.active = p.active
             /\ q.gate = p.gate /\ q.chipGate = p.chipGate
<1> DEFINE q == CleanFlg(p, "SCD", "SCD" \notin bad)
<1>1. /\ Spares(p, q) /\ q.active = p.active /\ q.gate = p.gate /\ q.chipGate = p.chipGate
      /\ Sound(q)
  BY CleanFlgSpares, CleanFlgKeeps DEF Keep, AfeFlag
<1> HIDE DEF q
<1>2. ScdAgain(p, bad) = IF p.retry + 1 < ScdMaxRetries
      THEN [q EXCEPT !.retry = @ + 1, !.scdAge = 0, !.scd = "COOLDOWN"]
      ELSE [q EXCEPT !.retry = @ + 1, !.scd = "LATCHED"]
  BY DEF ScdAgain, q
<1> QED  BY <1>1, <1>2 DEF Sound, ProtType, Spares

LEMMA ScdRecoveredSpares ==
  ASSUME NEW p, Sound(p)
  PROVE  LET q == ScdRecovered(p)
         IN  /\ Spares(p, q) /\ q.gate = p.gate /\ q.chipGate = p.chipGate
BY DEF ScdRecovered, Sound, ProtType, Spares

LEMMA GatesUntouched ==
  ASSUME NEW p, NEW q, q.gate = p.gate, q.chipGate = p.chipGate, ~q.active => ~p.active
  PROVE  HoldsGates(p, q)
BY DEF HoldsGates, Synced

\* Each state of the recovery.
LEMMA ScdIdleSpares ==
  ASSUME NEW p, Sound(p), NEW bad
  PROVE  LET r == ScdIdle(p, bad) IN Spares(p, r) /\ HoldsGates(p, r)
<1> DEFINE q == CleanFlg(p, "SCD", "SCD" \notin bad)
           r == [q EXCEPT !.retry = 0, !.scdAge = 0, !.scd = "COOLDOWN"]
<1>1. /\ Spares(p, q) /\ q.active = p.active /\ q.gate = p.gate /\ q.chipGate = p.chipGate
      /\ Sound(q)
  BY CleanFlgSpares, CleanFlgKeeps DEF Keep, AfeFlag
<1>2. ScdIdle(p, bad) = IF "Short" \notin p.flg THEN p ELSE r  BY DEF ScdIdle
<1> HIDE DEF q
<1>3. Spares(p, r) /\ r.gate = p.gate /\ r.chipGate = p.chipGate /\ r.active = p.active
  BY <1>1 DEF Sound, ProtType, Spares
<1>4. Spares(p, p)  BY DEF Spares
<1> HIDE DEF r
<1> QED  BY <1>2, <1>3, <1>4, GatesUntouched

LEMMA ScdCoolingSpares ==
  ASSUME NEW p, Sound(p), ScdIn(p), p.scd = "COOLDOWN", NEW s, NEW bad
  PROVE  LET r == ScdCooling(p, s, bad)
         IN  Spares(p, r) /\ ("pdsg" \notin bad => HoldsGates(p, r))
<1> DEFINE q == FETControl(p, "pdsg", TRUE, "pdsg" \notin bad)
           r == [q EXCEPT !.active = TRUE, !.scdAge = 0, !.scd = "PDSG_CHECK"]
<1>1. /\ Spares(p, q) /\ q.gate = [p.gate EXCEPT !["pdsg"] = TRUE]
      /\ "pdsg" \notin bad => q.chipGate = q.gate
      /\ Sound(q)
  BY FETControlGates, FETControlKeeps DEF Keep, Gate
<1>2. ScdCooling(p, s, bad) = IF p.scdAge < ScdCooldown THEN p
                              ELSE IF s.loadOff THEN ScdRecovered(p) ELSE r
  BY DEF ScdCooling
<1> HIDE DEF q
<1>3. /\ Spares(p, r) /\ r.active = TRUE
      /\ r.gate = [p.gate EXCEPT !["pdsg"] = TRUE]
      /\ "pdsg" \notin bad => r.chipGate = r.gate
  BY <1>1 DEF Sound, ProtType, Spares
<1> HIDE DEF r
<1>4. "pdsg" \notin bad => HoldsGates(p, r)
  BY <1>3 DEF HoldsGates, Synced, Sound, ProtType, Gate
<1>5. Spares(p, ScdRecovered(p)) /\ HoldsGates(p, ScdRecovered(p))
  <2>1. ~p.active  BY DEF ScdIn
  <2> DEFINE t == ScdRecovered(p)
  <2>2. Spares(p, t) /\ t.gate = p.gate /\ t.chipGate = p.chipGate
    BY ScdRecoveredSpares
  <2> HIDE DEF t
  <2> QED  BY <2>1, <2>2, GatesUntouched DEF t
<1>6. Spares(p, p) /\ HoldsGates(p, p)  BY GatesUntouched DEF Spares
<1> QED  BY <1>2, <1>3, <1>4, <1>5, <1>6

LEMMA ScdProbingSpares ==
  ASSUME NEW p, Sound(p), NEW bad
  PROVE  LET r == ScdProbing(p, bad)
         IN  Spares(p, r) /\ ("pdsg" \notin bad => HoldsGates(p, r))
<1> DEFINE f   == FETControl(p, "pdsg", FALSE, "pdsg" \notin bad)
           off == [f EXCEPT !.active = FALSE]
           a   == ScdAgain(off, bad)
           a1  == [a EXCEPT !.flg = IF a.scd = "LATCHED" THEN @ \cup {"Short"} ELSE @]
           v   == [off EXCEPT !.flg = @ \ {"Short"}, !.scdAge = 0, !.scd = "DSG_VERIFY"]
<1>1. /\ Spares(p, f) /\ f.gate = [p.gate EXCEPT !["pdsg"] = FALSE]
      /\ "pdsg" \notin bad => f.chipGate = f.gate
      /\ Sound(f) /\ f.flg = p.flg
  BY FETControlGates, FETControlKeeps DEF Keep, Gate
<1>2. ScdProbing(p, bad) = IF "SCD" \in p.r0 THEN a1
                           ELSE IF p.scdAge >= ScdPdsgCheck THEN v ELSE p
  BY DEF ScdProbing
<1> HIDE DEF f
<1>3. /\ Spares(p, off) /\ off.flg = p.flg /\ Sound(off)
      /\ off.gate = [p.gate EXCEPT !["pdsg"] = FALSE]
      /\ "pdsg" \notin bad => off.chipGate = off.gate
  BY <1>1 DEF Sound, ProtType, Spares
<1> HIDE DEF off
<1>4. /\ Spares(off, a) /\ a.gate = off.gate /\ a.chipGate = off.chipGate
      /\ DOMAIN a = DOMAIN off
  <2>1. Spares(off, a) /\ a.gate = off.gate /\ a.chipGate = off.chipGate
    BY <1>3, ScdAgainSpares
  <2>2. DOMAIN a = DOMAIN off
    BY DEF ScdAgain, CleanFlg
  <2> QED  BY <2>1, <2>2
<1> HIDE DEF a
<1>5. Spares(p, a1) /\ a1.gate = off.gate /\ a1.chipGate = off.chipGate
  BY <1>3, <1>4 DEF Sound, ProtType, Spares
<1>6. Spares(p, v) /\ v.gate = off.gate /\ v.chipGate = off.chipGate
  BY <1>3 DEF Sound, ProtType, Spares
<1> HIDE DEF a1, v
<1>7. "pdsg" \notin bad => HoldsGates(p, a1) /\ HoldsGates(p, v)
  <2> SUFFICES ASSUME "pdsg" \notin bad PROVE HoldsGates(p, a1) /\ HoldsGates(p, v)
    OBVIOUS
  <2>1. /\ a1.gate = a1.chipGate /\ a1.gate = [p.gate EXCEPT !["pdsg"] = FALSE]
        /\ v.gate = v.chipGate /\ v.gate = [p.gate EXCEPT !["pdsg"] = FALSE]
    BY <1>3, <1>5, <1>6
  <2>2. /\ p.gate \in [Gate -> BOOLEAN] /\ "dsg" \in Gate /\ "pdsg" \in Gate
    BY DEF Sound, ProtType, Gate
  <2>3. /\ ~a1.chipGate["pdsg"] /\ a1.chipGate["dsg"] = p.gate["dsg"]
        /\ ~v.chipGate["pdsg"] /\ v.chipGate["dsg"] = p.gate["dsg"]
    BY <2>1, <2>2
  <2> QED  BY <2>1, <2>3 DEF HoldsGates, Synced
<1>8. Spares(p, p) /\ HoldsGates(p, p)  BY GatesUntouched DEF Spares
<1> QED  BY <1>2, <1>5, <1>6, <1>7, <1>8

LEMMA ScdVerifyingSpares ==
  ASSUME NEW p, Sound(p), ScdIn(p), p.scd = "DSG_VERIFY", NEW bad
  PROVE  LET r == ScdVerifying(p, bad) IN Spares(p, r) /\ HoldsGates(p, r)
<1> DEFINE q == [p EXCEPT !.flg = @ \cup {"Short"}]
           a == ScdAgain(q, bad)
           t == ScdRecovered(p)
<1>1. Sound(q)  BY ShortSet DEF Keep
<1>2. /\ p.flg \subseteq q.flg /\ q.cur = p.cur /\ q.counted = p.counted
      /\ q.fet = p.fet /\ q.pdsgAge = p.pdsgAge /\ q.mode = p.mode /\ q.diag = p.diag
      /\ q.gate = p.gate /\ q.chipGate = p.chipGate /\ q.active = p.active
  BY DEF Sound, ProtType
<1>3. ScdVerifying(p, bad) = IF "SCD" \in p.r0 THEN a
                             ELSE IF p.scdAge >= ScdDsgVerify THEN t ELSE p
  BY DEF ScdVerifying
<1> HIDE DEF q
<1>4. Spares(q, a) /\ a.gate = q.gate /\ a.chipGate = q.chipGate /\ a.active = q.active
  BY <1>1, ScdAgainSpares
<1>5. Spares(p, t) /\ t.gate = p.gate /\ t.chipGate = p.chipGate /\ ~p.active
  BY ScdRecoveredSpares DEF ScdIn
<1> HIDE DEF a, t
<1>6. Spares(p, a) /\ HoldsGates(p, a) /\ HoldsGates(p, t)
  BY <1>2, <1>4, <1>5, GatesUntouched DEF Spares
<1>7. Spares(p, p) /\ HoldsGates(p, p)  BY GatesUntouched DEF Spares
<1> QED  BY <1>3, <1>5, <1>6, <1>7

LEMMA ScdSpares ==
  ASSUME NEW p0, Sound(p0), ScdIn(p0), NEW s, NEW bad
  PROVE  LET r == ProtectSCD(p0, s, bad)
         IN  Spares(p0, r) /\ ("pdsg" \notin bad => HoldsGates(p0, r))
<1> DEFINE p == ReadR0(p0, "scdR0" \notin bad)
           r == ProtectSCD(p0, s, bad)
<1>1. Keep(p0, p)  BY DEF ReadR0, Keep, Sound, SameScd, SameOv, ProtType
<1>2. /\ Sound(p) /\ ScdIn(p) /\ p.scd \in ScdStates /\ p.active = p0.active
  BY <1>1 DEF Keep, SameScd, ScdIn, Sound, ProtType
<1>3. Spares(p0, p) /\ p.flg = p0.flg /\ p.gate = p0.gate /\ p.chipGate = p0.chipGate
  BY DEF ReadR0, Spares, Sound, ProtType
<1>4. r = CASE p.scd = "IDLE"       -> ScdIdle(p, bad)
            [] p.scd = "COOLDOWN"   -> ScdCooling(p, s, bad)
            [] p.scd = "PDSG_CHECK" -> ScdProbing(p, bad)
            [] p.scd = "DSG_VERIFY" -> ScdVerifying(p, bad)
            [] p.scd = "LATCHED"    -> IF p.cur = "chg" \/ s.loadOff
                                       THEN ScdRecovered(p) ELSE p
  BY DEF ProtectSCD
<1> HIDE DEF p, r
<1>5. Spares(p, p) /\ HoldsGates(p, p)  BY GatesUntouched DEF Spares
<1>6. Spares(p, r) /\ ("pdsg" \notin bad => HoldsGates(p, r))
  <2>1. CASE p.scd = "IDLE"
    BY <1>2, <1>4, <2>1, ScdIdleSpares
  <2>2. CASE p.scd = "COOLDOWN"
    BY <1>2, <1>4, <2>2, ScdCoolingSpares
  <2>3. CASE p.scd = "PDSG_CHECK"
    BY <1>2, <1>4, <2>3, ScdProbingSpares
  <2>4. CASE p.scd = "DSG_VERIFY"
    BY <1>2, <1>4, <2>4, ScdVerifyingSpares
  <2>5. CASE p.scd = "LATCHED"
    <3> DEFINE t == ScdRecovered(p)
    <3>1. Spares(p, t) /\ t.gate = p.gate /\ t.chipGate = p.chipGate /\ ~p.active
      BY <1>2, <2>5, ScdRecoveredSpares DEF ScdIn
    <3>2. r \in {t, p}  BY <1>4, <2>5
    <3> HIDE DEF t
    <3> QED  BY <1>5, <3>1, <3>2, GatesUntouched
  <2> QED  BY <1>2, <2>1, <2>2, <2>3, <2>4, <2>5 DEF ScdStates
<1> QED  BY <1>2, <1>3, <1>6 DEF Spares, HoldsGates, Synced, r

-----------------------------------------------------------------------------
(* The pass again: what it releases, and what it leaves of the gates.       *)

LEMMA TakeFlagsSpares ==
  ASSUME NEW p, Sound(p), NEW bad
  PROVE  LET q == TakeFlags(p, bad)
         IN  /\ Spares(p, q) /\ p.flg \subseteq q.flg /\ q.active = p.active
             /\ q.gate = p.gate /\ q.chipGate = p.chipGate
BY DEF TakeFlags, Sound, ProtType, Spares

LEMMA RaiseSpares ==
  ASSUME NEW p, Sound(p), NEW late
  PROVE  LET q == Raise(p, late)
         IN  /\ Spares(p, q) /\ q.flg = p.flg /\ q.active = p.active
             /\ q.gate = p.gate /\ q.chipGate = p.chipGate
BY DEF Raise, Sound, ProtType, Spares

\* Every detector after the short circuit's, in the order of the code.
LEMMA DetectorsDetect ==
  ASSUME NEW p, Sound(p), NEW s \in Sample, NEW bad
  PROVE  LET b == ProtectOV(ProtectUV(p, s, bad), s, bad)
             c == ProtectUTD_OTD(ProtectUTC_OTC(ProtectReChgInhibit(b, s), s), s)
             d == ProtectOCD2(ProtectOCD1(ProtectOCC1(c, s, bad), s, bad), bad)
             r == DIAG_FaultLevelTranProcess(ProtectWait(d, s), s)
         IN  Detects(p, r) /\ r.active = p.active
<1> DEFINE a  == ProtectUV(p, s, bad)
           b  == ProtectOV(a, s, bad)
           c1 == ProtectReChgInhibit(b, s)
           c2 == ProtectUTC_OTC(c1, s)
           c  == ProtectUTD_OTD(c2, s)
           d1 == ProtectOCC1(c, s, bad)
           d2 == ProtectOCD1(d1, s, bad)
           d  == ProtectOCD2(d2, bad)
           w  == ProtectWait(d, s)
           r  == DIAG_FaultLevelTranProcess(w, s)
<1>1. Keep(p, a) /\ Detects(p, a) /\ Pending(a)
  BY UVKeeps, UVDetects
<1> HIDE DEF a
<1>2. Keep(a, b) /\ Detects(a, b) /\ Pending(b)
  BY <1>1, OVKeeps, OVDetects, PendingKept DEF Keep
<1> HIDE DEF b
<1>3. Sound(c1) /\ SameScd(b, c1) /\ Detects(b, c1) /\ Pending(c1)
  BY <1>2, ReChgInhibitIn, ReChgInhibitDetects, PendingKept DEF Keep
<1> HIDE DEF c1
<1>4. Keep(c1, c2) /\ Detects(c1, c2) /\ Pending(c2)
  BY <1>3, TemperaturesKeep, TemperaturesDetect, PendingKept
<1> HIDE DEF c2
<1>5. Keep(c2, c) /\ Detects(c2, c) /\ Pending(c)
  BY <1>4, TemperaturesKeep, TemperaturesDetect, PendingKept DEF Keep
<1> HIDE DEF c
<1>6. Keep(c, d1) /\ Detects(c, d1) /\ Pending(d1)
  BY <1>5, OCC1Keeps, OCC1Detects, PendingKept DEF Keep
<1> HIDE DEF d1
<1>7. Keep(d1, d2) /\ Detects(d1, d2) /\ Pending(d2)
  BY <1>6, OCD1Keeps, OCD1Detects, PendingKept DEF Keep
<1> HIDE DEF d2
<1>8. Keep(d2, d) /\ Detects(d2, d)
  BY <1>7, OCD2Keeps, OCD2Detects DEF Keep
<1> HIDE DEF d
<1>9. Keep(d, w) /\ Detects(d, w)
  BY <1>8, WaitKeeps, WaitDetects DEF Keep
<1> HIDE DEF w
<1>10. Keep(w, r) /\ Detects(w, r)
  BY <1>9, DiagIn, DiagDetects DEF Keep
<1> HIDE DEF r
<1>11. Detects(p, c1)
  BY <1>1, <1>2, <1>3, DetectsTrans
<1>12. Detects(c1, d1)
  BY <1>4, <1>5, <1>6, DetectsTrans
<1>13. Detects(d1, r)
  BY <1>7, <1>8, <1>9, <1>10, DetectsTrans
<1>14. Detects(p, r)
  BY <1>11, <1>12, <1>13, DetectsTrans
<1>15. r.active = p.active
  BY <1>1, <1>2, <1>3, <1>4, <1>5, <1>6, <1>7, <1>8, <1>9, <1>10 DEF Keep, SameScd
<1> QED  BY <1>14, <1>15 DEF r, w, d, d2, d1, c, c2, c1, b, a

\* A chip flag the handler drops is not up in the chip, and the gates are held.
LEMMA HandleReleases ==
  ASSUME NEW p, Sound(p), ScdIn(p), NEW s \in Sample, NEW bad,
         NEW late \in SUBSET AfeFlag
  PROVE  LET r == ProtectionHandle(p, s, bad, late)
         IN  /\ (p.flg \ r.flg) \cap ChipFlag \cap FlagsOf(r.chipR0) = {}
             /\ r.cur = p.cur /\ r.counted = p.counted
             /\ r.fet = p.fet /\ r.pdsgAge = p.pdsgAge
             /\ r.mode = p.mode /\ r.diag = p.diag
             /\ "pdsg" \notin bad => HoldsGates(p, r)
<1> DEFINE t  == TakeFlags(p, bad)
           a  == ProtectSCD(t, s, bad)
           a1 == Raise(a, late)
           r  == ProtectionHandle(p, s, bad, late)
<1>1. /\ Spares(p, t) /\ p.flg \subseteq t.flg /\ t.active = p.active
      /\ t.gate = p.gate /\ t.chipGate = p.chipGate /\ Sound(t) /\ ScdIn(t)
  BY TakeFlagsSpares, TakeFlagsKeeps DEF SameScd, ScdIn
<1>2. r = LET b == ProtectOV(ProtectUV(a1, s, bad), s, bad)
              c == ProtectUTD_OTD(ProtectUTC_OTC(ProtectReChgInhibit(b, s), s), s)
              d == ProtectOCD2(ProtectOCD1(ProtectOCC1(c, s, bad), s, bad), bad)
          IN  DIAG_FaultLevelTranProcess(ProtectWait(d, s), s)
  BY DEF ProtectionHandle
<1> HIDE DEF t, r
<1>3. Spares(t, a) /\ ("pdsg" \notin bad => HoldsGates(t, a)) /\ Sound(a)
  BY <1>1, ScdSpares, ScdKeeps
<1> HIDE DEF a
<1>4. /\ Spares(a, a1) /\ a1.flg = a.flg /\ a1.active = a.active
      /\ a1.gate = a.gate /\ a1.chipGate = a.chipGate /\ Sound(a1)
  BY <1>3, RaiseSpares, RaiseKeeps DEF Keep
<1> HIDE DEF a1
<1>5. Detects(a1, r) /\ r.active = a1.active
  BY <1>2, <1>4, DetectorsDetect
<1>6. /\ r.cur = p.cur /\ r.counted = p.counted
      /\ r.fet = p.fet /\ r.pdsgAge = p.pdsgAge /\ r.mode = p.mode /\ r.diag = p.diag
  BY <1>1, <1>3, <1>4, <1>5 DEF Spares, Detects, Follows, SameGates
<1>7. (p.flg \ r.flg) \cap ChipFlag \cap FlagsOf(r.chipR0) = {}
  <2>1. p.flg \cap ChipFlag \subseteq a1.flg
    BY <1>1, <1>3, <1>4 DEF Spares, ChipFlag
  <2>2. (a1.flg \ r.flg) \cap ChipFlag \cap FlagsOf(r.chipR0) = {}
    BY <1>5 DEF Detects, Follows
  <2> QED  BY <2>1, <2>2
<1>8. "pdsg" \notin bad => HoldsGates(p, r)
  BY <1>1, <1>3, <1>4, <1>5 DEF HoldsGates, Synced, Detects, SameGates
<1> QED  BY <1>6, <1>7, <1>8 DEF r

\* A pass drops a chip flag only when the chip has, the cell count apart.
LEMMA PassReleases ==
  ASSUME NEW p, Good(p), NEW s \in Sample, NEW bad, NEW late \in SUBSET AfeFlag
  PROVE  LET r == AfePass(p, s, bad, late)
         IN  r.counted = p.counted
               => (p.flg \ r.flg) \cap ChipFlag \cap FlagsOf(r.chipR0) = {}
<1> DEFINE e == Elapse(p)
           c == CurrentAcquisition(e, s, bad)
           h == ProtectionHandle(c, s, bad, late)
           f == FetStatus(h, bad)
           r == BrokenDetect(f, s, bad)
<1>1. Sound(c) /\ ScdIn(c) /\ c.flg = p.flg /\ c.counted = p.counted
  <2>1. Sound(e) /\ SameScd(p, e)  BY ElapseKeeps DEF Good, Keep
  <2>2. e.flg = p.flg /\ e.counted = p.counted  BY DEF Elapse, Good, Sound, ProtType
  <2> HIDE DEF e
  <2>3. Keep(e, c)  BY <2>1, CurrentKeeps
  <2>4. c.flg = e.flg /\ c.counted = e.counted
    BY <2>1 DEF CurrentAcquisition, Sound, ProtType
  <2> QED  BY <2>1, <2>2, <2>3, <2>4 DEF Keep, SameScd, ScdIn, Good
<1> HIDE DEF e, c
<1>2. /\ (c.flg \ h.flg) \cap ChipFlag \cap FlagsOf(h.chipR0) = {}
      /\ h.counted = c.counted /\ Sound(h)
  BY <1>1, HandleReleases, HandleGood DEF Good
<1> HIDE DEF h
<1>3. f.flg = h.flg /\ f.chipR0 = h.chipR0 /\ f.counted = h.counted /\ Sound(f)
  <2>1. Sound(f)  BY <1>2, FetStatusKeeps DEF Keep
  <2> QED  BY <1>2, <2>1 DEF FetStatus, Sound, ProtType
<1> HIDE DEF f
<1>4. r.counted = f.counted => r.flg = f.flg /\ r.chipR0 \subseteq f.chipR0
  <2>1. f.counted \in BOOLEAN  BY <1>3 DEF Sound, ProtType
  <2> DEFINE q == CleanError(f, "cow" \notin bad)
  <2>2. /\ q.flg = f.flg /\ q.chipR0 \subseteq f.chipR0 /\ q.counted = f.counted
        /\ DOMAIN q = DOMAIN f
    BY <1>3 DEF CleanError, Sound, ProtType
  <2>3. r = CASE s.cow = "skip"   -> f
         [] s.cow = "unread" -> [f EXCEPT !.wait = @ \ {"Vol"}]
         [] s.cow = "intact" -> [q EXCEPT !.wait = @ \ {"Vol"}]
         [] s.cow = "open"   -> [q EXCEPT !.wait = @ \cup {"Vol"}]
         [] s.cow = "fewer"  -> IF f.counted THEN [q EXCEPT !.wait = @ \ {"Vol"}]
                                ELSE [q EXCEPT !.wait = @ \cup {"Vol"},
                                               !.flg = {}, !.counted = TRUE]
    BY DEF BrokenDetect
  <2> HIDE DEF q, r
  <2>4. s.cow \in {"skip", "unread", "intact", "open", "fewer"}  BY DEF Sample
  <2> QED  BY <1>3, <2>1, <2>2, <2>3, <2>4 DEF Sound, ProtType
<1> HIDE DEF r
<1>5. r.counted = p.counted => FlagsOf(r.chipR0) \subseteq FlagsOf(h.chipR0)
  BY <1>1, <1>2, <1>3, <1>4, FlagsOfGrow
<1>6. AfePass(p, s, bad, late) = r  BY DEF AfePass, r, f, h, c, e
<1> QED  BY <1>1, <1>2, <1>3, <1>4, <1>5, <1>6

\* What a pass leaves of the gates: the shadow of the pre-discharge FET follows
\* its output, and the clock of the pre-discharge ticks.
LEMMA PassGates ==
  ASSUME NEW p, Good(p), NEW s \in Sample, NEW late \in SUBSET AfeFlag,
         NEW bad, "pdsg" \notin bad, "fet" \notin bad
  PROVE  LET r == AfePass(p, s, bad, late)
         IN  /\ HoldsGates(p, r) /\ r.fet["pdsg"] = r.chipGate["pdsg"]
             /\ r.pdsgAge = Smaller(p.pdsgAge + 1, PreBound) /\ r.diag = p.diag
<1> DEFINE e == Elapse(p)
           c == CurrentAcquisition(e, s, bad)
           h == ProtectionHandle(c, s, bad, late)
           f == FetStatus(h, bad)
           r == BrokenDetect(f, s, bad)
<1>1. /\ Sound(c) /\ ScdIn(c) /\ c.gate = p.gate /\ c.chipGate = p.chipGate
      /\ c.active = p.active /\ c.pdsgAge = Smaller(p.pdsgAge + 1, PreBound)
      /\ c.diag = p.diag
  <2>1. Sound(e) /\ SameScd(p, e)  BY ElapseKeeps DEF Good, Keep
  <2>2. /\ e.gate = p.gate /\ e.chipGate = p.chipGate
        /\ e.pdsgAge = Smaller(p.pdsgAge + 1, PreBound) /\ e.diag = p.diag
    BY DEF Elapse, Good, Sound, ProtType
  <2> HIDE DEF e
  <2>3. Keep(e, c)  BY <2>1, CurrentKeeps
  <2>4. c.gate = e.gate /\ c.chipGate = e.chipGate /\ c.pdsgAge = e.pdsgAge
        /\ c.diag = e.diag
    BY <2>1 DEF CurrentAcquisition, Sound, ProtType
  <2> QED  BY <2>1, <2>2, <2>3, <2>4 DEF Keep, SameScd, ScdIn, Good
<1> HIDE DEF e, c
<1>2. HoldsGates(c, h) /\ h.pdsgAge = c.pdsgAge /\ h.diag = c.diag /\ Sound(h)
  BY <1>1, HandleReleases, HandleGood DEF Good
<1> HIDE DEF h
<1>3. /\ f.gate = h.gate /\ f.chipGate = h.chipGate /\ f.active = h.active /\ f.diag = h.diag
      /\ f.pdsgAge = h.pdsgAge /\ f.fet["pdsg"] = h.chipGate["pdsg"] /\ Sound(f)
  <2>1. Sound(f)  BY <1>2, FetStatusKeeps DEF Keep
  <2>2. f.fet["pdsg"] = PdsgOn(h)
    BY <1>2 DEF FetStatus, Sound, ProtType, Gate
  <2> QED  BY <1>2, <2>1, <2>2 DEF FetStatus, PdsgOn, Sound, ProtType
<1> HIDE DEF f
<1>4. /\ r.gate = f.gate /\ r.chipGate = f.chipGate /\ r.active = f.active /\ r.diag = f.diag
      /\ r.pdsgAge = f.pdsgAge /\ r.fet = f.fet
  <2> DEFINE q == CleanError(f, "cow" \notin bad)
  <2>1. /\ q.gate = f.gate /\ q.chipGate = f.chipGate /\ q.active = f.active /\ q.diag = f.diag
        /\ q.pdsgAge = f.pdsgAge /\ q.fet = f.fet
        /\ DOMAIN q = DOMAIN f
    BY <1>3 DEF CleanError, Sound, ProtType
  <2>2. s.cow \in {"skip", "unread", "intact", "open", "fewer"}  BY DEF Sample
  <2>3. r = CASE s.cow = "skip"   -> f
         [] s.cow = "unread" -> [f EXCEPT !.wait = @ \ {"Vol"}]
         [] s.cow = "intact" -> [q EXCEPT !.wait = @ \ {"Vol"}]
         [] s.cow = "open"   -> [q EXCEPT !.wait = @ \cup {"Vol"}]
         [] s.cow = "fewer"  -> IF f.counted THEN [q EXCEPT !.wait = @ \ {"Vol"}]
                                ELSE [q EXCEPT !.wait = @ \cup {"Vol"},
                                               !.flg = {}, !.counted = TRUE]
    BY DEF BrokenDetect
  <2> HIDE DEF q, r
  <2> QED  BY <1>3, <2>1, <2>2, <2>3 DEF Sound, ProtType
<1> HIDE DEF r
<1>5. AfePass(p, s, bad, late) = r  BY DEF AfePass, r, f, h, c, e
<1> QED  BY <1>1, <1>2, <1>3, <1>4, <1>5 DEF HoldsGates, Synced

-----------------------------------------------------------------------------
(* MosCtrl: the main gate goes on only behind a pre-discharge.              *)
\* Where MosCtrl goes by the shadow flag of the pre-discharge FET, it is right.
ShadowIn(p) == p.mode \notin {"diag", "off"} /\ ~p.active
                 => p.fet["pdsg"] = p.chipGate["pdsg"]

\* q is p but for gates, shadow and clock.
SameRest(p, q) == /\ q.mode = p.mode /\ q.active = p.active /\ q.cur = p.cur
                  /\ q.diag = p.diag

\* q is p with gate g and its shadow driven to on.
Driven(p, q, g, on) ==
  /\ Sound(q) /\ Synced(q) /\ SameRest(p, q) /\ q.pdsgAge = p.pdsgAge
  /\ q.fet = [p.fet EXCEPT ![g] = on]
  /\ q.chipGate[g] = on \/ g = "chg"
  /\ \A h \in {"dsg", "pdsg"} \ {g} : q.chipGate[h] = p.chipGate[h]

LEMMA DriveGates ==
  ASSUME NEW p, Sound(p), Synced(p), NEW g \in Gate, NEW on \in BOOLEAN,
         NEW bad, bad \subseteq {"chg"}
  PROVE  Driven(p, Drive(p, g, on, bad), g, on)
<1> DEFINE f == FETControl(p, g, on, g \notin bad)
           q == [f EXCEPT !.fet[g] = on]
<1>1. /\ f.gate = [p.gate EXCEPT ![g] = on] /\ f.fet = p.fet
      /\ f.chipGate = IF g \notin bad THEN f.gate ELSE p.chipGate
      /\ SameRest(p, f) /\ f.pdsgAge = p.pdsgAge
  BY DEF FETControl, Sound, ProtType, SameRest
<1>2. Sound(f) /\ Sound(q)  BY FETControlKeeps DEF Keep
<1> HIDE DEF f
<1>3. /\ q.gate = f.gate /\ q.chipGate = f.chipGate /\ SameRest(f, q)
      /\ q.pdsgAge = f.pdsgAge /\ q.fet = [f.fet EXCEPT ![g] = on]
  BY <1>2 DEF Sound, ProtType, SameRest
<1> HIDE DEF q
<1>4. \A h \in {"dsg", "pdsg"} :
        /\ q.chipGate[h] = IF h = g THEN on ELSE p.chipGate[h]
        /\ q.gate[h] = IF h = g THEN on ELSE p.chipGate[h]
  <2> TAKE h \in {"dsg", "pdsg"}
  <2>1. p.gate \in [Gate -> BOOLEAN] /\ h \in Gate /\ p.gate[h] = p.chipGate[h]
    BY DEF Sound, ProtType, Gate, Synced
  <2>2. f.gate[h] = IF h = g THEN on ELSE p.gate[h]  BY <1>1, <2>1
  <2>3. CASE g \in bad  BY <1>1, <1>3, <2>1, <2>2, <2>3
  <2>4. CASE g \notin bad  BY <1>1, <1>3, <2>1, <2>2, <2>4
  <2> QED  BY <2>3, <2>4
<1>5. Drive(p, g, on, bad) = q  BY DEF Drive, q, f
<1>6. q.chipGate[g] = on \/ g = "chg"
  <2>1. p.gate \in [Gate -> BOOLEAN]  BY DEF Sound, ProtType
  <2> QED  BY <1>1, <1>3, <2>1
<1> QED  BY <1>1, <1>2, <1>3, <1>4, <1>5, <1>6 DEF Synced, SameRest, Driven

\* The main gate goes on only where the pre-discharge has run its time.
LEMMA DsgGates ==
  ASSUME NEW p, Sound(p), Synced(p), p.fet["pdsg"] = p.chipGate["pdsg"],
         NEW bad, bad \subseteq {"chg"}
  PROVE  LET q == DsgCtrl(p, bad)
         IN  /\ Sound(q) /\ Synced(q) /\ SameRest(p, q)
             /\ q.fet["pdsg"] = q.chipGate["pdsg"]
             /\ ~p.chipGate["dsg"] /\ q.chipGate["dsg"]
                  => /\ p.chipGate["pdsg"] /\ ~p.active /\ p.pdsgAge > PrechargeTicks
                     /\ ~DsgFault(p) \/ p.cur = "chg"
             /\ \/ q.pdsgAge = p.pdsgAge /\ (q.chipGate["pdsg"] => p.chipGate["pdsg"])
                \/ q.pdsgAge = 0
<1>0. /\ "dsg" \in Gate /\ "pdsg" \in Gate
      /\ p.fet \in [Gate -> BOOLEAN] /\ p.chipGate \in [Gate -> BOOLEAN]
  BY DEF Gate, Sound, ProtType
<1> DEFINE Goal(q) ==
             /\ Sound(q) /\ Synced(q) /\ SameRest(p, q)
             /\ q.fet["pdsg"] = q.chipGate["pdsg"]
             /\ ~p.chipGate["dsg"] /\ q.chipGate["dsg"]
                  => p.chipGate["pdsg"] /\ ~p.active /\ p.pdsgAge > PrechargeTicks
             /\ \/ q.pdsgAge = p.pdsgAge /\ (q.chipGate["pdsg"] => p.chipGate["pdsg"])
                \/ q.pdsgAge = 0
           off == Drive(p, "pdsg", FALSE, bad)
           on  == Drive(p, "pdsg", TRUE, bad)
           cut == Drive(p, "dsg", FALSE, bad)
<1>d. /\ Driven(p, off, "pdsg", FALSE) /\ Driven(p, on, "pdsg", TRUE)
      /\ Driven(p, cut, "dsg", FALSE)
  BY <1>0, DriveGates
<1> HIDE DEF off, on, cut
<1>1. /\ Sound(off) /\ Synced(off) /\ SameRest(p, off) /\ off.pdsgAge = p.pdsgAge
      /\ off.fet["pdsg"] = FALSE /\ off.chipGate["pdsg"] = FALSE
      /\ off.chipGate["dsg"] = p.chipGate["dsg"]
  BY <1>0, <1>d DEF Driven
<1>2. /\ Sound(on) /\ Synced(on) /\ SameRest(p, on)
      /\ on.fet["pdsg"] = TRUE /\ on.chipGate["pdsg"] = TRUE
      /\ on.chipGate["dsg"] = p.chipGate["dsg"]
  BY <1>0, <1>d DEF Driven
<1>3. /\ Sound(cut) /\ Synced(cut) /\ SameRest(p, cut) /\ cut.pdsgAge = p.pdsgAge
      /\ cut.fet["pdsg"] = p.fet["pdsg"] /\ cut.chipGate["pdsg"] = p.chipGate["pdsg"]
      /\ cut.chipGate["dsg"] = FALSE
  BY <1>0, <1>d DEF Driven
<1>4. Goal(p)  BY DEF SameRest
<1>5. Goal(off)  BY <1>0, <1>1
<1>6. /\ Goal(CloseDsg(p, bad))
      /\ CloseDsg(p, bad).chipGate["dsg"] => p.chipGate["dsg"]
  <2> DEFINE q == IF p.fet["dsg"] THEN cut ELSE p
             r == Drive(q, "pdsg", FALSE, bad)
  <2>1. /\ Sound(q) /\ Synced(q) /\ SameRest(p, q) /\ q.pdsgAge = p.pdsgAge
        /\ q.fet["pdsg"] = p.fet["pdsg"] /\ q.chipGate["pdsg"] = p.chipGate["pdsg"]
        /\ q.chipGate["dsg"] => p.chipGate["dsg"]
    <3> QED  BY <1>0, <1>3 DEF SameRest
  <2>2. CloseDsg(p, bad) = IF p.fet["pdsg"] /\ p.pdsgAge > PrechargeTimeout THEN r ELSE q
    BY DEF CloseDsg, cut
  <2> HIDE DEF q
  <2>3. Driven(q, r, "pdsg", FALSE)  BY <1>0, <2>1, DriveGates
  <2>4. /\ Sound(r) /\ Synced(r) /\ SameRest(q, r) /\ r.pdsgAge = q.pdsgAge
        /\ r.fet["pdsg"] = FALSE /\ r.chipGate["pdsg"] = FALSE
        /\ r.chipGate["dsg"] = q.chipGate["dsg"]
    <3>1. q.fet \in [Gate -> BOOLEAN]  BY <2>1 DEF Sound, ProtType
    <3> HIDE DEF r
    <3> QED  BY <1>0, <2>3, <3>1 DEF Driven
  <2> HIDE DEF r
  <2> QED  BY <2>1, <2>2, <2>3, <2>4 DEF SameRest
<1>7. ~p.active => Goal(OpenDsg(p, bad))
  <2> DEFINE fresh == [on EXCEPT !.pdsgAge = 0]
             main  == Drive(off, "dsg", TRUE, bad)
  <2>1. OpenDsg(p, bad) =
          IF p.fet["dsg"] THEN IF p.fet["pdsg"] THEN off ELSE p
          ELSE IF ~p.fet["pdsg"] THEN fresh
          ELSE IF p.pdsgAge > PrechargeTicks THEN main ELSE p
    BY DEF OpenDsg, off, on
  <2>2. Goal(fresh)
    <3>1. /\ fresh.fet = on.fet /\ fresh.chipGate = on.chipGate /\ fresh.gate = on.gate
          /\ fresh.pdsgAge = 0 /\ SameRest(on, fresh) /\ Sound(fresh)
      BY <1>2 DEF Sound, ProtType, SameRest
    <3> HIDE DEF fresh
    <3> QED  BY <1>2, <3>1 DEF Synced, SameRest
  <2>3. Driven(off, main, "dsg", TRUE)  BY <1>0, <1>1, DriveGates
  <2>4. ASSUME p.fet["pdsg"], p.pdsgAge > PrechargeTicks, ~p.active
        PROVE  Goal(main)
    <3>1. off.fet \in [Gate -> BOOLEAN]  BY <1>1 DEF Sound, ProtType
    <3> HIDE DEF main
    <3>2. /\ Sound(main) /\ Synced(main) /\ SameRest(off, main) /\ main.pdsgAge = off.pdsgAge
          /\ main.fet["pdsg"] = FALSE /\ main.chipGate["pdsg"] = FALSE
      BY <1>0, <1>1, <2>3, <3>1 DEF Driven
    <3> QED  BY <1>1, <2>4, <3>2 DEF SameRest
  <2> HIDE DEF fresh, main, Goal
  <2> QED  BY <1>4, <1>5, <2>1, <2>2, <2>4
<1> HIDE DEF Goal
<1>8. Goal(DsgCtrl(p, bad))
  BY <1>4, <1>6, <1>7 DEF DsgCtrl
<1>9. /\ ~p.chipGate["dsg"] /\ DsgCtrl(p, bad).chipGate["dsg"]
           => ~DsgFault(p) \/ p.cur = "chg"
  BY <1>6 DEF DsgCtrl
<1> QED  BY <1>8, <1>9 DEF Goal

\* Closing one gate after the other leaves the pre-discharge off.
LEMMA AllOffGates ==
  ASSUME NEW p, Sound(p), Synced(p), NEW bad, bad \subseteq {"chg"}
  PROVE  LET q == AllOff(p, bad)
         IN  /\ Synced(q) /\ SameRest(p, q) /\ q.pdsgAge = p.pdsgAge
             /\ ~q.chipGate["dsg"] /\ ~q.chipGate["pdsg"]
<1>0. "dsg" \in Gate /\ "pdsg" \in Gate /\ "chg" \in Gate  BY DEF Gate
<1> DEFINE c == FETControl(p, "chg", FALSE, "chg" \notin bad)
           d == FETControl(c, "dsg", FALSE, "dsg" \notin bad)
           e == FETControl(d, "pdsg", FALSE, "pdsg" \notin bad)
<1>1. Sound(c) /\ SameRest(p, c) /\ c.pdsgAge = p.pdsgAge
  <2>1. Sound(c)  BY <1>0, FETControlKeeps DEF Keep
  <2> QED  BY <2>1 DEF FETControl, Sound, ProtType, SameRest
<1> HIDE DEF c
<1>2. /\ Sound(d) /\ SameRest(c, d) /\ d.pdsgAge = c.pdsgAge
      /\ d.gate["dsg"] = FALSE
  <2>1. Sound(d)  BY <1>0, <1>1, FETControlKeeps DEF Keep
  <2> QED  BY <1>0, <1>1, <2>1 DEF FETControl, Sound, ProtType, SameRest
<1> HIDE DEF d
<1>3. /\ SameRest(d, e) /\ e.pdsgAge = d.pdsgAge /\ e.chipGate = e.gate
      /\ e.gate["dsg"] = FALSE /\ e.gate["pdsg"] = FALSE
  BY <1>0, <1>2 DEF FETControl, Sound, ProtType, SameRest
<1>4. AllOff(p, bad) = e  BY DEF AllOff, c, d
<1> HIDE DEF e
<1> QED  BY <1>1, <1>2, <1>3, <1>4 DEF SameRest, Synced

LEMMA MosGates ==
  ASSUME NEW p, Sound(p), Synced(p), ShadowIn(p), NEW bad, bad \subseteq {"chg"}
  PROVE  LET q == MosStep(p, bad)
         IN  /\ Synced(q) /\ ShadowIn(q) /\ q.active = p.active /\ q.diag = p.diag
             /\ ~p.chipGate["dsg"] /\ q.chipGate["dsg"]
                  => /\ p.chipGate["pdsg"] /\ ~p.active /\ p.pdsgAge > PrechargeTicks
                     /\ ~DsgFault(p) \/ p.cur = "chg"
             /\ \/ q.pdsgAge = p.pdsgAge /\ (q.chipGate["pdsg"] => p.chipGate["pdsg"])
                \/ q.pdsgAge = 0
<1> DEFINE q == MosStep(p, bad)
<1>1. CASE p.mode = "diag"
  <2>1. q = p  BY <1>1 DEF MosStep
  <2> QED  BY <2>1
<1>2. CASE p.mode = "off"
  <2>1. q = AllOff(p, bad)  BY <1>2 DEF MosStep
  <2>2. /\ Synced(q) /\ SameRest(p, q) /\ q.pdsgAge = p.pdsgAge
        /\ ~q.chipGate["dsg"] /\ ~q.chipGate["pdsg"]
    BY <2>1, AllOffGates
  <2> HIDE DEF q
  <2> QED  BY <1>2, <2>2 DEF ShadowIn, SameRest, q
<1>3. CASE p.mode \notin {"diag", "off"}
  <2> DEFINE d     == DsgCtrl(p, bad)
             block == ChgFault(d) /\ d.cur # "dsg"
             c     == Drive(d, "chg", ~block, bad)
  <2>1. /\ Sound(d) /\ Synced(d) /\ SameRest(p, d)
        /\ p.active \/ d.fet["pdsg"] = d.chipGate["pdsg"]
        /\ ~p.chipGate["dsg"] /\ d.chipGate["dsg"]
             => /\ p.chipGate["pdsg"] /\ ~p.active /\ p.pdsgAge > PrechargeTicks
                /\ ~DsgFault(p) \/ p.cur = "chg"
        /\ \/ d.pdsgAge = p.pdsgAge /\ (d.chipGate["pdsg"] => p.chipGate["pdsg"])
           \/ d.pdsgAge = 0
    <3>1. CASE p.active  BY <3>1 DEF DsgCtrl, SameRest
    <3>2. CASE ~p.active  BY <1>3, <3>2, DsgGates DEF ShadowIn
    <3> QED  BY <3>1, <3>2
  <2>2. q = IF d.fet["chg"] = block THEN c ELSE d
    <3>1. q = ChgCtrl(d, bad)  BY <1>3 DEF MosStep
    <3> HIDE DEF d, q
    <3>2. ChgCtrl(d, bad) = IF d.fet["chg"] = block THEN c ELSE d  BY DEF ChgCtrl
    <3> QED  BY <3>1, <3>2
  <2> HIDE DEF d, block, q
  <2>3. Driven(d, c, "chg", ~block)
    <3>1. "chg" \in Gate /\ (~block) \in BOOLEAN  BY DEF Gate, block
    <3> QED  BY <2>1, <3>1, DriveGates
  <2>4. /\ Synced(c) /\ SameRest(d, c) /\ c.pdsgAge = d.pdsgAge
        /\ c.fet["pdsg"] = d.fet["pdsg"]
        /\ c.chipGate["pdsg"] = d.chipGate["pdsg"] /\ c.chipGate["dsg"] = d.chipGate["dsg"]
    <3>1. d.fet \in [Gate -> BOOLEAN] /\ "pdsg" \in Gate  BY <2>1 DEF Sound, ProtType, Gate
    <3> HIDE DEF c
    <3> QED  BY <2>3, <3>1 DEF Driven
  <2> HIDE DEF c
  <2> QED  BY <1>3, <2>1, <2>2, <2>4 DEF SameRest, ShadowIn, q
<1> QED  BY <1>1, <1>2, <1>3

\* A diagnosis command drives the main gate and leaves the pre-discharge alone;
\* the cache stays as the chip has it.
LEMMA DiagnosedGates ==
  ASSUME NEW p, Sound(p), Synced(p), NEW c \in Command, NEW bad, bad \subseteq {"chg"}
  PROVE  LET q == Diagnosed(p, c, bad)
         IN  /\ Synced(q) /\ q.chipGate["pdsg"] = p.chipGate["pdsg"]
             /\ q.fet = p.fet /\ q.active = p.active /\ q.mode = p.mode
             /\ q.pdsgAge = p.pdsgAge /\ q.diag = c.diag
             /\ c.diag # "basic" => q.chipGate = p.chipGate
<1> DEFINE q == [p EXCEPT !.diag = c.diag]
           d == FETControl(q, "chg", c.chg, "chg" \notin bad)
           e == FETControl(d, "dsg", c.dsg, "dsg" \notin bad)
<1>0. /\ c.diag \in DiagMode /\ c.chg \in BOOLEAN /\ c.dsg \in BOOLEAN
      /\ "dsg" \in Gate /\ "chg" \in Gate /\ "pdsg" \in Gate /\ "dsg" \notin bad
      /\ ("chg" \notin bad) \in BOOLEAN /\ ("dsg" \notin bad) \in BOOLEAN
  BY DEF Command, Gate
<1>1. /\ Sound(q) /\ q.gate = p.gate /\ q.chipGate = p.chipGate /\ q.fet = p.fet
      /\ q.active = p.active /\ q.mode = p.mode /\ q.pdsgAge = p.pdsgAge
      /\ q.diag = c.diag
  BY <1>0 DEF Sound, ProtType
<1> HIDE DEF q
<1>2. /\ Sound(d) /\ d.fet = q.fet /\ d.active = q.active /\ d.mode = q.mode
      /\ d.pdsgAge = q.pdsgAge /\ d.diag = q.diag
      /\ d.gate = [q.gate EXCEPT !["chg"] = c.chg]
      /\ d.chipGate = IF "chg" \notin bad THEN d.gate ELSE q.chipGate
  <2>1. LET f == FETControl(q, "chg", c.chg, "chg" \notin bad)
        IN  /\ Spares(q, f) /\ f.active = q.active /\ f.flg = q.flg
            /\ f.gate = [q.gate EXCEPT !["chg"] = c.chg]
            /\ f.chipGate = IF "chg" \notin bad THEN f.gate ELSE q.chipGate
    <3>1. Sound(q)  BY <1>1
    <3>2. /\ c.chg \in BOOLEAN /\ "chg" \in Gate
          /\ ("chg" \notin bad) \in BOOLEAN
      BY <1>0
    <3> QED  BY <3>1, <3>2 DEF FETControl, Sound, ProtType, Spares
  <2>2. Sound(d)  BY <1>0, <1>1, FETControlKeeps DEF Keep
  <2> QED  BY <2>1, <2>2 DEF Spares
<1> HIDE DEF d
<1>3. /\ e.fet = d.fet /\ e.active = d.active /\ e.mode = d.mode
      /\ e.pdsgAge = d.pdsgAge /\ e.diag = d.diag
      /\ e.gate = [d.gate EXCEPT !["dsg"] = c.dsg] /\ e.chipGate = e.gate
  <2>1. LET f == FETControl(d, "dsg", c.dsg, "dsg" \notin bad)
        IN  /\ Spares(d, f) /\ f.active = d.active /\ f.flg = d.flg
            /\ f.gate = [d.gate EXCEPT !["dsg"] = c.dsg]
            /\ f.chipGate = IF "dsg" \notin bad THEN f.gate ELSE d.chipGate
    <3>1. Sound(d)  BY <1>2
    <3>2. /\ c.dsg \in BOOLEAN /\ "dsg" \in Gate
          /\ ("dsg" \notin bad) \in BOOLEAN
      BY <1>0
    <3> QED  BY <3>1, <3>2 DEF FETControl, Sound, ProtType, Spares
  <2> QED  BY <1>0, <2>1 DEF Spares
<1> HIDE DEF e
<1>4. /\ e.gate["pdsg"] = p.gate["pdsg"] /\ p.gate["pdsg"] = p.chipGate["pdsg"]
  <2>1. p.gate \in [Gate -> BOOLEAN] /\ d.gate \in [Gate -> BOOLEAN]
    BY <1>2 DEF Sound, ProtType
  <2> QED  BY <1>0, <1>1, <1>2, <1>3, <2>1 DEF Synced
<1>5. Diagnosed(p, c, bad) = IF c.diag = "basic" THEN e ELSE q
  BY DEF Diagnosed, e, d, q
<1>6. CASE c.diag = "basic"
  BY <1>1, <1>2, <1>3, <1>4, <1>5, <1>6 DEF Synced
<1>7. CASE c.diag # "basic"
  BY <1>1, <1>5, <1>7 DEF Synced
<1> QED  BY <1>6, <1>7

-----------------------------------------------------------------------------
(* The two action properties. *)

\* Every release of a pass finds the chip's flag down.
THEOREM ReleasedInChipHolds == Spec => ReleasedInChip
<1>1. IInv /\ [Next]_vars =>
        [phase = "tasks" /\ phase' = "mos" /\ prot'.counted = prot.counted =>
           (prot.flg \ prot'.flg) \cap {"Uv", "Ov", "Ocd2"} \cap FlagsOf(prot'.chipR0) = {}]_vars
  <2> SUFFICES ASSUME IInv, Next, phase = "tasks", phase' = "mos",
                      prot'.counted = prot.counted
               PROVE  (prot.flg \ prot'.flg) \cap ChipFlag \cap FlagsOf(prot'.chipR0) = {}
    BY DEF ChipFlag
  <2>1. CASE AfeSkipped
    BY <2>1 DEF AfeSkipped, Elapse, IInv, Good, Sound, ProtType
  <2>2. CASE AfeStep
    <3>1. PICK s \in Measured, bad \in Failures, late \in Lates : AfeHandle(s, bad, late)
      BY <2>2 DEF AfeStep
    <3>2. s \in Sample /\ late \in SUBSET AfeFlag
      BY InputAssumption DEF Measured
    <3> QED  BY <3>1, <3>2, PassReleases DEF IInv, AfeHandle
  <2> QED
    BY <2>1, <2>2 DEF Next, Stall, MosAct, MosCtrl, AfeTrip, Reset, Settle, Wake, Doze,
                      Rouse, DiagAct, ExecDiagnoseCmd
<1> QED  BY <1>1, Invariance, PTL DEF Spec, ReleasedInChip

\* What PrechargeFirst says of the bus: R81 is read and its discharge gates are
\* written, and AFE_Iicinit is answered.
BusWorks ==
  /\ \A b \in Failures : "fet" \notin b /\ "pdsg" \notin b
  /\ \A b \in GateFailures : b \subseteq {"chg"}
  /\ BootAnswers \subseteq {TRUE}

\* The clock MosCtrl reads is never ahead of the pre-discharge itself, except
\* during a probe of the load, when MosCtrl does not read it.
PreIn ==
  /\ Synced(prot) /\ ShadowIn(prot)
  /\ prot.chipGate["pdsg"] /\ ~prot.active => prot.pdsgAge <= preAge
  /\ prot.pdsgAge <= PreBound

LEMMA PreStep ==
  ASSUME BusWorks, IInv, PreIn, Next
  PROVE  /\ PreIn'
         /\ ~prot.chipGate["dsg"] /\ prot'.chipGate["dsg"]
              => \/ preAge > PrechargeTicks /\ (~DsgFault(prot) \/ prot.cur = "chg")
                 \/ DiagAct
<1>0. /\ PreBound \in Nat /\ preAge \in Nat /\ prot.pdsgAge \in Nat /\ Good(prot)
      /\ PrechargeTicks \in Nat
  BY DelayAssumption DEF PreBound, IInv, Good, Sound, ProtType
<1>1. ASSUME NEW s \in Measured, NEW bad \in Failures, NEW late \in Lates,
             AfeHandle(s, bad, late)
      PROVE  PreIn' /\ prot'.chipGate["dsg"] = prot.chipGate["dsg"]
  <2>1. s \in Sample /\ late \in SUBSET AfeFlag /\ "pdsg" \notin bad /\ "fet" \notin bad
    BY InputAssumption DEF Measured, BusWorks
  <2>2. /\ HoldsGates(prot, prot') /\ prot'.fet["pdsg"] = prot'.chipGate["pdsg"]
        /\ prot'.pdsgAge = Smaller(prot.pdsgAge + 1, PreBound)
    BY <1>0, <1>1, <2>1, PassGates DEF AfeHandle
  <2>3. Synced(prot') /\ prot'.chipGate["dsg"] = prot.chipGate["dsg"] /\ ShadowIn(prot')
    BY <2>2 DEF HoldsGates, PreIn, ShadowIn
  <2>4. ASSUME prot'.chipGate["pdsg"], ~prot'.active
        PROVE  prot'.pdsgAge <= preAge'
    <3>1. prot.chipGate["pdsg"] /\ ~prot.active
      BY <2>2, <2>4 DEF HoldsGates, PreIn
    <3>2. preAge' = Smaller(preAge + 1, PreBound)
      BY <1>1, <2>4, <3>1 DEF AfeHandle, Watch, PdsgOn
    <3> QED  BY <1>0, <2>2, <3>1, <3>2 DEF PreIn, Smaller
  <2> QED  BY <1>0, <2>2, <2>3, <2>4 DEF PreIn, Smaller
<1>2. CASE Stall \/ AfeSkipped
  <2>1. /\ prot'.chipGate = prot.chipGate /\ prot'.gate = prot.gate
        /\ prot'.fet = prot.fet /\ prot'.active = prot.active /\ prot'.mode = prot.mode
        /\ prot'.pdsgAge = Smaller(prot.pdsgAge + 1, PreBound)
    BY <1>0, <1>2 DEF Stall, AfeSkipped, Elapse, Good, Sound, ProtType
  <2>2. ASSUME prot'.chipGate["pdsg"]
        PROVE  preAge' = Smaller(preAge + 1, PreBound)
    BY <1>2, <2>1, <2>2 DEF Stall, AfeSkipped, Watch, PdsgOn
  <2> QED  BY <1>0, <2>1, <2>2 DEF PreIn, Synced, ShadowIn, Smaller
<1>3. ASSUME NEW bad \in GateFailures, MosCtrl(bad)
      PROVE  /\ PreIn'
             /\ ~prot.chipGate["dsg"] /\ prot'.chipGate["dsg"]
                  => preAge > PrechargeTicks /\ (~DsgFault(prot) \/ prot.cur = "chg")
  <2>1. bad \subseteq {"chg"}  BY DEF BusWorks
  <2>2. /\ Synced(prot') /\ ShadowIn(prot') /\ prot'.active = prot.active
        /\ ~prot.chipGate["dsg"] /\ prot'.chipGate["dsg"]
             => /\ prot.chipGate["pdsg"] /\ ~prot.active /\ prot.pdsgAge > PrechargeTicks
                /\ ~DsgFault(prot) \/ prot.cur = "chg"
        /\ \/ prot'.pdsgAge = prot.pdsgAge /\ (prot'.chipGate["pdsg"] => prot.chipGate["pdsg"])
           \/ prot'.pdsgAge = 0
    BY <1>0, <1>3, <2>1, MosGates, ZenonT(60) DEF MosCtrl, PreIn, Good
  <2>3. preAge' = IF prot'.chipGate["pdsg"] /\ prot.chipGate["pdsg"]
                  THEN Smaller(preAge + 0, PreBound) ELSE 0
    BY <1>3 DEF MosCtrl, Watch, PdsgOn
  <2>4. preAge' \in Nat  BY <1>0, <2>3 DEF Smaller
  <2>5. prot'.chipGate["pdsg"] /\ ~prot'.active => prot'.pdsgAge <= preAge'
    BY <1>0, <2>2, <2>3, <2>4 DEF PreIn, Smaller
  <2>6. ~prot.chipGate["dsg"] /\ prot'.chipGate["dsg"] => preAge > PrechargeTicks
    BY <1>0, <2>2 DEF PreIn
  <2> QED  BY <1>0, <2>2, <2>5, <2>6 DEF PreIn
<1>4. ASSUME NEW a \in Trips, AfeTrip(a)
      PROVE  PreIn' /\ prot'.chipGate["dsg"] = prot.chipGate["dsg"]
  <2>1. /\ prot'.chipGate = prot.chipGate /\ prot'.gate = prot.gate
        /\ prot'.fet = prot.fet /\ prot'.active = prot.active /\ prot'.mode = prot.mode
        /\ prot'.pdsgAge = prot.pdsgAge
    BY <1>0, <1>4 DEF AfeTrip, Raise, Good, Sound, ProtType
  <2>2. ASSUME prot'.chipGate["pdsg"]
        PROVE  preAge' = Smaller(preAge + 0, PreBound)
    BY <1>4, <2>1, <2>2 DEF AfeTrip, Watch, PdsgOn
  <2> QED  BY <1>0, <2>1, <2>2 DEF PreIn, Synced, ShadowIn, Smaller
<1>5. ASSUME NEW ok \in BootAnswers, Reset(ok)
      PROVE  PreIn' /\ ~prot'.chipGate["dsg"]
  <2>1. prot' = InitProt  BY <1>5 DEF Reset, BusWorks
  <2> QED  BY <1>0, <2>1 DEF PreIn, Synced, ShadowIn, InitProt, NoGate, Gate
<1>6. CASE Settle \/ Doze \/ Rouse
  BY <1>6 DEF Settle, Doze, Rouse, PreIn
<1>7. ASSUME NEW c \in Commands, NEW bad \in GateFailures, ExecDiagnoseCmd(c, bad)
      PROVE  PreIn' /\ DiagAct
  <2>1. bad \subseteq {"chg"} /\ c \in Command  BY InputAssumption DEF BusWorks
  <2>2. /\ Synced(prot') /\ prot'.chipGate["pdsg"] = prot.chipGate["pdsg"]
        /\ prot'.fet = prot.fet /\ prot'.active = prot.active /\ prot'.mode = prot.mode
        /\ prot'.pdsgAge = prot.pdsgAge
    BY <1>0, <1>7, <2>1, DiagnosedGates DEF ExecDiagnoseCmd, PreIn, Good
  <2>3. ASSUME prot'.chipGate["pdsg"]
        PROVE  preAge' = Smaller(preAge + 0, PreBound)
    BY <1>7, <2>2, <2>3 DEF ExecDiagnoseCmd, Watch, PdsgOn
  <2>4. DiagAct  BY <1>7 DEF DiagAct
  <2> QED  BY <1>0, <2>2, <2>3, <2>4 DEF PreIn, ShadowIn, Smaller
<1>8. ASSUME NEW ok \in BootAnswers, Wake(ok)
      PROVE  PreIn' /\ ~prot'.chipGate["dsg"]
  <2>1. ok /\ ok \in BOOLEAN  BY DEF BusWorks
  <2>2. /\ prot'.gate = [g \in Gate |-> FALSE] /\ prot'.chipGate = [g \in Gate |-> FALSE]
        /\ prot'.fet = prot.fet /\ prot'.active = prot.active /\ prot'.mode = prot.mode
        /\ prot'.pdsgAge = prot.pdsgAge
    BY <1>0, <1>8, <2>1 DEF Wake, Restored, Good, Sound, ProtType
  <2>3. Rested(prot) /\ prot.mode \in Mode /\ prot.fet["pdsg"] \in BOOLEAN
    BY <1>0, <1>8 DEF Wake, Good, Sound, ProtType, Gate
  <2>4. ShadowIn(prot')
    BY <2>2, <2>3 DEF ShadowIn, Rested, Mode, Gate
  <2> QED  BY <1>0, <2>2, <2>4 DEF PreIn, Synced, Gate
<1> QED  BY <1>1, <1>2, <1>3, <1>4, <1>5, <1>6, <1>7, <1>8
         DEF Next, AfeStep, MosAct, DiagAct

\* The clock of the pre-discharge and the FETs stay tied in every reachable state.
LEMMA PreInvariance ==
  ASSUME BusWorks
  PROVE  Spec => [](IInv /\ PreIn)
<1>1. Init => PreIn
  <2> SUFFICES ASSUME Init PROVE PreIn  OBVIOUS
  <2>1. prot = InitProt /\ preAge = 0 /\ PreBound \in Nat
    BY DelayAssumption DEF Init, PreBound
  <2> QED  BY <2>1 DEF PreIn, Synced, ShadowIn, InitProt, NoGate, Gate
<1>2. IInv /\ PreIn /\ [Next]_vars => PreIn'
  <2>1. CASE UNCHANGED vars  BY <2>1 DEF vars, PreIn
  <2> QED  BY <2>1, PreStep
<1> QED  BY <1>1, <1>2, Invariance, PTL DEF Spec

\* The main discharge FET goes on only after 200 ms of pre-discharge or by a
\* diagnosis command, for every setting in which the writes and reads it depends
\* on arrive.
THEOREM PrechargeFirstHolds ==
  ASSUME BusWorks
  PROVE  Spec => PrechargeFirst
<1>1. IInv /\ PreIn /\ [Next]_vars =>
        [~prot.chipGate["dsg"] /\ prot'.chipGate["dsg"]
           => preAge > PrechargeTicks \/ DiagAct]_vars
  BY PreStep
<1> QED  BY <1>1, PreInvariance, PTL DEF Spec, PrechargeFirst

\* Nor does anything else turn it on against a fault that stands: no write carries
\* a stale bit of the cached R81 to the chip.
THEOREM OffWhileFaultedHolds ==
  ASSUME BusWorks
  PROVE  Spec => OffWhileFaulted
<1>1. IInv /\ PreIn /\ [Next]_vars =>
        [~prot.chipGate["dsg"] /\ prot'.chipGate["dsg"]
           => ~DsgFault(prot) \/ prot.cur = "chg" \/ DiagAct]_vars
  BY PreStep
<1> QED  BY <1>1, PreInvariance, PTL DEF Spec, OffWhileFaulted

-----------------------------------------------------------------------------
(* The recovery and MosCtrl implement what the rest of the program relies on. *)

\* One move of the recovery that leaves the main FET alone is one step of
\* ScdRecovery, or none.
LEMMA MovesRefine ==
  ASSUME ScdMoves(prot, prot'), ScdIn(prot), ScdIn(prot'),
         prot.scd \in ScdStates, prot'.active \in BOOLEAN, settled' = settled,
         prot'.chipGate["dsg"] = prot.chipGate["dsg"], prot'.diag = prot.diag
  PROVE  [Recovery!Next]_(Recovery!recoveryVars)
<1> USE DEF StageOf, Recovery!Next, Recovery!recoveryVars, Recovery!Move,
            Recovery!Turn, ScdIn
<1>1. CASE SameScd(prot, prot')
  BY <1>1 DEF SameScd
<1>2. CASE prot.scd = "IDLE" /\ prot'.scd = "COOLDOWN" /\ prot'.retry = 0
  BY <1>2 DEF Recovery!Begin
<1>3. CASE /\ prot.scd = "COOLDOWN" /\ prot'.scd = "PDSG_CHECK"
           /\ prot'.retry = prot.retry
  BY <1>3 DEF Recovery!Probe
<1>4. CASE /\ prot.scd = "PDSG_CHECK" /\ prot'.scd = "DSG_VERIFY"
           /\ prot'.retry = prot.retry
  BY <1>4 DEF Recovery!Carry
<1>5. CASE /\ prot.scd \in {"PDSG_CHECK", "DSG_VERIFY"} /\ prot'.retry = prot.retry + 1
           /\ prot'.scd = IF prot.retry + 1 < ScdMaxRetries THEN "COOLDOWN" ELSE "LATCHED"
  BY <1>5 DEF Recovery!Again
<1>6. CASE /\ prot.scd \in {"COOLDOWN", "DSG_VERIFY", "LATCHED"}
           /\ prot'.scd = "IDLE" /\ prot'.retry = 0
  BY <1>6 DEF Recovery!Clear
<1> QED  BY <1>1, <1>2, <1>3, <1>4, <1>5, <1>6 DEF ScdMoves

\* Where the stage of the recovery stays, what is left to a step is to drive the
\* main FET.
LEMMA DrivesRefine ==
  ASSUME SameScd(prot, prot'), settled' = settled, prot'.diag = prot.diag,
         prot'.chipGate["dsg"] \in BOOLEAN,
         prot'.chipGate["dsg"] => prot.chipGate["dsg"] \/ ~prot.active
  PROVE  Recovery!Next
BY DEF SameScd, StageOf, Recovery!Next, Recovery!Drive

LEMMA RefinesStep ==
  ASSUME BusWorks, IInv, IInv', PreIn, Next
  PROVE  [Recovery!Next]_(Recovery!recoveryVars)
<1>0. /\ Good(prot) /\ ScdIn(prot) /\ ScdIn(prot') /\ prot.scd \in ScdStates
      /\ prot'.active \in BOOLEAN /\ prot'.chipGate["dsg"] \in BOOLEAN
      /\ prot.chipGate["dsg"] \in BOOLEAN
  BY DEF IInv, Good, Sound, ProtType, Gate
<1>1. ASSUME NEW s \in Measured, NEW bad \in Failures, NEW late \in Lates,
             AfeHandle(s, bad, late)
      PROVE  [Recovery!Next]_(Recovery!recoveryVars)
  <2>1. s \in Sample /\ late \in SUBSET AfeFlag /\ "pdsg" \notin bad /\ "fet" \notin bad
    BY InputAssumption DEF Measured, BusWorks
  <2>2. HoldsGates(prot, prot') /\ prot'.diag = prot.diag
    BY <1>0, <1>1, <2>1, PassGates DEF AfeHandle
  <2>3. prot'.chipGate["dsg"] = prot.chipGate["dsg"]
    BY <2>2 DEF HoldsGates, PreIn
  <2>4. ScdMoves(prot, prot') /\ settled' = settled
    BY <1>0, <1>1, <2>1, PassGood DEF AfeHandle
  <2> QED  BY <1>0, <2>2, <2>3, <2>4, MovesRefine
<1>2. CASE Stall \/ AfeSkipped
  <2>1. /\ prot'.chipGate = prot.chipGate /\ prot'.diag = prot.diag
        /\ SameScd(prot, prot') /\ settled' = settled
    BY <1>0, <1>2 DEF Stall, AfeSkipped, Elapse, SameScd, Good, Sound, ProtType
  <2> QED  BY <1>0, <2>1, DrivesRefine
<1>3. ASSUME NEW bad \in GateFailures, MosCtrl(bad)
      PROVE  Recovery!Next
  <2>1. bad \subseteq {"chg"}  BY DEF BusWorks
  <2>2. /\ prot'.diag = prot.diag
        /\ ~prot.chipGate["dsg"] /\ prot'.chipGate["dsg"] => ~prot.active
    BY <1>0, <1>3, <2>1, MosGates DEF MosCtrl, PreIn, Good
  <2>3. SameScd(prot, prot') /\ settled' = settled
    BY <1>0, <1>3, MosHeld DEF MosCtrl, Held
  <2> QED  BY <1>0, <2>2, <2>3, DrivesRefine
<1>4. ASSUME NEW a \in Trips, AfeTrip(a)
      PROVE  Recovery!Next
  <2>1. /\ prot'.chipGate = prot.chipGate /\ prot'.diag = prot.diag
        /\ SameScd(prot, prot') /\ settled' = settled
    BY <1>0, <1>4 DEF AfeTrip, Raise, SameScd, Good, Sound, ProtType
  <2> QED  BY <1>0, <2>1, DrivesRefine
<1>5. ASSUME NEW ok \in BootAnswers, Reset(ok)
      PROVE  Recovery!Restart
  <2>1. prot' = InitProt  BY <1>5 DEF Reset, BusWorks
  <2>2. /\ prot'.scd = "IDLE" /\ prot'.retry = 0 /\ prot'.active = FALSE
        /\ prot'.chipGate["dsg"] = FALSE /\ prot'.diag = "none"
    BY <2>1 DEF InitProt, NoGate, Gate
  <2> QED  BY <1>5, <2>2 DEF Reset, Recovery!Restart, Recovery!Turn, StageOf
<1>6. CASE Doze \/ Rouse
  <2>1. prot' = prot /\ settled' = settled  BY <1>6 DEF Doze, Rouse
  <2> QED  BY <2>1 DEF Recovery!recoveryVars
<1>7. CASE Settle
  <2>1. prot' = prot /\ settled' = TRUE  BY <1>7 DEF Settle
  <2> QED  BY <2>1 DEF Recovery!Next, Recovery!Steady
<1>8. ASSUME NEW c \in Commands, NEW bad \in GateFailures, ExecDiagnoseCmd(c, bad)
      PROVE  Recovery!Diagnose
  <2>1. bad \subseteq {"chg"} /\ c \in Command  BY InputAssumption DEF BusWorks
  <2>2. /\ prot'.diag = c.diag
        /\ c.diag # "basic" => prot'.chipGate = prot.chipGate
    BY <1>0, <1>8, <2>1, DiagnosedGates DEF ExecDiagnoseCmd, PreIn, Good
  <2>3. SameScd(prot, prot')
    BY <1>0, <1>8, <2>1, DiagnosedHeld DEF ExecDiagnoseCmd, Held
  <2>4. ~settled /\ settled' = settled  BY <1>8 DEF ExecDiagnoseCmd
  <2>5. prot'.chipGate["dsg"] # prot.chipGate["dsg"] => prot'.diag = "basic"
    BY <2>2
  <2>6. /\ StageOf(prot'.scd) = StageOf(prot.scd)
        /\ prot'.retry = prot.retry /\ prot'.active = prot.active
    BY <2>3 DEF SameScd
  <2> QED  BY <2>4, <2>5, <2>6 DEF Recovery!Diagnose
<1>9. ASSUME NEW ok \in BootAnswers, Wake(ok)
      PROVE  Recovery!Next
  <2>1. ok /\ ok \in BOOLEAN  BY DEF BusWorks
  <2>2. /\ prot'.chipGate["dsg"] = FALSE /\ prot'.diag = prot.diag /\ settled' = settled
    BY <1>0, <1>9, <2>1 DEF Wake, Restored, Good, Sound, ProtType, Gate
  <2>3. SameScd(prot, prot')
    BY <1>0, <1>9, RestoredHeld DEF Wake, Held
  <2> QED  BY <1>0, <2>2, <2>3, DrivesRefine
<1> QED  BY <1>1, <1>2, <1>3, <1>4, <1>5, <1>6, <1>7, <1>8, <1>9
         DEF Next, AfeStep, MosAct, DiagAct, Recovery!Next

\* ProtectSCD and MosCtrl, with everything that runs around them, are a
\* ScdRecovery: while the probe lasts only a diagnosis command turns the main
\* FET on, rounds are counted, and a probe ends in a verdict or a restart.
THEOREM RecoveryRefinedHolds ==
  ASSUME BusWorks
  PROVE  Spec => RecoveryRefined
<1>1. Init => Recovery!Init
  BY DEF Init, InitProt, NoGate, Gate, Recovery!Init, StageOf
<1>2. IInv /\ PreIn /\ IInv' /\ [Next]_vars => [Recovery!Next]_(Recovery!recoveryVars)
  <2>1. CASE UNCHANGED vars
    BY <2>1 DEF vars, Recovery!recoveryVars
  <2> QED  BY <2>1, RefinesStep
<1> QED  BY <1>1, <1>2, PreInvariance, PTL DEF Spec, RecoveryRefined, Recovery!Spec
=============================================================================
