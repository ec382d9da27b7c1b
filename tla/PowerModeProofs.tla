--------------------------- MODULE PowerModeProofs ---------------------------
(* Safety of the sleep modes, for all delays, wires and lines.               *)
EXTENDS PowerMode, TLAPS

\* The wait for the shallow sleep freezes the last sample, and the deep sleep
\* has been decided on that sample in the turn the wait began.
NapSeen == /\ nap.on /\ ~deep.started /\ pc # "deep" => afe.seen # "low"
           /\ pc \in {"arm", "wfi"} => nap.on /\ ~deep.started

\* After an under-voltage wait the age of sleep_time has reached its limit, so
\* the deep sleep is entered again in the turn that cleared it.
DownHeld == down => /\ deep.started /\ afe.seen = "low" /\ deep.age >= DeepWait
                    /\ pc = "tasks" => deep.on

IInv == TypeOK /\ NapSeen /\ DownHeld

USE DEF Seen, world

LEMMA InitGood == Init => IInv
<1> SUFFICES ASSUME Init PROVE IInv
  OBVIOUS
<1>1. 0 \in 0 .. ShallowWait /\ 0 \in 0 .. DeepWait /\ 0 \in 0 .. Period - 1
  BY WaitAssumption
<1>2. /\ nap \in [on : BOOLEAN, age : 0 .. ShallowWait]
      /\ deep \in [started : BOOLEAN, on : BOOLEAN, age : 0 .. DeepWait, cmd : BOOLEAN]
      /\ afe \in [num : 0 .. Period - 1, due : BOOLEAN, seen : Seen]
      /\ fet \in [shadow : BOOLEAN, out : BOOLEAN, up : BOOLEAN]
      /\ link \in [inbox : BOOLEAN, quiet : BOOLEAN]
  BY <1>1 DEF Init
<1>3. TypeOK
  BY <1>2 DEF Init, TypeOK
<1>4. NapSeen /\ DownHeld
  BY DEF Init, NapSeen, DownHeld
<1> QED
  BY <1>3, <1>4 DEF IInv

LEMMA AfeType ==
  ASSUME afe \in [num : 0 .. Period - 1, due : BOOLEAN, seen : Seen]
  PROVE  /\ Skipped(afe) \in [num : 0 .. Period - 1, due : BOOLEAN, seen : Seen]
         /\ Skipped(afe).seen = afe.seen
         /\ Counted(afe) \in [num : 0 .. Period - 1, due : BOOLEAN, seen : Seen]
         /\ Counted(afe).seen = afe.seen
<1>1. /\ Skipped(afe) \in [num : 0 .. Period - 1, due : BOOLEAN, seen : Seen]
      /\ Skipped(afe).seen = afe.seen
  BY DEF Skipped
<1>2. CASE Full(afe)
  <2>1. Counted(afe) = [afe EXCEPT !.due = FALSE, !.num = 0]
    BY <1>2 DEF Counted
  <2>2. 0 \in 0 .. Period - 1
    BY WaitAssumption
  <2> QED
    BY <1>1, <2>1, <2>2
<1>3. CASE ~Full(afe)
  <2>1. Counted(afe) = [afe EXCEPT !.due = FALSE, !.num = afe.num + 1]
    BY <1>3 DEF Counted
  <2>2. afe.num + 1 \in 0 .. Period - 1
    BY <1>3, WaitAssumption DEF Full
  <2> QED
    BY <1>1, <2>1, <2>2
<1> QED
  BY <1>2, <1>3

LEMMA AfeGood == IInv /\ AfeHandle => IInv'
<1> SUFFICES ASSUME IInv, AfeHandle PROVE IInv'
  OBVIOUS
<1> USE DEF IInv, TypeOK, NapSeen, DownHeld
<1>1. CASE Sample
  <2>1. PICK s \in Samples, ok \in Works :
           /\ afe' = [Counted(afe) EXCEPT !.seen = IF ok THEN s ELSE @]
           /\ fet' = [fet EXCEPT !.shadow = IF ok THEN fet.out ELSE @]
    BY <1>1 DEF Sample
  <2>2. s \in Seen
    BY DEF Samples
  <2>3. /\ afe' \in [num : 0 .. Period - 1, due : BOOLEAN, seen : Seen]
        /\ fet' \in [shadow : BOOLEAN, out : BOOLEAN, up : BOOLEAN]
    BY <2>1, <2>2, AfeType
  <2>4. ~nap.on /\ ~deep.on /\ pc = "tasks"
    BY <1>1 DEF Sample, Frozen
  <2> QED
    BY <2>3, <2>4 DEF AfeHandle
<1>2. CASE ~Sample
  <2>1. pc = "tasks" /\ fet' = fet /\ afe' \in {afe, Skipped(afe), Counted(afe)}
    BY <1>2 DEF AfeHandle
  <2>2. /\ afe' \in [num : 0 .. Period - 1, due : BOOLEAN, seen : Seen]
        /\ afe'.seen = afe.seen
    BY <2>1, AfeType
  <2> QED
    BY <2>1, <2>2 DEF AfeHandle
<1> QED
  BY <1>1, <1>2

LEMMA GateType ==
  ASSUME TypeOK, NEW on \in BOOLEAN, NEW ok \in BOOLEAN
  PROVE  Gate(on, ok) \in [shadow : BOOLEAN, out : BOOLEAN, up : BOOLEAN]
<1>1. fet \in [shadow : BOOLEAN, out : BOOLEAN, up : BOOLEAN]
  BY DEF TypeOK
<1>2. (IF ok THEN on ELSE fet.out) \in BOOLEAN
  BY <1>1
<1>3. Gate(on, ok) = [fet EXCEPT !.out = IF ok THEN on ELSE fet.out]
  BY DEF Gate
<1> QED
  BY <1>1, <1>2, <1>3

LEMMA WorksType == Works \subseteq BOOLEAN
BY DEF Works

LEMMA MsgGood == IInv /\ ExecMsgProcess => IInv'
<1> SUFFICES ASSUME IInv, ExecMsgProcess PROVE IInv'
  OBVIOUS
<1>1. CASE UNCHANGED <<link, deep, fet>>
  BY <1>1 DEF ExecMsgProcess, IInv, TypeOK, NapSeen, DownHeld
<1>2. CASE ~UNCHANGED <<link, deep, fet>>
  <2>1. PICK c \in Command : deep' = Commanded(deep, c) /\ fet' \in Diagnosed(c)
    BY <1>2 DEF ExecMsgProcess, Command
  <2>2. /\ deep' \in [started : BOOLEAN, on : BOOLEAN, age : 0 .. DeepWait, cmd : BOOLEAN]
        /\ deep'.started = deep.started /\ deep'.age = deep.age
    BY <2>1 DEF Commanded, IInv, TypeOK
  <2>3. fet' \in [shadow : BOOLEAN, out : BOOLEAN, up : BOOLEAN]
    <3>1. CASE fet' = fet
      BY <3>1 DEF IInv, TypeOK
    <3>2. CASE \E on \in BOOLEAN, ok \in Works : fet' = Gate(on, ok)
      BY <3>2, GateType, WorksType DEF IInv
    <3> QED
      BY <2>1, <3>1, <3>2 DEF Diagnosed
  <2>4. link' = [inbox |-> FALSE, quiet |-> FALSE]
    BY <1>2 DEF ExecMsgProcess
  <2>5. link' \in [inbox : BOOLEAN, quiet : BOOLEAN]
    BY <2>4
  <2> QED
    BY <2>2, <2>3, <2>5 DEF ExecMsgProcess, IInv, TypeOK, NapSeen, DownHeld
<1> QED
  BY <1>1, <1>2

LEMMA MosGood == IInv /\ MosCtrl => IInv'
<1> SUFFICES ASSUME IInv, MosCtrl PROVE IInv'
  OBVIOUS
<1>1. PICK on \in BOOLEAN, ok \in BOOLEAN :
         fet' \in {fet, Gate(on, ok), [Gate(on, ok) EXCEPT !.shadow = on]}
  BY WorksType DEF MosCtrl
<1>2. fet' \in [shadow : BOOLEAN, out : BOOLEAN, up : BOOLEAN]
  BY <1>1, GateType DEF IInv, TypeOK
<1>3. link' \in [inbox : BOOLEAN, quiet : BOOLEAN]
  BY DEF MosCtrl, CanTxRx, IInv, TypeOK
<1> QED
  BY <1>2, <1>3 DEF MosCtrl, IInv, TypeOK, NapSeen, DownHeld

\* The restoring of the peripherals ends the nap and keeps the sample.
LEMMA RestoreGood ==
  ASSUME TypeOK, Sleep_PeripheralRestore
  PROVE  /\ fet' \in [shadow : BOOLEAN, out : BOOLEAN, up : BOOLEAN]
         /\ afe' \in [num : 0 .. Period - 1, due : BOOLEAN, seen : Seen]
         /\ afe'.seen = afe.seen
         /\ nap' \in [on : BOOLEAN, age : 0 .. ShallowWait] /\ ~nap'.on
         /\ flags' = {}
BY DEF TypeOK, Sleep_PeripheralRestore

LEMMA ShallowGood == IInv /\ Shallow_Sleep => IInv'
<1> SUFFICES ASSUME IInv, Shallow_Sleep PROVE IInv'
  OBVIOUS
<1> USE DEF IInv, TypeOK, NapSeen, DownHeld
<1>0. pc = "shallow" /\ UNCHANGED <<deep, link, lines, settled, down>>
  BY DEF Shallow_Sleep
<1>1. CASE ShallowBarred
  <2>1. CASE nap.on
    BY <1>0, <1>1, <2>1, RestoreGood DEF ShallowBarred
  <2>2. CASE ~nap.on
    BY <1>0, <1>1, <2>2 DEF ShallowBarred
  <2> QED
    BY <2>1, <2>2
<1>2. CASE ShallowAwake
  <2>1. nap' \in [on : BOOLEAN, age : 0 .. ShallowWait] /\ pc' = "deep"
    BY <1>2 DEF ShallowAwake
  <2> QED
    BY <1>0, <1>2, <2>1 DEF ShallowAwake
<1>3. CASE ShallowWaiting
  <2>0. 0 \in 0 .. ShallowWait
    BY WaitAssumption
  <2>1. CASE ~nap.on /\ nap' = [on |-> TRUE, age |-> 0]
    <3>1. nap' \in [on : BOOLEAN, age : 0 .. ShallowWait]
      BY <2>0, <2>1
    <3> QED
      BY <1>0, <1>3, <2>1, <3>1 DEF ShallowWaiting
  <2>2. CASE UNCHANGED nap
    BY <1>0, <1>3, <2>2 DEF ShallowWaiting
  <2> QED
    BY <1>3, <2>1, <2>2 DEF ShallowWaiting
<1>4. CASE ~Barred /\ ShallowEnters
  <2>1. fet' \in [shadow : BOOLEAN, out : BOOLEAN, up : BOOLEAN]
    BY <1>4 DEF ShallowEnters
  <2>2. nap.on /\ ~deep.started /\ pc' = "arm"
    BY <1>4 DEF ShallowEnters, Barred
  <2> QED
    BY <1>0, <1>4, <2>1, <2>2 DEF ShallowEnters
<1> QED
  BY <1>1, <1>2, <1>3, <1>4 DEF Shallow_Sleep

LEMMA WakeGood == IInv /\ Wake => IInv'
<1> SUFFICES ASSUME IInv, Wake PROVE IInv'
  OBVIOUS
<1>1. TypeOK /\ Sleep_PeripheralRestore
  BY DEF Wake, IInv
<1> QED
  BY <1>1, RestoreGood DEF Wake, IInv, TypeOK, NapSeen, DownHeld

LEMMA DeepGood == IInv /\ Deep_Sleep => IInv'
<1> SUFFICES ASSUME IInv, Deep_Sleep PROVE IInv'
  OBVIOUS
<1> USE DEF IInv, TypeOK, NapSeen, DownHeld
<1>0. pc = "deep" /\ pc' = "tasks" /\ UNCHANGED <<nap, afe, link, world>>
  BY DEF Deep_Sleep
<1>1. CASE WantsDeep /\ DeepEnters
  <2>1. /\ deep.started /\ ~deep.on
        /\ deep' = [deep EXCEPT !.on = TRUE, !.cmd = FALSE]
        /\ down' = (down \/ (afe.seen = "low" /\ deep.age >= DeepWait))
        /\ fet' \in [shadow : BOOLEAN, out : BOOLEAN, up : BOOLEAN]
    BY <1>1 DEF DeepEnters
  <2>2. /\ deep' \in [started : BOOLEAN, on : BOOLEAN, age : 0 .. DeepWait, cmd : BOOLEAN]
        /\ deep'.started /\ deep'.on /\ deep'.age = deep.age
    BY <2>1
  <2>3. /\ down' \in BOOLEAN
        /\ down' => afe.seen = "low" /\ deep.age >= DeepWait
    BY <2>1, ZenonT(30)
  <2> QED
    BY <1>0, <2>1, <2>2, <2>3
<1>2. CASE /\ WantsDeep /\ ~deep.started
           /\ deep' = [deep EXCEPT !.started = TRUE, !.age = 0]
           /\ UNCHANGED <<fet, down>>
  <2>1. 0 \in 0 .. DeepWait
    BY WaitAssumption
  <2>2. deep' \in [started : BOOLEAN, on : BOOLEAN, age : 0 .. DeepWait, cmd : BOOLEAN]
    <3>1. deep' = [deep EXCEPT !.started = TRUE, !.age = 0]
      BY <1>2
    <3>2. deep \in [started : BOOLEAN, on : BOOLEAN, age : 0 .. DeepWait, cmd : BOOLEAN]
      OBVIOUS
    <3> HIDE DEF IInv, TypeOK, NapSeen, DownHeld
    <3> QED
      BY <2>1, <3>1, <3>2
  <2>3. ~down /\ down' = down /\ fet' = fet
    BY <1>2
  <2>4. ~deep.started /\ deep'.started
    BY <1>2
  <2>5. NapSeen' /\ DownHeld'
    BY <1>0, <2>3, <2>4
  <2>6. TypeOK'
    BY <1>0, <2>2, <2>3
  <2> QED
    BY <2>5, <2>6
<1>3. CASE /\ WantsDeep /\ deep.started
           /\ deep.on \/ (deep.age < DeepWait /\ ~deep.cmd)
           /\ UNCHANGED <<deep, fet, down>>
  BY <1>0, <1>3, WaitAssumption
<1>4. CASE /\ ~WantsDeep
           /\ deep' = [deep EXCEPT !.started = FALSE, !.on = FALSE]
           /\ UNCHANGED <<fet, down>>
  BY <1>0, <1>4 DEF WantsDeep
<1> QED
  BY <1>1, <1>2, <1>3, <1>4 DEF Deep_Sleep

LEMMA TickGood == IInv /\ Tick => IInv'
<1> SUFFICES ASSUME IInv, Tick PROVE IInv'
  OBVIOUS
<1> USE DEF IInv, TypeOK, NapSeen, DownHeld
<1>1. afe' \in [num : 0 .. Period - 1, due : BOOLEAN, seen : Seen] /\ afe'.seen = afe.seen
  BY DEF Tick
<1>2. nap' \in [on : BOOLEAN, age : 0 .. ShallowWait] /\ nap'.on = nap.on
  BY WaitAssumption DEF Tick, Smaller
<1>3. /\ deep' \in [started : BOOLEAN, on : BOOLEAN, age : 0 .. DeepWait, cmd : BOOLEAN]
      /\ deep'.on = deep.on /\ deep'.started = deep.started
      /\ deep.age >= DeepWait => deep'.age >= DeepWait
  BY WaitAssumption DEF Tick, Smaller
<1>4. link' \in [inbox : BOOLEAN, quiet : BOOLEAN]
  BY DEF Tick
<1> QED
  BY <1>1, <1>2, <1>3, <1>4 DEF Tick

LEMMA WorldGood ==
  /\ IInv /\ ClearWake => IInv'
  /\ IInv /\ Due => IInv'
  /\ IInv /\ Receive => IInv'
  /\ \A w \in Wires : IInv /\ Edge(w) => IInv'
  /\ \A l \in Lines : IInv /\ Plug(l) => IInv'
  /\ IInv /\ Reset => IInv'
  /\ IInv /\ Settle => IInv'
<1> USE DEF IInv, TypeOK, NapSeen, DownHeld
<1>1. IInv /\ ClearWake => IInv'
  BY DEF ClearWake
<1>2. IInv /\ Due => IInv'
  <2> SUFFICES ASSUME IInv, Due PROVE IInv'
    OBVIOUS
  <2>1. afe' \in [num : 0 .. Period - 1, due : BOOLEAN, seen : Seen] /\ afe'.seen = afe.seen
    BY DEF Due
  <2> QED
    BY <2>1 DEF Due
<1>3. IInv /\ Receive => IInv'
  <2> SUFFICES ASSUME IInv, Receive PROVE IInv'
    OBVIOUS
  <2>1. link' \in [inbox : BOOLEAN, quiet : BOOLEAN] /\ flags' \subseteq Wires
    BY WireAssumption DEF Receive
  <2> QED
    BY <2>1 DEF Receive
<1>4. \A w \in Wires : IInv /\ Edge(w) => IInv'
  BY DEF Edge
<1>5. \A l \in Lines : IInv /\ Plug(l) => IInv'
  BY DEF Plug
<1>6. IInv /\ Reset => IInv'
  <2> SUFFICES ASSUME IInv, Reset PROVE IInv'
    OBVIOUS
  <2>1. PICK up \in BOOLEAN : Ram(up)
    BY DEF Reset
  <2>2. afe' \in [num : 0 .. Period - 1, due : BOOLEAN, seen : Seen]
    BY <2>1, WaitAssumption DEF Ram
  <2>3. nap' \in [on : BOOLEAN, age : 0 .. ShallowWait]
    BY <2>1, WaitAssumption DEF Ram
  <2>4. deep' \in [started : BOOLEAN, on : BOOLEAN, age : 0 .. DeepWait, cmd : BOOLEAN]
    BY <2>1, WaitAssumption DEF Ram
  <2>5. fet' \in [shadow : BOOLEAN, out : BOOLEAN, up : BOOLEAN]
    BY <2>1 DEF Ram
  <2>6. ~nap'.on /\ ~down' /\ pc' = "tasks"
    BY <2>1 DEF Ram
  <2> QED
    BY <2>1, <2>2, <2>3, <2>4, <2>5, <2>6 DEF Ram, Reset
<1>7. IInv /\ Settle => IInv'
  BY DEF Settle
<1> QED
  BY <1>1, <1>2, <1>3, <1>4, <1>5, <1>6, <1>7

LEMMA NextKeeps == IInv /\ [Next]_vars => IInv'
<1> SUFFICES ASSUME IInv, [Next]_vars PROVE IInv'
  OBVIOUS
<1>1. CASE Turn
  BY <1>1, AfeGood, MsgGood, MosGood, ShallowGood, WorldGood, WakeGood, DeepGood DEF Turn
<1>2. CASE Due \/ Tick \/ Receive \/ Reset \/ Settle
  BY <1>2, WorldGood, TickGood
<1>3. CASE \E w \in Wires \ {"Uart"} : Edge(w)
  BY <1>3, WorldGood
<1>4. CASE \E l \in Lines : Plug(l)
  BY <1>4, WorldGood
<1>5. CASE UNCHANGED vars
  BY <1>5 DEF vars, IInv, TypeOK, NapSeen, DownHeld
<1> QED
  BY <1>1, <1>2, <1>3, <1>4, <1>5 DEF Next

\* The inductive invariant of the sleep modes.
THEOREM Invariance == Spec => []IInv
<1> USE DEF Spec
<1>1. Init => IInv
  BY InitGood
<1>2. IInv /\ [Next]_vars => IInv'
  BY NextKeeps
<1> QED
  BY <1>1, <1>2, PTL

\* Every reachable state of Port.c's sleep modes has its type.
THEOREM TypeCorrect == Spec => []TypeOK
<1>1. IInv => TypeOK
  BY DEF IInv
<1> QED
  BY <1>1, Invariance, PTL

\* A pack seen in under-voltage is never in the shallow sleep.
THEOREM SleepsAboveUvHolds == Spec => []SleepsAboveUv
<1>1. IInv => SleepsAboveUv
  BY DEF IInv, NapSeen, SleepsAboveUv
<1> QED
  BY <1>1, Invariance, PTL

\* Deep sleep for under-voltage lasts until the supply goes.
THEOREM DeepSleepLastsHolds == Spec => []DeepSleepLasts
<1>1. IInv => DeepSleepLasts
  BY DEF IInv, DownHeld, DeepSleepLasts
<1> QED
  BY <1>1, Invariance, PTL
=============================================================================
