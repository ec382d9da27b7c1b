------------------------------ MODULE PowerMode ------------------------------
(***************************************************************************)
(* The sleep modes of the pack (Port.c) inside the turns of the main loop. *)
(* Shallow_Sleep waits for a minute without current or communication, puts *)
(* the AFE chip to sleep and halts the MCU until a wake-up line or flag;   *)
(* Deep_Sleep waits three minutes in under-voltage, or for a command, and  *)
(* shuts the chip down.  From the start of either, AFE_Handle takes no     *)
(* more samples.                                                           *)
(*                                                                         *)
(* A turn: AFE_Handle, the message pumps, MosCtrl, Shallow_Sleep,          *)
(* Deep_Sleep.  Of a sample the model keeps what the sleep modes look at:  *)
(* current flows, or the pack is idle, or it is idle and below             *)
(* wCellVolMin ("low").  A tick is the unit of the delays.                 *)
(***************************************************************************)
EXTENDS Integers, FiniteSets

CONSTANTS
  Period,       \* calls of AFE_Handle to a sample
  ShallowWait,  \* SHALLOW_SLEEP_TIMEOUT, in ticks
  DeepWait,     \* the 180 s of Deep_Sleep, in ticks
  Wires,        \* lines with a wake-up interrupt: "Uart" and others
  Lines         \* lines polled in the sleep loop

ASSUME WaitAssumption == {Period, ShallowWait, DeepWait} \subseteq Nat \ {0}
ASSUME WireAssumption == "Uart" \in Wires

Seen    == {"flow", "idle", "low"}
Command == {"none", "read", "shut", "unshut"}

VARIABLES
  pc,        \* the place in the turn; "arm" and "wfi" are inside Shallow_Sleep
  nap,       \* shallow_sleeping and the age of Shallow_time
  deep,      \* deepsleep_started, deep_sleeping, the age of sleep_time, bBm2
  afe,       \* AFE_Handle: its call counter, whether it is due, the last sample
  fet,       \* the shadow flag dsg, the output of the chip, whether the chip is up
  link,      \* a frame is in a receive buffer; nothing received for six seconds
  flags,     \* g_bWakeUart and its likes
  lines,     \* environment: the active lines among Lines
  settled,   \* environment: a healthy pack, a working bus, no BLE, no commands or diagnosis
  down       \* history: deep sleep was entered because of under-voltage

vars == <<pc, nap, deep, afe, fet, link, flags, lines, settled, down>>
world == <<flags, lines, settled>>

-----------------------------------------------------------------------------
(* AFE_Handle. *)

\* Mutants: deep sleep does not stop it; a call while it is stopped starts the
\* count again; it samples one call late.
FrozenNap == nap.on
Frozen    == nap.on \/ deep.on

SkippedForgetful(a) == [a EXCEPT !.due = FALSE, !.num = 0]
Skipped(a) == [a EXCEPT !.due = FALSE]

FullLate(a) == a.num + 1 > Period
Full(a) == a.num + 1 >= Period

Counted(a) == [a EXCEPT !.due = FALSE, !.num = IF Full(a) THEN 0 ELSE @ + 1]

\* What a pass may see: no current without an output to draw it from, and
\* a settled pack is not low.
MaySee(s) == s = "flow" => fet.out
Samples   == {s \in Seen : settled => MaySee(s) /\ s # "low"}

\* Transfers succeed or not; not with a chip that is shut down.
Works == IF fet.up THEN IF settled THEN {TRUE} ELSE BOOLEAN ELSE {FALSE}

\* A sample, and Fet_Status.
Sample ==
  /\ pc = "tasks" /\ afe.due /\ ~Frozen /\ Full(afe)
  /\ \E s \in Samples, ok \in Works :
       /\ afe' = [Counted(afe) EXCEPT !.seen = IF ok THEN s ELSE @]
       /\ fet' = [fet EXCEPT !.shadow = IF ok THEN fet.out ELSE @]

AfeHandle ==
  /\ \/ Sample
     \/ /\ pc = "tasks" /\ UNCHANGED fet
        /\ \/ ~afe.due /\ afe' = afe
           \/ afe.due /\ Frozen /\ afe' = Skipped(afe)
           \/ afe.due /\ ~Frozen /\ ~Full(afe) /\ afe' = Counted(afe)
  /\ pc' = "comm"
  /\ UNCHANGED <<nap, deep, link, down, world>>

-----------------------------------------------------------------------------
(* The message pumps, run after AFE_Handle: a frame is answered and may be  *)
(* a command.                                                               *)
Commanded(d, c) == [d EXCEPT !.on  = @ /\ c # "read",
                             !.cmd = (@ \/ c = "shut") /\ c # "unshut"]

\* A gate command: one that fails leaves the output as it was.
Gate(on, ok) == [fet EXCEPT !.out = IF ok THEN on ELSE @]

\* A diagnosis command drives the output past the shadow flag.
Diagnosed(c) == IF c \in {"shut", "unshut"}
                THEN {Gate(on, ok) : on \in BOOLEAN, ok \in Works} ELSE {fet}

ExecMsgProcess ==
  /\ pc = "comm" /\ pc' = "mos"
  /\ \/ ~link.inbox /\ UNCHANGED <<link, deep, fet>>
     \/ /\ link.inbox
        /\ link' = [inbox |-> FALSE, quiet |-> FALSE]
        /\ \E c \in (IF settled THEN {"none"} ELSE Command) :
             deep' = Commanded(deep, c) /\ fet' \in Diagnosed(c)
  /\ UNCHANGED <<nap, afe, down, world>>

\* A CAN frame is communication too.
CanTxRx == link' \in {link, [link EXCEPT !.quiet = FALSE]}

\* MosCtrl: a protection may want the output off; a diagnosis mode leaves it
\* alone or, eBmPowerOff, opens it past the shadow flag.
MosCtrl ==
  /\ pc = "mos" /\ pc' = "shallow"
  /\ \E ok \in Works :
       \/ \E on \in (IF settled THEN {TRUE} ELSE BOOLEAN) :
            fet' = IF fet.shadow = on THEN fet ELSE [Gate(on, ok) EXCEPT !.shadow = on]
       \/ ~settled /\ fet' = Gate(FALSE, ok)
  /\ CanTxRx
  /\ UNCHANGED <<nap, deep, afe, down, world>>

-----------------------------------------------------------------------------
(* Shallow_Sleep.                                                           *)

\* Sleep_PeripheralRestore: AFE_Iicinit resets the chip, which takes so long
\* that AFE_Handle is due; it may or may not revive one that is shut down.
\* The shadow flag stays as it was.
Sleep_PeripheralRestore ==
  /\ \E up \in (IF fet.up THEN {TRUE} ELSE BOOLEAN) :
       fet' = [fet EXCEPT !.up = up, !.out = FALSE]
  /\ afe' = [afe EXCEPT !.due = TRUE]
  /\ nap' = [nap EXCEPT !.on = FALSE]
  /\ flags' = {}

\* Mutant: under-voltage does not bar the sleep.
BarredNever == FALSE
Barred == deep.started

\* conn: BLE is connected.
Drowsy(conn) == afe.seen # "flow" /\ ~conn /\ link.quiet

\* Deep sleep has begun: only the wait for the shallow one is undone.
ShallowBarred ==
  /\ Barred
  /\ IF nap.on THEN Sleep_PeripheralRestore ELSE UNCHANGED <<fet, afe, nap, flags>>
  /\ pc' = "deep"

ShallowAwake ==
  /\ \E conn \in (IF settled THEN {FALSE} ELSE BOOLEAN) : ~Drowsy(conn)
  /\ nap' = [nap EXCEPT !.on = FALSE]
  /\ pc' = "deep"
  /\ UNCHANGED <<afe, fet, flags>>

ShallowWaiting ==
  /\ Drowsy(FALSE)
  /\ \/ ~nap.on /\ nap' = [on |-> TRUE, age |-> 0]
     \/ nap.on /\ nap.age < ShallowWait /\ UNCHANGED nap
  /\ pc' = "deep"
  /\ UNCHANGED <<afe, fet, flags>>

\* Sleep_WakeupConfig and Sleep_PeripheralDisable; the sleeping chip may
\* release its outputs.
ShallowEnters ==
  /\ Drowsy(FALSE) /\ nap.on /\ nap.age >= ShallowWait
  /\ \E o \in {fet.out, FALSE} : fet' = [fet EXCEPT !.out = o]
  /\ pc' = "arm"
  /\ UNCHANGED <<nap, afe, flags>>

Shallow_Sleep ==
  /\ pc = "shallow"
  /\ \/ ShallowBarred
     \/ ~Barred /\ (ShallowAwake \/ ShallowWaiting \/ ShallowEnters)
  /\ UNCHANGED <<deep, link, lines, settled, down>>

\* The flags are cleared once the wake-up interrupts are armed.
ClearWake ==
  /\ pc = "arm" /\ pc' = "wfi"
  /\ flags' = {}
  /\ UNCHANGED <<nap, deep, afe, fet, link, lines, settled, down>>

\* Mutant: the debug UART does not wake.
WokenDeaf == flags \ {"Uart"} # {} \/ lines # {}
Woken     == flags # {} \/ lines # {}

\* Sleep_WakeEventCheck found something.  (A flag it leaves set is cleared
\* before the next sleep looks at it.)
Wake ==
  /\ pc = "wfi" /\ Woken
  /\ Sleep_PeripheralRestore
  /\ pc' = "deep"
  /\ UNCHANGED <<deep, link, lines, settled, down>>

-----------------------------------------------------------------------------
(* Deep_Sleep. *)
WantsDeep == afe.seen = "low" \/ deep.cmd

DeepEnters ==
  /\ deep.started /\ ~deep.on /\ (deep.age >= DeepWait \/ deep.cmd)
  /\ deep' = [deep EXCEPT !.on = TRUE, !.cmd = FALSE]
  /\ down' = (down \/ (afe.seen = "low" /\ deep.age >= DeepWait))
  /\ \E ok \in Works : fet' = IF ok THEN [fet EXCEPT !.up = FALSE, !.out = FALSE] ELSE fet

Deep_Sleep ==
  /\ pc = "deep" /\ pc' = "tasks"
  /\ \/ WantsDeep /\ DeepEnters
     \/ /\ WantsDeep /\ ~deep.started
        /\ deep' = [deep EXCEPT !.started = TRUE, !.age = 0]
        /\ UNCHANGED <<fet, down>>
     \/ /\ WantsDeep /\ deep.started
        /\ deep.on \/ (deep.age < DeepWait /\ ~deep.cmd)
        /\ UNCHANGED <<deep, fet, down>>
     \/ /\ ~WantsDeep
        /\ deep' = [deep EXCEPT !.started = FALSE, !.on = FALSE]
        /\ UNCHANGED <<fet, down>>
  /\ UNCHANGED <<nap, afe, link, world>>

-----------------------------------------------------------------------------
(* Time and the environment. *)
Smaller(a, b) == IF a < b THEN a ELSE b

\* AFE_Handle's 20 ms are over.
Due == /\ pc = "tasks"
       /\ afe' = [afe EXCEPT !.due = TRUE]
       /\ UNCHANGED <<pc, nap, deep, fet, link, down, world>>

\* A tick, more than six seconds.
\* Ages stop at the delay they are compared with.
Tick ==
  /\ pc = "tasks"
  /\ afe' = [afe EXCEPT !.due = TRUE]
  /\ nap'  = [nap EXCEPT !.age = IF nap.on THEN Smaller(@ + 1, ShallowWait) ELSE @]
  /\ deep' = [deep EXCEPT !.age = IF deep.started THEN Smaller(@ + 1, DeepWait) ELSE @]
  /\ link' = [link EXCEPT !.quiet = TRUE]
  /\ UNCHANGED <<pc, fet, down, world>>

\* A frame arrives, perhaps when the pumps of the turn are past or not due; in
\* the sleep only the debug UART listens.
Receive ==
  /\ pc \in {"tasks", "shallow", "arm", "wfi"}
  /\ link' = [link EXCEPT !.inbox = TRUE]
  /\ flags' = IF pc \in {"arm", "wfi"} THEN flags \cup {"Uart"} ELSE flags
  /\ UNCHANGED <<pc, nap, deep, afe, fet, lines, settled, down>>

\* An edge on another wake-up wire.
Edge(w) ==
  /\ pc \in {"arm", "wfi"}
  /\ flags' = flags \cup {w}
  /\ UNCHANGED <<pc, nap, deep, afe, fet, link, lines, settled, down>>

Plug(l) ==
  /\ ~settled /\ pc \in {"tasks", "wfi"}
  /\ lines' = IF l \in lines THEN lines \ {l} ELSE lines \cup {l}
  /\ UNCHANGED <<pc, nap, deep, afe, fet, link, flags, settled, down>>

Ram(up) ==
  /\ pc' = "tasks"
  /\ nap' = [on |-> FALSE, age |-> 0]
  /\ deep' = [started |-> FALSE, on |-> FALSE, age |-> 0, cmd |-> FALSE]
  /\ afe' = [num |-> 0, due |-> TRUE, seen |-> "idle"]
  /\ fet' = [shadow |-> FALSE, out |-> FALSE, up |-> up]
  /\ link' = [inbox |-> FALSE, quiet |-> FALSE]
  /\ flags' = {} /\ down' = FALSE

\* Power-on, or the hardware watchdog; the chip is reset by AFE_Iicinit.
Reset ==
  /\ ~settled
  /\ \E up \in (IF fet.up THEN {TRUE} ELSE BOOLEAN) : Ram(up)
  /\ UNCHANGED <<lines, settled>>

Settle == /\ ~settled /\ settled' = TRUE
          /\ UNCHANGED <<pc, nap, deep, afe, fet, link, flags, lines, down>>

Init ==
  /\ pc = "tasks"
  /\ nap = [on |-> FALSE, age |-> 0]
  /\ deep = [started |-> FALSE, on |-> FALSE, age |-> 0, cmd |-> FALSE]
  /\ afe = [num |-> 0, due |-> TRUE, seen |-> "idle"]
  /\ fet = [shadow |-> FALSE, out |-> FALSE, up |-> TRUE]
  /\ link = [inbox |-> FALSE, quiet |-> FALSE]
  /\ flags = {} /\ lines = {} /\ settled = FALSE /\ down = FALSE

Turn == AfeHandle \/ ExecMsgProcess \/ MosCtrl \/ Shallow_Sleep
        \/ ClearWake \/ Wake \/ Deep_Sleep

Next == \/ Turn
        \/ Due \/ Tick
        \/ Receive
        \/ \E w \in Wires \ {"Uart"} : Edge(w)
        \/ \E l \in Lines : Plug(l)
        \/ Reset
        \/ Settle

\* The loop runs on and time passes.  A tick is enabled between turns only, so
\* it needs strong fairness.
Fairness == WF_vars(Turn) /\ SF_vars(Tick)

Spec == Init /\ [][Next]_vars /\ Fairness

-----------------------------------------------------------------------------
(* What is promised. *)
TypeOK ==
  /\ pc \in {"tasks", "comm", "mos", "shallow", "arm", "wfi", "deep"}
  /\ nap \in [on : BOOLEAN, age : 0 .. ShallowWait]
  /\ deep \in [started : BOOLEAN, on : BOOLEAN, age : 0 .. DeepWait, cmd : BOOLEAN]
  /\ afe \in [num : 0 .. Period - 1, due : BOOLEAN, seen : Seen]
  /\ fet \in [shadow : BOOLEAN, out : BOOLEAN, up : BOOLEAN]
  /\ link \in [inbox : BOOLEAN, quiet : BOOLEAN]
  /\ flags \subseteq Wires /\ lines \subseteq Lines
  /\ {settled, down} \subseteq BOOLEAN

\* A pack seen in under-voltage only ever goes to deep sleep (Port.c: the
\* comment at the head of Shallow_Sleep), though the shallow one waits for a
\* minute and the deep one is decided after it in the turn.
SleepsAboveUv == pc \in {"arm", "wfi"} => afe.seen # "low" /\ ~deep.started

\* Deep sleep for under-voltage lasts until the supply goes: a master that
\* reads registers clears deep_sleeping, but no turn begins with it clear and
\* no sample is taken.
DeepSleepLasts == down => /\ deep.started /\ afe.seen = "low"
                          /\ pc = "tasks" => deep.on

\* A frame on the debug UART is read, asleep or not: the wake-up flag of one
\* that came just before the sleep is lost, but not that of the next, if the
\* master does not leave a sleeping pack alone for ever.
MasterHeard ==
  []<>(pc = "wfi" => "Uart" \in flags) => (link.inbox ~> ~link.inbox)

\* While a line stays active (a load, a charger), the discharge output comes
\* back again and again, although each wake-up resets the chip and leaves the
\* shadow flag as it was; unless the pack is in deep sleep or its chip is shut
\* down for good.
OutputReturns ==
  <>(settled /\ lines # {})
    => []<>fet.out \/ <>[](deep.started \/ ~fet.up)

=============================================================================
