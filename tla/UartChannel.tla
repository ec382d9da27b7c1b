------------------------------ MODULE UartChannel ------------------------------
(***************************************************************************)
(* The 485 channel: a Modbus master, the interrupt that receives and sends *)
(* byte by byte (Usart_Com.c), the receive time-out counted down by        *)
(* SysTick, and the loop that takes a request from the buffer, answers it, *)
(* clears the buffer and, when nothing was received, goes on with a log    *)
(* transfer (App.c, ModbusPro.c).  The loop may be kept by a save of       *)
(* parameters and by the delay before the reset that follows it; a save on *)
(* another channel resets the MCU as well, at any moment of this one.  An  *)
(* idle pack falls asleep, only bytes received renew its patience, and the *)
(* sleep switches the channel off in the middle of whatever it sends.      *)
(*                                                                         *)
(* A tick is the time of a byte on the wire.  The steps of the loop take   *)
(* none, but ticks may pass between any two of them.  Of a frame only its  *)
(* kind, its bytes' positions and its length matter.                       *)
(***************************************************************************)
EXTENDS Naturals, Sequences

CONSTANTS
  ReqLen,       \* bytes of a request
  FrameLen,     \* bytes of each frame sent back
  RxMax,        \* UART_RD_MAX_SIZE
  Need,         \* Need_ms: silence that ends a request
  PumpMax,      \* bound: ticks between two visits of the loop to the channel
  SaveMax,      \* bound: ticks a save, or coming back from the sleep, takes
  ResetDelay,   \* ticks between the reply to a write that was saved and the reset
  LogInterval,  \* LOG_SEND_INTERVAL_MS
  MaxLog,       \* bound: records of a transfer
  Hush, Nap,    \* the 6 s without bytes and SHALLOW_SLEEP_TIMEOUT
  Patience,     \* ticks of silence after which the master repeats its request
  MaxNoise      \* bound: bytes, frames and records spoilt, and resets by other channels

Kinds  == {"read", "write", "log", "other"}
Frames == {"read", "write", "log", "end", "err"}

ASSUME LenAssumption == /\ ReqLen \in Nat \ {0}
                        /\ FrameLen \in [Frames -> Nat \ {0}]
ASSUME RxAssumption == RxMax \in Nat /\ Need \in Nat
ASSUME TimeAssumption == {PumpMax, SaveMax, ResetDelay, LogInterval, Patience,
                           Hush, Nap} \subseteq Nat
ASSUME LoadAssumption == MaxLog \in Nat /\ MaxNoise \in Nat

VARIABLES
  master,   \* what it is at, the kind of its request, bytes sent, silence heard
  rx,       \* rbuf and Timeout_ms
  tx,       \* wbuf (whose frame), w_num, w_index, and the transmit interrupt
  pc,       \* where the loop is in the channel's turn, or in the sleep
  timer,    \* ticks left of a save, of Delay_ms or of the restore after the sleep
  pump,     \* ticks since the loop last came by
  log,      \* s_aLogSend: frames left, the end frame included; ticks since the last
  quiet,    \* ticks since the loop last found bytes, up to the sleep (g_u64LastCommMs)
  torn,     \* history: a sleep cut into what was being sent or received
  noise     \* what was spoilt so far

uartVars == <<master, rx, tx, pc, timer, pump, log, quiet, torn, noise>>

Request(k) == [i \in 1..ReqLen |-> <<k, i>>]

\* A byte of no request.
Noise == <<"read", 0>>

\* The frame that answers a request; a transfer is over with its end frame.
Answer == [k \in Kinds |-> CASE k = "log" -> "end" [] k = "other" -> "err" [] OTHER -> k]

NoBytes  == [buf |-> <<>>, age |-> 0]
Silent   == [frame |-> "read", num |-> 0, idx |-> 0, on |-> FALSE]
NoLog    == [left |-> 0, age |-> LogInterval]

UartInit == /\ master = [st |-> "idle", kind |-> "read", sent |-> 0, wait |-> 0]
            /\ rx = NoBytes /\ tx = Silent /\ log = NoLog
            /\ pc = "idle" /\ timer = 0 /\ pump = 0 /\ noise = 0
            /\ quiet = 0 /\ torn = FALSE

-------------------------------------------------------------------------------
(* The interrupts. *)

\* The USART has no clock: what is on the line is lost, what is to be sent waits.
Deaf == pc \in {"asleep", "waking"}

\* A frame is on the line.
OnAir == tx.on /\ ~Deaf

\* Nothing is in hand in either direction.
Rested == rx.buf = <<>> /\ ~tx.on /\ log.left = 0

\* Mutant: the end of the buffer is not looked at.
ReceivedAlways(bytes) ==
  IF bytes # <<>> THEN [buf |-> rx.buf \o bytes, age |-> Need]
  ELSE [rx EXCEPT !.age = IF @ = 0 THEN 0 ELSE @ - 1]

\* The receive interrupt stores a byte and starts the time-out anew.
Received(bytes) ==
  IF bytes # <<>> /\ Len(rx.buf) < RxMax
  THEN [buf |-> rx.buf \o bytes, age |-> Need]
  ELSE [rx EXCEPT !.age = IF @ = 0 THEN 0 ELSE @ - 1]

\* The transmit interrupt sends a byte, or stops behind the last.
Transmitted ==
  IF ~OnAir THEN tx
  ELSE IF tx.idx < tx.num THEN [tx EXCEPT !.idx = @ + 1]
  ELSE [tx EXCEPT !.on = FALSE, !.idx = 0, !.num = 0]

\* Its last byte is being sent.
FrameEnds == OnAir /\ tx.idx + 1 = tx.num

\* SCI_GeneralSendParamOut: wbuf and w_num are replaced, w_index goes on.
Send(f) == tx' = [tx EXCEPT !.frame = f, !.num = FrameLen[f], !.on = TRUE]

-------------------------------------------------------------------------------
(* The master: it asks, listens until it is answered, and repeats itself.      *)

Ask(k) == /\ master.st = "idle"
          /\ master' = [st |-> "sending", kind |-> k, sent |-> 0, wait |-> 0]
          /\ UNCHANGED <<rx, tx, pc, timer, pump, log, quiet, torn, noise>>

\* The master one tick later; heard tells that a frame ending now arrives unspoilt.
Listened(heard) ==
  CASE master.st = "idle" -> master
    [] master.st = "sending" ->
         IF master.sent + 1 = ReqLen THEN [master EXCEPT !.st = "waiting", !.sent = 0]
         ELSE [master EXCEPT !.sent = @ + 1]
    [] master.st = "waiting" ->
         IF FrameEnds /\ heard /\ tx.frame = Answer[master.kind]
         THEN [master EXCEPT !.st = "idle", !.wait = 0]
         ELSE IF OnAir THEN [master EXCEPT !.wait = 0]
         ELSE IF master.wait < Patience THEN [master EXCEPT !.wait = @ + 1]
         ELSE [master EXCEPT !.st = IF master.kind = "other" THEN "idle" ELSE "sending",
                             !.wait = 0]

\* What may arrive in a tick, and the number of things spoilt by it.
Arrivals == IF master.st = "sending"
            THEN {[bytes |-> <<<<master.kind, master.sent + 1>>>>, cost |-> 0],
                  [bytes |-> <<Noise>>, cost |-> 1], [bytes |-> <<>>, cost |-> 1]}
            ELSE {[bytes |-> <<>>, cost |-> 0], [bytes |-> <<Noise>>, cost |-> 1]}

\* The loop waits for the end of a save, of Delay_ms or of the restore after a sleep.
Waits == pc \in {"saving", "delay", "drowsing", "waking"}

\* Ticks pass while the loop waits or sleeps, and PumpMax of them at most between its
\* visits.  A byte ends the sleep (the EXTI line of RS485_RX).
Tick == /\ IF Waits THEN timer > 0 ELSE pc = "asleep" \/ pump < PumpMax
        /\ \E a \in Arrivals, heard \in BOOLEAN :
             /\ noise' = noise + a.cost + (IF heard THEN 0 ELSE 1)
             /\ noise' <= MaxNoise
             /\ rx' = Received(IF Deaf THEN <<>> ELSE a.bytes)
             /\ master' = Listened(heard)
             /\ IF pc = "asleep" /\ a.bytes # <<>>
                THEN pc' = "waking" /\ timer' \in 1..SaveMax
                ELSE UNCHANGED pc /\ timer' = IF Waits THEN timer - 1 ELSE timer
        /\ tx' = Transmitted
        /\ pump' = IF Waits \/ pc = "asleep" THEN pump ELSE pump + 1
        /\ log' = [log EXCEPT !.age = IF @ < LogInterval THEN @ + 1 ELSE @]
        /\ quiet' = IF quiet < Hush + Nap THEN quiet + 1 ELSE quiet
        /\ UNCHANGED torn

-------------------------------------------------------------------------------
(* The loop: ExecMainMsgProcess and ExecUartMsgProcess. *)

\* recv_isOk: reads and writes are known by their head and their length, damaged or not.
RecvIsOk == Len(rx.buf) = ReqLen /\ rx.buf[1] \in {<<"read", 1>>, <<"write", 1>>}

\* Mutant: only a request known by its length is taken.
ComeByLength == RecvIsOk

\* A request has ended.
IsEnd == rx.age = 0 \/ RecvIsOk

\* Mutant: the transfer is not over with its end frame.
LogMemorySendPollEndless(readable) ==
  IF log.left > 0 /\ log.age = LogInterval
  THEN /\ log' = [left |-> IF log.left = 1 THEN 1 ELSE log.left - 1, age |-> 0]
       /\ IF log.left = 1 THEN Send("end") /\ UNCHANGED noise
          ELSE IF readable THEN Send("log") /\ UNCHANGED noise
          ELSE noise < MaxNoise /\ noise' = noise + 1 /\ UNCHANGED tx
  ELSE UNCHANGED <<log, tx, noise>>

\* LogMemorySendPoll: a frame every interval; a record that cannot be read is skipped.
LogMemorySendPoll(readable) ==
  IF log.left > 0 /\ log.age = LogInterval
  THEN /\ log' = [left |-> log.left - 1, age |-> 0]
       /\ IF log.left = 1 THEN Send("end") /\ UNCHANGED noise
          ELSE IF readable THEN Send("log") /\ UNCHANGED noise
          ELSE noise < MaxNoise /\ noise' = noise + 1 /\ UNCHANGED tx
  ELSE UNCHANGED <<log, tx, noise>>

\* Mutant: bytes received do not renew the time of the last communication.
PumpNoRenewal ==
  /\ pc = "idle" /\ pump' = 0
  /\ IF rx.buf = <<>>
     THEN (\E readable \in BOOLEAN : LogMemorySendPoll(readable)) /\ UNCHANGED pc
     ELSE pc' = (IF IsEnd THEN "exec" ELSE "idle") /\ UNCHANGED <<log, tx, noise>>
  /\ torn' = (torn /\ ~Rested)
  /\ UNCHANGED <<master, rx, timer, quiet>>

\* ExecMainMsgProcess; with nothing in hand the traces of a sleep are gone.
Pump == /\ pc = "idle" /\ pump' = 0
        /\ IF rx.buf = <<>>
           THEN /\ \E readable \in BOOLEAN : LogMemorySendPoll(readable)
                /\ UNCHANGED <<pc, quiet>>
           ELSE /\ pc' = IF IsEnd THEN "exec" ELSE "idle"
                /\ quiet' = 0 /\ UNCHANGED <<log, tx, noise>>
        /\ torn' = (torn /\ ~Rested)
        /\ UNCHANGED <<master, rx, timer>>

\* ExecModbusMasterProcess: what is not a whole request has no CRC and no answer.
\* A function code it does not know leaves l_byResult unset: it is answered with an
\* error frame or not, or with two, of which the second replaces the first at once.
Exec ==
  /\ pc = "exec"
  /\ \/ /\ rx.buf = Request("read")
        /\ Send("read") /\ pc' = "clear" /\ UNCHANGED <<timer, log>>
     \/ /\ rx.buf = Request("write")    \* not the last register of a block
        /\ Send("write") /\ pc' = "clear" /\ UNCHANGED <<timer, log>>
     \/ /\ rx.buf = Request("write")    \* byEEMemoryWrite
        /\ pc' = "saving" /\ timer' \in 1..SaveMax /\ UNCHANGED <<tx, log>>
     \/ /\ rx.buf = Request("log")
        /\ log' \in [left : 1..(MaxLog + 1), age : {LogInterval}]
        /\ pc' = "clear" /\ UNCHANGED <<tx, timer>>
     \/ /\ rx.buf = Request("other")
        /\ Send("err") \/ UNCHANGED tx
        /\ pc' = "clear" /\ UNCHANGED <<timer, log>>
     \/ /\ \A k \in Kinds : rx.buf # Request(k)
        /\ pc' = "clear" /\ UNCHANGED <<tx, timer, log>>
  /\ UNCHANGED <<master, rx, pump, quiet, torn, noise>>

\* Mutant: the reset does not wait for the reply to be sent.
SavedAtOnce == /\ pc = "saving" /\ timer = 0
               /\ Send("write")
               /\ pc' = "delay" /\ timer' = 0
               /\ UNCHANGED <<master, rx, pump, log, quiet, torn, noise>>

\* The save is over: the reply, and the delay before the reset if all went well.
Saved == /\ pc = "saving" /\ timer = 0
         /\ Send("write")
         /\ \/ pc' = "delay" /\ timer' = ResetDelay
            \/ pc' = "clear" /\ UNCHANGED timer
         /\ UNCHANGED <<master, rx, pump, log, quiet, torn, noise>>

Restarted == /\ rx' = NoBytes /\ tx' = Silent /\ log' = NoLog
             /\ pc' = "idle" /\ pump' = 0 /\ quiet' = 0 /\ torn' = FALSE

\* NVIC_SystemReset.
Reset == /\ pc = "delay" /\ timer = 0
         /\ Restarted
         /\ UNCHANGED <<master, timer, noise>>

\* The reset after a save on another channel, or updata_ble's: nobody asks this one.
ResetElsewhere == /\ pc = "idle" /\ noise < MaxNoise
                  /\ Restarted /\ noise' = noise + 1
                  /\ UNCHANGED <<master, timer>>

\* The buffer is cleared, with whatever arrived since the request was looked at.
Clear == /\ pc = "clear"
         /\ rx' = [rx EXCEPT !.buf = <<>>]
         /\ pc' = "idle"
         /\ UNCHANGED <<master, tx, timer, pump, log, quiet, torn, noise>>

-------------------------------------------------------------------------------
(* Shallow_Sleep: when the pack neither charges nor discharges, no phone is      *)
(* connected and no channel received a byte, it saves the run block and sleeps.  *)

\* What is in hand is not looked at.
Drowse == /\ pc = "idle" /\ quiet = Hush + Nap
          /\ pc' = "drowsing" /\ timer' \in 1..SaveMax
          /\ torn' = (torn \/ ~Rested)
          /\ UNCHANGED <<master, rx, tx, pump, log, quiet, noise>>

\* Sleep_PeripheralDisable, and the loop of WFI.
Sleep == /\ pc = "drowsing" /\ timer = 0
         /\ pc' = "asleep"
         /\ torn' = (torn \/ ~Rested)
         /\ UNCHANGED <<master, rx, tx, timer, pump, log, quiet, noise>>

\* Another source ends the sleep: CAN, the debug UART or the analogue front end.
Rouse == /\ pc = "asleep"
         /\ pc' = "waking" /\ timer' \in 1..SaveMax
         /\ UNCHANGED <<master, rx, tx, pump, log, quiet, torn, noise>>

\* Sleep_PeripheralRestore is over; the 6 s are still past, so the next nap is due
\* SHALLOW_SLEEP_TIMEOUT from here.
Wake == /\ pc = "waking" /\ timer = 0
        /\ pc' = "idle" /\ pump' = 0 /\ quiet' = Hush
        /\ UNCHANGED <<master, rx, tx, timer, log, torn, noise>>

\* What the loop does once its turn has come.
Loop == Pump \/ Exec \/ Saved \/ Reset \/ Clear \/ Sleep \/ Wake

UartNext == Tick \/ Loop \/ ResetElsewhere \/ Drowse \/ Rouse \/ \E k \in Kinds : Ask(k)

UartSpec == UartInit /\ [][UartNext]_uartVars /\ WF_uartVars(Tick) /\ WF_uartVars(Loop)

-------------------------------------------------------------------------------
(* Properties. *)

\* Type: the transmit index stays within the longest frame, the receive index within RxMax.
UartTypeOK ==
  /\ master \in [st : {"idle", "sending", "waiting"}, kind : Kinds,
                 sent : 0..(ReqLen - 1), wait : 0..Patience]
  /\ rx \in [buf : Seq(Kinds \X (0..ReqLen)), age : 0..Need]
  /\ Len(rx.buf) <= RxMax
  /\ tx.frame \in Frames /\ tx.on \in BOOLEAN
  /\ tx.num \in {0} \union {FrameLen[f] : f \in Frames}
  /\ tx.idx \in Nat /\ \E f \in Frames : tx.idx <= FrameLen[f]
  /\ pc \in {"idle", "exec", "saving", "delay", "clear", "drowsing", "asleep", "waking"}
  /\ timer \in Nat /\ pump \in 0..PumpMax
  /\ log \in [left : 0..(MaxLog + 1), age : 0..LogInterval]
  /\ quiet \in 0..(Hush + Nap) /\ torn \in BOOLEAN
  /\ noise \in 0..MaxNoise

\* What a disturbance may cost a transfer: an interval, and the turns of the loop in
\* which what was received is taken and dropped.
Turn == LogInterval + Need + 3 * PumpMax

\* A record is sent before the next is due and a reply before the reset; the master
\* is patient: it waits longer than the loop takes to answer it, and longer than a
\* transfer may be silent.
Timing ==
  /\ FrameLen["log"] < LogInterval
  /\ FrameLen["write"] <= ResetDelay
  /\ Patience > Need + 2 * PumpMax + SaveMax
  /\ Patience > (MaxNoise + 1) * Turn

\* A master that repeats itself keeps the pack awake, whatever the loop is at (Answered).
KeepsAwake == Nap > Patience + ReqLen + SaveMax + ResetDelay + 2 * PumpMax

\* With these delays a frame handed to the interrupt is sent to its last byte: no other
\* reply, log record or reset of this channel takes its place (SCI_GeneralSendParamOut,
\* LogMemorySendPoll, Delay_ms before NVIC_SystemReset).  Two things may: a reset that
\* another channel asked for, and a sleep that did not look at what was in hand, until
\* nothing of it is left.
WholeFrames ==
  [][tx.on /\ ~torn => \/ /\ tx'.on /\ tx'.frame = tx.frame
                          /\ tx'.num = tx.num /\ tx'.idx >= tx.idx
                       \/ ~tx'.on /\ tx.idx = tx.num
                       \/ ResetElsewhere]_uartVars

\* With these delays the master never asks while the channel sends: on the 485 line,
\* which both sides share, a request meets no reply, log record or end frame
\* (LogMemorySendPoll, ExecMainMsgProcess), as long as no sleep has cut into them.
OneTalks == master.st = "sending" /\ ~torn => ~tx.on \/ tx.idx = tx.num

\* The sleep switches the channel off under a log transfer, never under the reply to a
\* request that arrived: looking at bytes puts it off (g_u64LastCommMs, Shallow_Sleep).
RepliesSpared ==
  tx.on /\ pc \in {"drowsing", "asleep", "waking"} => tx.frame \in {"log", "end"}

\* A request that is repeated is answered in the end, whatever was received before it,
\* wherever in the loop's turn it arrived and whatever was cleared, reset or slept over
\* with it.  A log transfer may be longer than the pack stays awake: then it is cut and
\* asked for again without end.
Answered ==
  /\ \A k \in {"read", "write"} :
       (master.st = "waiting" /\ master.kind = k) ~> (master.st = "idle")
  /\ (master.st = "waiting" /\ master.kind = "log")
       ~> (master.st = "idle" \/ []<>(pc = "asleep"))
===============================================================================
