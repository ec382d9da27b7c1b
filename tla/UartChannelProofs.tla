-------------------------- MODULE UartChannelProofs --------------------------
(* The type of the channel for all lengths, delays and bounds, and, with    *)
(* the delays of Timing, that every frame is sent to its last byte: what is *)
(* received while a frame is sent is noise, so nothing else is handed to    *)
(* the transmit interrupt before it has ended.  A sleep that cut into what  *)
(* was in hand (torn) suspends the argument; it starts anew when nothing is *)
(* in hand any more.                                                        *)
EXTENDS UartChannel, TLAPS

Bytes == Kinds \X (0..ReqLen)

\* The loop is in Shallow_Sleep.
Down == {"drowsing", "asleep", "waking"}

Places == {"idle", "exec", "saving", "delay", "clear"} \union Down

MasterType == [st : {"idle", "sending", "waiting"}, kind : Kinds,
               sent : 0..(ReqLen - 1), wait : 0..Patience]
RxType(r) == r \in [buf : Seq(Bytes), age : 0..Need] /\ Len(r.buf) <= RxMax
TxType(t) == /\ t = [frame |-> t.frame, num |-> t.num, idx |-> t.idx, on |-> t.on]
             /\ t.frame \in Frames /\ t.on \in BOOLEAN
             /\ t.num \in {0} \union {FrameLen[f] : f \in Frames}
             /\ t.idx \in Nat /\ \E f \in Frames : t.idx <= FrameLen[f]
LogType == [left : 0..(MaxLog + 1), age : 0..LogInterval]

IInv == UartTypeOK /\ TxType(tx)

LEMMA Ranges == /\ 0 \in 0..(ReqLen - 1) /\ 0 \in 0..Patience /\ 0 \in 0..Need
                /\ 0 \in 0..PumpMax /\ 0 \in 0..MaxNoise /\ 0 \in 0..(MaxLog + 1)
                /\ LogInterval \in 0..LogInterval /\ 0 \in 0..LogInterval
                /\ 0 \in 0..(Hush + Nap) /\ Hush \in 0..(Hush + Nap)
BY LenAssumption, RxAssumption, TimeAssumption, LoadAssumption

LEMMA ShortFrame == \E f \in Frames : 0 <= FrameLen[f]
BY LenAssumption DEF Frames

LEMMA NoiseByte == Noise \in Bytes /\ \A k \in Kinds, i \in 1..ReqLen : <<k, i>> \in Bytes
BY LenAssumption DEF Noise, Bytes, Kinds

LEMMA UartInitGood == UartInit => IInv
<1> SUFFICES ASSUME UartInit PROVE IInv
  OBVIOUS
<1>1. master \in MasterType
  BY Ranges DEF UartInit, MasterType, Kinds
<1>2. RxType(rx)
  BY Ranges, RxAssumption DEF UartInit, NoBytes, RxType
<1>3. TxType(tx)
  BY ShortFrame DEF UartInit, Silent, TxType, Frames
<1>4. log \in LogType
  BY Ranges DEF UartInit, NoLog, LogType
<1>5. pc = "idle" /\ timer \in Nat /\ pump \in 0..PumpMax /\ noise \in 0..MaxNoise
  BY Ranges DEF UartInit
<1>6. quiet \in 0..(Hush + Nap) /\ torn \in BOOLEAN
  BY Ranges DEF UartInit
<1> QED
  BY <1>1, <1>2, <1>3, <1>4, <1>5, <1>6
     DEF IInv, UartTypeOK, MasterType, RxType, TxType, LogType, Bytes

\* A step keeps the type if it keeps those of the parts.
LEMMA Parts ==
  ASSUME master' \in MasterType, RxType(rx'), TxType(tx'), log' \in LogType,
         pc' \in Places, timer' \in Nat, pump' \in 0..PumpMax,
         quiet' \in 0..(Hush + Nap), torn' \in BOOLEAN, noise' \in 0..MaxNoise
  PROVE  IInv'
BY DEF IInv, UartTypeOK, MasterType, RxType, TxType, LogType, Bytes, Places, Down

LEMMA Typed ==
  ASSUME IInv
  PROVE  /\ master \in MasterType /\ RxType(rx) /\ TxType(tx) /\ log \in LogType
         /\ pc \in Places /\ timer \in Nat /\ pump \in 0..PumpMax
         /\ quiet \in 0..(Hush + Nap) /\ torn \in BOOLEAN /\ noise \in 0..MaxNoise
BY DEF IInv, UartTypeOK, MasterType, RxType, TxType, LogType, Bytes, Places, Down

\* A byte is stored only where there is room for it.
LEMMA ReceivedType ==
  ASSUME RxType(rx), NEW bytes, bytes = <<>> \/ (\E x \in Bytes : bytes = <<x>>)
  PROVE  RxType(Received(bytes))
<1>1. CASE bytes # <<>> /\ Len(rx.buf) < RxMax
  <2>1. PICK x \in Bytes : bytes = <<x>>
    BY <1>1
  <2>2. Received(bytes) = [buf |-> rx.buf \o <<x>>, age |-> Need]
    BY <1>1, <2>1 DEF Received
  <2>3. /\ rx.buf \o <<x>> \in Seq(Bytes) /\ Len(rx.buf \o <<x>>) = Len(rx.buf) + 1
        /\ Len(rx.buf) \in Nat
    BY <2>1 DEF RxType
  <2> QED
    BY <1>1, <2>2, <2>3, RxAssumption DEF RxType
<1>2. CASE ~(bytes # <<>> /\ Len(rx.buf) < RxMax)
  <2>1. Received(bytes) = [rx EXCEPT !.age = IF @ = 0 THEN 0 ELSE @ - 1]
    BY <1>2 DEF Received
  <2>2. (IF rx.age = 0 THEN 0 ELSE rx.age - 1) \in 0..Need
    BY RxAssumption DEF RxType
  <2> QED
    BY <2>1, <2>2 DEF RxType
<1> QED
  BY <1>1, <1>2

LEMMA SendType ==
  ASSUME TxType(tx), NEW f \in Frames, Send(f)
  PROVE  TxType(tx')
BY DEF TxType, Send

LEMMA TransmittedType == TxType(tx) => TxType(Transmitted)
<1> SUFFICES ASSUME TxType(tx) PROVE TxType(Transmitted)
  OBVIOUS
<1>1. CASE ~OnAir
  BY <1>1 DEF Transmitted
<1>2. CASE OnAir /\ tx.idx < tx.num
  <2>1. Transmitted = [frame |-> tx.frame, num |-> tx.num, idx |-> tx.idx + 1, on |-> tx.on]
    BY <1>2 DEF Transmitted, TxType
  <2>2. PICK f \in Frames : tx.num = FrameLen[f]
    BY <1>2 DEF TxType
  <2>3. tx.idx + 1 \in Nat /\ tx.idx + 1 <= FrameLen[f]
    BY <1>2, <2>2, LenAssumption DEF TxType
  <2> QED
    BY <2>1, <2>3 DEF TxType
<1>3. CASE OnAir /\ ~(tx.idx < tx.num)
  <2>1. Transmitted = [frame |-> tx.frame, num |-> 0, idx |-> 0, on |-> FALSE]
    BY <1>3 DEF Transmitted, TxType
  <2> QED
    BY <2>1, ShortFrame DEF TxType
<1> QED
  BY <1>1, <1>2, <1>3 DEF TxType

LEMMA ListenedType ==
  ASSUME master \in MasterType, NEW heard \in BOOLEAN
  PROVE  Listened(heard) \in MasterType
<1>1. CASE master.st = "idle"
  BY <1>1 DEF Listened
<1>2. CASE master.st = "sending"
  <2>1. Listened(heard) = IF master.sent + 1 = ReqLen
                          THEN [master EXCEPT !.st = "waiting", !.sent = 0]
                          ELSE [master EXCEPT !.sent = @ + 1]
    BY <1>2 DEF Listened
  <2>2. CASE master.sent + 1 = ReqLen
    BY <2>1, <2>2, Ranges DEF MasterType
  <2>3. CASE master.sent + 1 # ReqLen
    <3>1. master.sent + 1 \in 0..(ReqLen - 1)
      BY <2>3, LenAssumption DEF MasterType
    <3> QED
      BY <2>1, <2>3, <3>1 DEF MasterType
  <2> QED
    BY <2>2, <2>3
<1>3. CASE master.st = "waiting"
  <2>1. PICK st \in {"idle", "sending", "waiting"}, w \in 0..Patience :
          Listened(heard) = [st |-> st, kind |-> master.kind, sent |-> master.sent, wait |-> w]
    <3>1. CASE FrameEnds /\ heard /\ tx.frame = Answer[master.kind]
      <4>1. Listened(heard) = [master EXCEPT !.st = "idle", !.wait = 0]
        BY <1>3, <3>1 DEF Listened
      <4>2. Listened(heard)
              = [st |-> "idle", kind |-> master.kind, sent |-> master.sent, wait |-> 0]
        BY <1>3, <4>1 DEF MasterType
      <4> QED
        BY <4>2, Ranges
    <3>2. CASE ~(FrameEnds /\ heard /\ tx.frame = Answer[master.kind]) /\ OnAir
      <4>1. Listened(heard) = [master EXCEPT !.wait = 0]
        BY <1>3, <3>2 DEF Listened
      <4>2. Listened(heard)
              = [st |-> "waiting", kind |-> master.kind, sent |-> master.sent, wait |-> 0]
        BY <1>3, <4>1 DEF MasterType
      <4> QED
        BY <4>2, Ranges
    <3>3. CASE /\ ~(FrameEnds /\ heard /\ tx.frame = Answer[master.kind]) /\ ~OnAir
               /\ master.wait < Patience
      <4>1. Listened(heard) = [master EXCEPT !.wait = master.wait + 1]
        BY <1>3, <3>3 DEF Listened
      <4>2. master.wait + 1 \in 0..Patience
        BY <3>3, TimeAssumption DEF MasterType
      <4> QED
        BY <1>3, <4>1, <4>2 DEF MasterType
    <3>4. CASE /\ ~(FrameEnds /\ heard /\ tx.frame = Answer[master.kind]) /\ ~OnAir
               /\ ~(master.wait < Patience)
      <4>1. Listened(heard)
              = [master EXCEPT !.st = IF master.kind = "other" THEN "idle" ELSE "sending",
                               !.wait = 0]
        BY <1>3, <3>4 DEF Listened
      <4> QED
        BY <4>1, Ranges DEF MasterType
    <3> QED
      BY <3>1, <3>2, <3>3, <3>4
  <2> QED
    BY <2>1 DEF MasterType
<1> QED
  BY <1>1, <1>2, <1>3 DEF MasterType

LEMMA TickGood == IInv /\ Tick => IInv'
<1> SUFFICES ASSUME IInv, Tick PROVE IInv'
  OBVIOUS
<1>1. PICK a \in Arrivals, heard \in BOOLEAN :
        /\ noise' = noise + a.cost + (IF heard THEN 0 ELSE 1)
        /\ noise' <= MaxNoise
        /\ rx' = Received(IF Deaf THEN <<>> ELSE a.bytes)
        /\ master' = Listened(heard)
        /\ IF pc = "asleep" /\ a.bytes # <<>>
           THEN pc' = "waking" /\ timer' \in 1..SaveMax
           ELSE UNCHANGED pc /\ timer' = IF Waits THEN timer - 1 ELSE timer
  BY DEF Tick
<1>2. a.cost \in Nat /\ (a.bytes = <<>> \/ \E x \in Bytes : a.bytes = <<x>>)
  <2>1. master.kind \in Kinds /\ master.sent + 1 \in 1..ReqLen
    BY Typed, LenAssumption DEF MasterType
  <2> QED
    BY <2>1, NoiseByte DEF Arrivals
<1>3. RxType(rx') /\ master' \in MasterType /\ TxType(tx')
  <2>1. PICK b : /\ b = (IF Deaf THEN <<>> ELSE a.bytes)
                 /\ b = <<>> \/ \E x \in Bytes : b = <<x>>
    BY <1>2
  <2> QED
    BY <1>1, <2>1, Typed, ReceivedType, ListenedType, TransmittedType DEF Tick
<1>4. noise' \in 0..MaxNoise
  BY <1>1, <1>2, Typed, LoadAssumption
<1>5. log' \in LogType
  <2>1. log' = [log EXCEPT !.age = IF @ < LogInterval THEN @ + 1 ELSE @]
    BY DEF Tick
  <2> QED  BY <2>1, Typed, TimeAssumption DEF LogType
<1>6. pc' \in Places
  BY <1>1, Typed DEF Places, Down
<1>7. timer' \in Nat
  <2>1. Waits => timer > 0  BY DEF Tick, Waits
  <2>2. CASE timer' \in 1..SaveMax  BY <2>2, TimeAssumption
  <2>3. CASE timer' = IF Waits THEN timer - 1 ELSE timer
    BY <2>1, <2>3, Typed
  <2> QED  BY <1>1, <2>2, <2>3
<1>8. pump' \in 0..PumpMax
  <2>1. pump' = pump \/ (pump < PumpMax /\ pump' = pump + 1)
    BY DEF Tick, Waits
  <2> QED  BY <2>1, Typed, TimeAssumption
<1>9. quiet' \in 0..(Hush + Nap) /\ torn' \in BOOLEAN
  <2>1. quiet' = IF quiet < Hush + Nap THEN quiet + 1 ELSE quiet
    BY DEF Tick
  <2>2. Hush + Nap \in Nat  BY TimeAssumption
  <2>3. torn' = torn  BY DEF Tick
  <2> QED  BY <2>1, <2>2, <2>3, Typed
<1> QED
  BY <1>3, <1>4, <1>5, <1>6, <1>7, <1>8, <1>9, Parts, Typed

LEMMA PumpGood == IInv /\ Pump => IInv'
<1> SUFFICES ASSUME IInv, Pump PROVE IInv'
  OBVIOUS
<1>1. /\ UNCHANGED <<master, rx, timer>> /\ pump' = 0 /\ pc' \in {"idle", "exec"}
      /\ quiet' = 0 \/ quiet' = quiet
  BY DEF Pump
<1>0. torn' \in BOOLEAN /\ pc' \in Places /\ quiet' \in 0..(Hush + Nap)
  <2>1. torn' = (torn /\ ~Rested)  BY DEF Pump
  <2>2. torn' \in BOOLEAN  BY <2>1
  <2> QED  BY <1>1, <2>2, Typed, Ranges DEF Places
<1>2. /\ log' \in LogType /\ TxType(tx') /\ noise' \in 0..MaxNoise
  <2>1. CASE UNCHANGED <<log, tx, noise>>
    BY <2>1, Typed DEF TxType
  <2>2. CASE \E readable \in BOOLEAN : LogMemorySendPoll(readable)
    <3>1. PICK readable \in BOOLEAN : LogMemorySendPoll(readable)
      BY <2>2
    <3>2. CASE log.left > 0 /\ log.age = LogInterval
      <4>1. /\ log' = [left |-> log.left - 1, age |-> 0]
            /\ \/ Send("end") /\ noise' = noise
               \/ Send("log") /\ noise' = noise
               \/ noise < MaxNoise /\ noise' = noise + 1 /\ tx' = tx
        BY <3>1, <3>2 DEF LogMemorySendPoll
      <4>2. TxType(tx')
        BY <4>1, Typed, SendType DEF Frames
      <4>3. noise' \in 0..MaxNoise
        BY <4>1, Typed, LoadAssumption
      <4>4. log' \in LogType
        BY <3>2, <4>1, Typed, Ranges, LoadAssumption DEF LogType
      <4> QED
        BY <4>2, <4>3, <4>4
    <3>3. CASE ~(log.left > 0 /\ log.age = LogInterval)
      BY <3>1, <3>3, Typed DEF LogMemorySendPoll, TxType
    <3> QED
      BY <3>2, <3>3
  <2> QED
    BY <2>1, <2>2 DEF Pump
<1>3. RxType(rx') /\ master' \in MasterType
  BY <1>1, Typed DEF RxType
<1> QED
  BY <1>0, <1>1, <1>2, <1>3, Parts, Typed, Ranges

LEMMA ExecGood == IInv /\ Exec => IInv'
<1> SUFFICES ASSUME IInv, Exec PROVE IInv'
  OBVIOUS
<1>1. /\ UNCHANGED <<master, rx, pump, quiet, torn, noise>> /\ pc' \in {"clear", "saving"}
      /\ timer' = timer \/ timer' \in 1..SaveMax
      /\ log' = log \/ log' \in [left : 1..(MaxLog + 1), age : {LogInterval}]
      /\ tx' = tx \/ \E f \in Frames : Send(f)
  BY DEF Exec, Frames
<1>2. timer' \in Nat
  BY <1>1, Typed, TimeAssumption
<1>3. log' \in LogType
  BY <1>1, Typed, Ranges, LoadAssumption DEF LogType
<1>4. TxType(tx') /\ RxType(rx') /\ master' \in MasterType
  BY <1>1, Typed, SendType DEF RxType
<1> QED
  BY <1>1, <1>2, <1>3, <1>4, Parts, Typed DEF Places

LEMMA SavedGood == IInv /\ Saved => IInv'
<1> SUFFICES ASSUME IInv, Saved PROVE IInv'
  OBVIOUS
<1>1. /\ UNCHANGED <<master, rx, pump, log, quiet, torn, noise>> /\ pc' \in {"clear", "delay"}
      /\ timer' = timer \/ timer' = ResetDelay
      /\ Send("write")
  BY DEF Saved
<1>2. timer' \in Nat
  BY <1>1, Typed, TimeAssumption
<1>3. TxType(tx') /\ RxType(rx') /\ master' \in MasterType
  BY <1>1, Typed, SendType DEF RxType, Frames
<1> QED
  BY <1>1, <1>2, <1>3, Parts, Typed DEF Places

LEMMA UartInductive == IInv /\ [UartNext]_uartVars => IInv'
<1> SUFFICES ASSUME IInv, [UartNext]_uartVars PROVE IInv'
  OBVIOUS
<1>1. CASE \E k \in Kinds : Ask(k)
  <2>1. PICK k \in Kinds : Ask(k)
    BY <1>1
  <2>2. master' \in MasterType
    BY <2>1, Ranges DEF Ask, MasterType
  <2> QED
    BY <2>1, <2>2, Typed, Parts DEF Ask, RxType, TxType
<1>2. CASE Restarted /\ noise' \in 0..MaxNoise /\ UNCHANGED <<master, timer>>
  <2>1. RxType(rx') /\ TxType(tx') /\ log' \in LogType /\ pump' \in 0..PumpMax
    BY <1>2, Ranges, RxAssumption, ShortFrame
       DEF Restarted, NoBytes, Silent, NoLog, RxType, TxType, LogType, Frames
  <2>2. quiet' \in 0..(Hush + Nap) /\ torn' \in BOOLEAN /\ pc' \in Places
    BY <1>2, Ranges DEF Restarted, Places
  <2> QED
    BY <1>2, <2>1, <2>2, Typed, Parts
<1>3. CASE Clear
  <2>1. rx' = [buf |-> <<>>, age |-> rx.age]
    BY <1>3, Typed DEF Clear, RxType
  <2>2. <<>> \in Seq(Bytes) /\ Len(<<>>) = 0
    OBVIOUS
  <2>3. RxType(rx')
    BY <2>1, <2>2, Typed, RxAssumption DEF RxType
  <2> QED
    BY <1>3, <2>3, Typed, Parts DEF Clear, TxType, Places
<1>4. CASE UNCHANGED uartVars
  BY <1>4, Typed, Parts DEF uartVars, RxType, TxType
<1>5. CASE Reset \/ ResetElsewhere
  <2>1. noise' \in 0..MaxNoise
    <3>1. noise' = noise \/ (noise < MaxNoise /\ noise' = noise + 1)
      BY <1>5 DEF Reset, ResetElsewhere
    <3> QED  BY <3>1, Typed, LoadAssumption
  <2> QED
    BY <1>2, <1>5, <2>1 DEF Reset, ResetElsewhere
<1>6. CASE Drowse \/ Sleep \/ Rouse \/ Wake
  <2>1. UNCHANGED <<master, rx, tx, log, noise>> /\ pc' \in Places
    BY <1>6 DEF Drowse, Sleep, Rouse, Wake, Places, Down
  <2>2. timer' \in Nat
    <3>1. timer' = timer \/ timer' \in 1..SaveMax
      BY <1>6 DEF Drowse, Sleep, Rouse, Wake
    <3> QED  BY <3>1, Typed, TimeAssumption
  <2>3. pump' \in 0..PumpMax /\ quiet' \in 0..(Hush + Nap)
    BY <1>6, Typed, Ranges DEF Drowse, Sleep, Rouse, Wake
  <2>4. torn' \in BOOLEAN
    <3>1. torn' = torn \/ torn' = (torn \/ ~Rested)
      BY <1>6 DEF Drowse, Sleep, Rouse, Wake
    <3> QED  BY <3>1, Typed
  <2> QED
    BY <2>1, <2>2, <2>3, <2>4, Typed, Parts DEF RxType, TxType
<1> QED
  BY <1>1, <1>3, <1>4, <1>5, <1>6, TickGood, PumpGood, ExecGood, SavedGood
     DEF UartNext, Loop

\* In every reachable state the channel has its type: no byte is stored behind the end
\* of the receive buffer (the r_index test of USART485_IRQHandler and UART_IRQHandler).
THEOREM UartTypeCorrect == UartSpec => []UartTypeOK
<1>1. IInv => UartTypeOK
  BY DEF IInv
<1> QED
  BY <1>1, UartInitGood, UartInductive, PTL DEF UartSpec

-------------------------------------------------------------------------------
(* What keeps a frame whole: why nothing is handed to the interrupt while it    *)
(* is sending.                                                                  *)

\* The frame in the transmit buffer is sent from its first byte.
TxIn == IF tx.on THEN tx.num = FrameLen[tx.frame] /\ tx.idx <= tx.num
        ELSE tx.idx = 0

\* A request the loop has still to look at or to execute.
Pending(k) == pc \in {"idle", "exec"} /\ rx.buf = Request(k)

\* Ticks the loop may have left alone what was received: until the time-out,
\* until it came by, and until it was done with it.
Idled == IF pc = "idle"
         THEN IF rx.age > 0 THEN Need - rx.age ELSE Need + pump
         ELSE Need + PumpMax + pump

\* It is executed while the master waits and nothing is being sent.
PendingIn ==
  \A k \in Kinds :
    Pending(k) => /\ master.st = "waiting" /\ master.kind = k
                  /\ ~tx.on /\ log.left = 0 /\ master.wait <= Idled

\* So is the save it led to, and the reset finds the reply sent.
SavingIn ==
  /\ pc = "saving" => /\ master.st = "waiting" /\ ~tx.on /\ log.left = 0
                      /\ master.wait + timer <= Need + 2 * PumpMax + SaveMax
  /\ pc = "delay"  => /\ log.left = 0
                      /\ tx.on => tx.num - tx.idx <= timer

\* A master that does not wait has its last answer behind it.
RestIn ==
  master.st # "waiting" => /\ master.wait = 0 /\ log.left = 0
                           /\ tx.on => tx.idx = tx.num

\* The silence n disturbances may cause.
Cost(n) == n * Turn

\* The silence between two frames of a transfer.
Dirty ==
  noise > 0 /\ master.wait + Turn <= Cost(noise) + Need + 2 * PumpMax + LogInterval + Idled

QuietIn ==
  IF pc = "idle" /\ rx.buf = <<>>
  THEN master.wait <= Cost(noise) + Need + PumpMax + log.age
                      + (IF log.age = LogInterval THEN pump ELSE 0)
  ELSE \/ Dirty
       \/ pc = "clear" /\ log.age = LogInterval /\ master.wait <= Need + PumpMax + pump

\* A transfer goes on while its master waits; what else is received is noise.
TransferIn ==
  log.left > 0 =>
    /\ master.kind = "log" /\ pc \in {"idle", "exec", "clear"}
    /\ tx.on => tx.frame = "log" /\ log.age <= tx.idx
    /\ \/ noise > 0
       \/ pc = "idle" /\ rx.buf = <<>>
       \/ pc = "clear" /\ log.age = LogInterval
    /\ ~tx.on => QuietIn

FrameInv == TxIn /\ PendingIn /\ SavingIn /\ RestIn /\ TransferIn

LEMMA Constants ==
  /\ {ReqLen, RxMax, Need, PumpMax, SaveMax, ResetDelay, LogInterval, MaxLog,
      Patience, MaxNoise, Turn} \subseteq Nat
  /\ ReqLen > 0 /\ \A f \in Frames : FrameLen[f] \in Nat /\ FrameLen[f] > 0
<1>1. Need \in Nat /\ PumpMax \in Nat /\ LogInterval \in Nat
  BY RxAssumption, TimeAssumption
<1>2. Turn \in Nat  BY <1>1 DEF Turn
<1> QED
  BY <1>1, <1>2, LenAssumption, RxAssumption, TimeAssumption, LoadAssumption

LEMMA CostIn == \A n \in Nat : Cost(n) \in Nat
BY Constants DEF Cost

\* One more disturbance costs a turn.
LEMMA CostGrows ==
  ASSUME NEW n \in Nat, NEW m \in Nat, n < m
  PROVE  Cost(n) + Turn <= Cost(m)
<1>0. Turn \in Nat  BY Constants
<1> DEFINE d == m - (n + 1)
<1>1. d \in Nat /\ m = n + 1 + d  OBVIOUS
<1>2. \A t \in Nat, a \in Nat : (n + 1 + a) * t = n * t + t + a * t
  OBVIOUS
<1>3. \A t \in Nat, a \in Nat : a * t \in Nat
  OBVIOUS
<1> HIDE DEF d
<1>4. m * Turn = n * Turn + Turn + d * Turn  BY <1>0, <1>1, <1>2
<1>5. n * Turn \in Nat /\ d * Turn \in Nat /\ m * Turn \in Nat
  BY <1>0, <1>1, <1>3
<1> QED  BY <1>0, <1>4, <1>5 DEF Cost

LEMMA CostMonotone ==
  ASSUME NEW n \in Nat, NEW m \in Nat, n <= m
  PROVE  Cost(n) <= Cost(m)
<1>1. CASE n = m  BY <1>1, CostIn
<1>2. CASE n < m  BY <1>2, CostIn, CostGrows, Constants
<1> QED  BY <1>1, <1>2

\* The numbers of a state.
LEMMA Numbers ==
  ASSUME IInv
  PROVE  /\ {master.sent, master.wait, rx.age, tx.idx, tx.num, timer, pump,
             log.left, log.age, noise, Cost(noise)} \subseteq Nat
         /\ master.sent < ReqLen /\ master.wait <= Patience /\ rx.age <= Need
         /\ pump <= PumpMax /\ log.age <= LogInterval /\ noise <= MaxNoise
         /\ tx.on \in BOOLEAN /\ tx.frame \in Frames /\ master.kind \in Kinds
         /\ master.st \in {"idle", "sending", "waiting"}
         /\ pc \in Places
<1>1. /\ master.sent \in Nat /\ master.wait \in Nat /\ master.sent < ReqLen
      /\ master.wait <= Patience /\ master.kind \in Kinds
      /\ master.st \in {"idle", "sending", "waiting"}
  BY Typed, Constants DEF MasterType
<1>2. rx.age \in Nat /\ rx.age <= Need
  BY Typed, Constants DEF RxType
<1>3. tx.idx \in Nat /\ tx.num \in Nat /\ tx.on \in BOOLEAN /\ tx.frame \in Frames
  BY Typed, Constants DEF TxType
<1>4. log.left \in Nat /\ log.age \in Nat /\ log.age <= LogInterval
  BY Typed, Constants DEF LogType
<1>5. /\ timer \in Nat /\ pump \in Nat /\ pump <= PumpMax /\ noise \in Nat
      /\ noise <= MaxNoise /\ pc \in Places
  BY Typed, Constants
<1>6. Cost(noise) \in Nat  BY <1>5, CostIn
<1> QED  BY <1>1, <1>2, <1>3, <1>4, <1>5, <1>6

\* A transfer is never silent for as long as the master is patient.
LEMMA QuietBounded ==
  ASSUME Timing, IInv, QuietIn, pc \in {"idle", "exec", "clear"}
  PROVE  master.wait < Patience
<1>1. Cost(noise) + Turn <= Cost(MaxNoise + 1)
  BY Numbers, Constants, CostGrows
<1>2. Cost(MaxNoise + 1) < Patience /\ Cost(MaxNoise + 1) \in Nat
  BY Constants, CostIn DEF Timing, Cost
<1>3. Turn = LogInterval + Need + 3 * PumpMax  BY DEF Turn
<1>4. Idled <= Need + 2 * PumpMax /\ Idled \in Nat
  BY Numbers, Constants DEF Idled
<1>5. CASE pc = "idle" /\ rx.buf = <<>>
  <2> DEFINE late == IF log.age = LogInterval THEN pump ELSE 0
  <2>1. late \in Nat /\ late <= PumpMax /\ log.age <= LogInterval
    BY Numbers, Constants
  <2>2. master.wait <= Cost(noise) + Need + PumpMax + log.age + late
    BY <1>5 DEF QuietIn
  <2> HIDE DEF late
  <2> QED  BY <1>1, <1>2, <1>3, <2>1, <2>2, Numbers, Constants
<1>6. CASE Dirty
  BY <1>1, <1>2, <1>3, <1>4, <1>6, Numbers, Constants DEF Dirty
<1>7. CASE master.wait <= Need + PumpMax + pump
  BY <1>1, <1>2, <1>3, <1>7, Numbers, Constants
<1> QED  BY <1>5, <1>6, <1>7 DEF QuietIn

\* Only its last byte completes a request.
LEMMA LastByte ==
  ASSUME RxType(rx), NEW b \in Bytes, NEW k \in Kinds, rx.buf \o <<b>> = Request(k)
  PROVE  b = <<k, ReqLen>>
<1>1. rx.buf \in Seq(Bytes) /\ Len(rx.buf) \in Nat  BY DEF RxType
<1>2. /\ Len(rx.buf \o <<b>>) = Len(rx.buf) + 1
      /\ (rx.buf \o <<b>>)[Len(rx.buf) + 1] = b
  BY <1>1
<1>3. Request(k) = [i \in 1..ReqLen |-> <<k, i>>] /\ ReqLen \in Nat \ {0}
  BY LenAssumption DEF Request
<1>4. Len(Request(k)) = ReqLen /\ Request(k)[ReqLen] = <<k, ReqLen>>
  <2>1. Request(k) \in Seq(Bytes)  
    <3>1. \A i \in 1..ReqLen : <<k, i>> \in Bytes  BY NoiseByte
    <3> QED  BY <1>3, <3>1
  <2>2. DOMAIN Request(k) = 1..ReqLen  BY <1>3
  <2>3. Len(Request(k)) = ReqLen  BY <1>3, <2>1, <2>2
  <2>4. ReqLen \in 1..ReqLen  BY LenAssumption
  <2>5. Request(k)[ReqLen] = <<k, ReqLen>>  BY <1>3, <2>4
  <2> QED  BY <2>3, <2>5
<1> QED  BY <1>2, <1>4

\* A request has bytes, and each kind its own.
LEMMA RequestLong ==
  \A k \in Kinds : /\ Request(k) # <<>>
                    /\ \A j \in Kinds : Request(j) = Request(k) => j = k
<1>1. 1 \in 1..ReqLen  BY LenAssumption
<1>2. \A k \in Kinds : DOMAIN Request(k) = 1..ReqLen /\ Request(k)[1] = <<k, 1>>
  BY <1>1 DEF Request
<1>3. \A k \in Kinds : Request(k) # <<>>
  <2>1. DOMAIN <<>> = {}  OBVIOUS
  <2> QED  BY <1>1, <1>2, <2>1
<1> QED  BY <1>2, <1>3

-------------------------------------------------------------------------------
(* What a tick does to each part. *)

\* A tick outside Shallow_Sleep.
DayTick == Tick /\ pc \notin Down

LEMMA TickRx ==
  ASSUME IInv, DayTick
  PROVE  /\ pc' = pc /\ noise' \in Nat /\ noise <= noise' /\ noise' <= MaxNoise
         /\ \/ /\ rx'.buf = rx.buf
               /\ rx'.age = IF rx.age = 0 THEN 0 ELSE rx.age - 1
            \/ /\ rx'.age = Need /\ rx'.buf # <<>>
               /\ \/ noise < noise'
                  \/ master.st = "sending"
               /\ \A k \in Kinds : rx'.buf = Request(k) =>
                    /\ master.st = "sending" /\ master.sent + 1 = ReqLen
                    /\ master.kind = k
<1>1. PICK a \in Arrivals, heard \in BOOLEAN :
        /\ noise' = noise + a.cost + (IF heard THEN 0 ELSE 1)
        /\ noise' <= MaxNoise
        /\ rx' = Received(a.bytes)
  BY DEF DayTick, Down, Deaf, Tick
<1>2. \/ a.bytes = <<>> /\ a.cost \in {0, 1}
      \/ a.bytes = <<Noise>> /\ a.cost = 1
      \/ /\ a.bytes = <<<<master.kind, master.sent + 1>>>> /\ a.cost = 0
         /\ master.st = "sending"
  BY DEF Arrivals
<1>3. a.cost \in Nat /\ noise \in Nat /\ noise' \in Nat /\ noise <= noise'
  BY <1>1, <1>2, Numbers
<1>4. pc' = pc  BY DEF DayTick, Down, Tick
<1>5. RxType(rx) /\ rx = [buf |-> rx.buf, age |-> rx.age]
  BY Typed DEF RxType
<1>6. CASE ~(a.bytes # <<>> /\ Len(rx.buf) < RxMax)
  <2>1. rx' = [rx EXCEPT !.age = IF @ = 0 THEN 0 ELSE @ - 1]
    BY <1>1, <1>6 DEF Received
  <2>2. rx'.buf = rx.buf /\ rx'.age = IF rx.age = 0 THEN 0 ELSE rx.age - 1
    BY <1>5, <2>1
  <2> QED  BY <1>1, <1>3, <1>4, <2>2
<1>7. CASE a.bytes # <<>> /\ Len(rx.buf) < RxMax
  <2>1. PICK b \in Bytes : /\ a.bytes = <<b>>
                           /\ \/ b = Noise /\ noise < noise'
                              \/ /\ b = <<master.kind, master.sent + 1>>
                                 /\ master.st = "sending"
    <3>1. master.kind \in Kinds /\ master.sent + 1 \in 1..ReqLen
      BY Numbers, Constants
    <3> QED  BY <1>1, <1>2, <1>3, <1>7, <3>1, NoiseByte
  <2>2. rx' = [buf |-> rx.buf \o <<b>>, age |-> Need]
    BY <1>1, <1>7, <2>1 DEF Received
  <2>3. rx'.buf = rx.buf \o <<b>> /\ rx'.age = Need  BY <2>2
  <2>4. rx.buf \o <<b>> # <<>>
    <3>1. rx.buf \in Seq(Bytes)  BY <1>5 DEF RxType
    <3>2. Len(rx.buf \o <<b>>) = Len(rx.buf) + 1 /\ Len(rx.buf) \in Nat  BY <3>1
    <3> QED  BY <3>2
  <2>5. ASSUME NEW k \in Kinds, rx'.buf = Request(k)
        PROVE  master.st = "sending" /\ master.sent + 1 = ReqLen /\ master.kind = k
    <3>1. b = <<k, ReqLen>>  BY <1>5, <2>3, <2>5, LastByte
    <3>2. b # Noise  BY <3>1, LenAssumption DEF Noise
    <3>3. b = <<master.kind, master.sent + 1>> /\ master.st = "sending"  BY <2>1, <3>2
    <3> QED  BY <3>1, <3>3
  <2> QED  BY <1>1, <1>3, <1>4, <2>1, <2>3, <2>4, <2>5
<1> QED  BY <1>6, <1>7

LEMMA TickTx ==
  ASSUME IInv, TxIn, DayTick
  PROVE  /\ TxIn'
         /\ ~tx.on => ~tx'.on
         /\ tx.on /\ tx.idx < tx.num => /\ tx'.on /\ tx'.idx = tx.idx + 1
                                        /\ tx'.frame = tx.frame /\ tx'.num = tx.num
         /\ tx.on /\ tx.idx = tx.num => ~tx'.on
<1>1. tx' = Transmitted /\ tx.idx \in Nat /\ tx.num \in Nat
  BY Numbers DEF DayTick, Tick
<1>0. OnAir = tx.on  BY Numbers DEF OnAir, Deaf, DayTick, Down
<1>2. tx = [frame |-> tx.frame, num |-> tx.num, idx |-> tx.idx, on |-> tx.on]
  BY Typed DEF TxType
<1>3. CASE ~tx.on
  BY <1>0, <1>1, <1>3 DEF Transmitted, TxIn
<1>4. CASE tx.on /\ tx.idx < tx.num
  <2>1. tx' = [frame |-> tx.frame, num |-> tx.num, idx |-> tx.idx + 1, on |-> tx.on]
    BY <1>0, <1>1, <1>2, <1>4 DEF Transmitted
  <2> QED  BY <1>1, <1>4, <2>1 DEF TxIn
<1>5. CASE tx.on /\ ~(tx.idx < tx.num)
  <2>1. tx' = [frame |-> tx.frame, num |-> 0, idx |-> 0, on |-> FALSE]
    BY <1>0, <1>1, <1>2, <1>5 DEF Transmitted
  <2> QED  BY <1>1, <1>5, <2>1 DEF TxIn
<1> QED  BY <1>3, <1>4, <1>5

LEMMA TickTime ==
  ASSUME IInv, DayTick
  PROVE  /\ IF pc \in {"saving", "delay"}
            THEN timer > 0 /\ timer' = timer - 1 /\ pump' = pump
            ELSE pump < PumpMax /\ pump' = pump + 1 /\ timer' = timer
         /\ log'.left = log.left
         /\ log'.age = IF log.age < LogInterval THEN log.age + 1 ELSE log.age
<1>1. log = [left |-> log.left, age |-> log.age]  BY Typed DEF LogType
<1> QED  BY <1>1 DEF DayTick, Down, Waits, Tick

LEMMA TickMaster ==
  ASSUME IInv, DayTick
  PROVE  /\ master'.kind = master.kind
         /\ master.st = "idle" => master'.st = "idle" /\ master'.wait = master.wait
         /\ master.st = "sending" =>
              /\ master'.wait = master.wait
              /\ master'.st = IF master.sent + 1 = ReqLen THEN "waiting" ELSE "sending"
         /\ master.st = "waiting" /\ tx.on =>
              /\ master'.wait = 0
              /\ \/ master'.st = "waiting"
                 \/ tx.idx + 1 = tx.num /\ tx.frame = Answer[master.kind]
         /\ master.st = "waiting" /\ ~tx.on /\ master.wait < Patience =>
              master'.st = "waiting" /\ master'.wait = master.wait + 1
         /\ master'.st # "waiting" /\ master.st = "waiting" => master'.wait = 0
<1>1. PICK heard \in BOOLEAN : master' = Listened(heard)
  BY DEF DayTick, Tick
<1>0. OnAir = tx.on  BY Numbers DEF OnAir, Deaf, DayTick, Down
<1>2. /\ master = [st |-> master.st, kind |-> master.kind,
                   sent |-> master.sent, wait |-> master.wait]
      /\ master.st \in {"idle", "sending", "waiting"}
  BY Typed DEF MasterType
<1>3. CASE master.st = "idle"
  BY <1>1, <1>3 DEF Listened
<1>4. CASE master.st = "sending"
  BY <1>1, <1>2, <1>4 DEF Listened
<1>5. CASE master.st = "waiting"
  <2> DEFINE answered == FrameEnds /\ heard /\ tx.frame = Answer[master.kind]
  <2>1. CASE answered
    <3>1. master' = [master EXCEPT !.st = "idle", !.wait = 0]
      BY <1>0, <1>1, <1>5, <2>1 DEF Listened
    <3>2. tx.on /\ tx.idx + 1 = tx.num /\ tx.frame = Answer[master.kind]
      BY <1>0, <2>1 DEF FrameEnds
    <3> QED  BY <1>2, <1>5, <3>1, <3>2
  <2>2. CASE ~answered /\ tx.on
    <3>1. master' = [master EXCEPT !.wait = 0]
      BY <1>0, <1>1, <1>5, <2>2 DEF Listened
    <3> QED  BY <1>2, <1>5, <2>2, <3>1
  <2>3. CASE ~answered /\ ~tx.on
    <3>1. master' = IF master.wait < Patience THEN [master EXCEPT !.wait = @ + 1]
                    ELSE [master EXCEPT
                            !.st = IF master.kind = "other" THEN "idle" ELSE "sending",
                            !.wait = 0]
      BY <1>0, <1>1, <1>5, <2>3 DEF Listened
    <3> QED  BY <1>2, <1>5, <2>3, <3>1
  <2> QED  BY <2>1, <2>2, <2>3
<1> QED  BY <1>2, <1>3, <1>4, <1>5

\* The master is never so long without an answer to what the loop has in hand.
LEMMA StillPatient ==
  ASSUME Timing, IInv, FrameInv
  PROVE  /\ \A k \in Kinds : Pending(k) => master.wait < Patience
         /\ pc = "saving" => master.wait < Patience
         /\ log.left > 0 /\ ~tx.on => master.wait < Patience
         /\ log.left > 0 => master.st = "waiting"
<1>1. Patience > Need + 2 * PumpMax + SaveMax  BY DEF Timing
<1>2. Idled <= Need + 2 * PumpMax /\ Idled \in Nat
  BY Numbers, Constants DEF Idled
<1>3. \A k \in Kinds : Pending(k) => master.wait < Patience
  BY <1>1, <1>2, Numbers, Constants DEF FrameInv, PendingIn
<1>4. pc = "saving" => master.wait < Patience
  BY <1>1, Numbers, Constants DEF FrameInv, SavingIn
<1>5. log.left > 0 /\ ~tx.on => master.wait < Patience
  BY QuietBounded DEF FrameInv, TransferIn
<1>6. log.left > 0 => master.st = "waiting"
  BY Numbers DEF FrameInv, RestIn
<1> QED  BY <1>3, <1>4, <1>5, <1>6

LEMMA TickPending ==
  ASSUME Timing, IInv, FrameInv, DayTick
  PROVE  PendingIn'
<1> SUFFICES ASSUME NEW k \in Kinds, pc' \in {"idle", "exec"}, rx'.buf = Request(k)
             PROVE  /\ master'.st = "waiting" /\ master'.kind = k
                    /\ ~tx'.on /\ log'.left = 0 /\ master'.wait <= Idled'
  BY DEF PendingIn, Pending
<1>1. pc' = pc /\ pc \in {"idle", "exec"} /\ rx'.buf = Request(k)
  BY TickRx
<1>2. pump' = pump + 1 /\ log'.left = log.left
  BY <1>1, TickTime
<1>3. CASE /\ rx'.buf = rx.buf
           /\ rx'.age = IF rx.age = 0 THEN 0 ELSE rx.age - 1
  <2>1. Pending(k)  BY <1>1, <1>3 DEF Pending
  <2>2. /\ master.st = "waiting" /\ master.kind = k
        /\ ~tx.on /\ log.left = 0 /\ master.wait <= Idled
    BY <2>1 DEF FrameInv, PendingIn
  <2>3. master.wait < Patience  BY <2>1, StillPatient
  <2>4. master'.st = "waiting" /\ master'.kind = k /\ master'.wait = master.wait + 1
    BY <2>2, <2>3, TickMaster
  <2>5. ~tx'.on  BY <2>2, TickTx DEF FrameInv
  <2>6. Idled + 1 <= Idled'
    BY <1>1, <1>2, <1>3, Numbers, Constants DEF Idled
  <2>7. Idled \in Nat /\ Idled' \in Nat
    BY <1>1, <1>2, <1>3, Numbers, Constants DEF Idled
  <2> QED  BY <1>2, <2>2, <2>4, <2>5, <2>6, <2>7, Numbers
<1>4. CASE /\ rx'.age = Need /\ rx'.buf # <<>>
           /\ master.st = "sending" /\ master.sent + 1 = ReqLen /\ master.kind = k
  <2>1. master.wait = 0 /\ log.left = 0 /\ (tx.on => tx.idx = tx.num)
    BY <1>4 DEF FrameInv, RestIn
  <2>2. master'.st = "waiting" /\ master'.kind = k /\ master'.wait = 0
    BY <1>4, <2>1, TickMaster
  <2>3. ~tx'.on  BY <2>1, TickTx DEF FrameInv
  <2>4. Idled' \in Nat
    <3>1. pump \in Nat /\ Need \in Nat /\ PumpMax \in Nat
      BY Numbers, Constants
    <3> QED  BY <1>2, <1>4, <3>1 DEF Idled
  <2> QED  BY <1>2, <2>1, <2>2, <2>3, <2>4
<1> QED  BY <1>1, <1>3, <1>4, TickRx

LEMMA TickSaving ==
  ASSUME Timing, IInv, FrameInv, DayTick
  PROVE  SavingIn'
<1>1. pc' = pc  BY TickRx
<1>2. CASE pc = "saving"
  <2>1. /\ master.st = "waiting" /\ ~tx.on /\ log.left = 0
        /\ master.wait + timer <= Need + 2 * PumpMax + SaveMax
    BY <1>2 DEF FrameInv, SavingIn
  <2>2. master'.st = "waiting" /\ master'.wait = master.wait + 1
    BY <1>2, <2>1, StillPatient, TickMaster
  <2>3. ~tx'.on /\ log'.left = 0 /\ timer > 0 /\ timer' = timer - 1
    BY <1>2, <2>1, TickTx, TickTime DEF FrameInv
  <2>4. master'.wait + timer' = master.wait + timer
    BY <2>2, <2>3, Numbers
  <2> QED  BY <1>1, <1>2, <2>1, <2>2, <2>3, <2>4 DEF SavingIn
<1>3. CASE pc = "delay"
  <2>1. log.left = 0 /\ (tx.on => tx.num - tx.idx <= timer)
    BY <1>3 DEF FrameInv, SavingIn
  <2>2. log'.left = 0 /\ timer > 0 /\ timer' = timer - 1
    BY <1>3, <2>1, TickTime
  <2>3. ASSUME tx'.on PROVE tx'.num - tx'.idx <= timer'
    <3>1. tx.on /\ tx.idx < tx.num /\ tx'.idx = tx.idx + 1 /\ tx'.num = tx.num
      <4>1. tx.on  BY <2>3, TickTx DEF FrameInv
      <4>2. tx.idx # tx.num  BY <2>3, <4>1, TickTx DEF FrameInv
      <4>3. tx.idx <= tx.num
        BY <2>3, <4>1, TickTx, Numbers DEF FrameInv, TxIn
      <4> QED  BY <4>1, <4>2, <4>3, TickTx, Numbers DEF FrameInv
    <3> QED  BY <2>1, <2>2, <3>1, Numbers
  <2> QED  BY <1>1, <1>3, <2>2, <2>3 DEF SavingIn
<1> QED  BY <1>1, <1>2, <1>3 DEF SavingIn

LEMMA TickRest ==
  ASSUME Timing, IInv, FrameInv, DayTick
  PROVE  RestIn'
<1> SUFFICES ASSUME master'.st # "waiting"
             PROVE  /\ master'.wait = 0 /\ log'.left = 0
                    /\ tx'.on => tx'.idx = tx'.num
  BY DEF RestIn
<1>1. log'.left = log.left  BY TickTime
<1>2. CASE master.st # "waiting"
  <2>1. master.wait = 0 /\ log.left = 0 /\ (tx.on => tx.idx = tx.num)
    BY <1>2 DEF FrameInv, RestIn
  <2>2. ~tx'.on  BY <2>1, TickTx DEF FrameInv
  <2>3. master'.wait = 0
    BY <1>2, <2>1, TickMaster, Numbers
  <2> QED  BY <1>1, <2>1, <2>2, <2>3
<1>3. CASE master.st = "waiting" /\ tx.on
  <2>1. tx.idx + 1 = tx.num /\ tx.frame = Answer[master.kind] /\ master'.wait = 0
    BY <1>3, TickMaster
  <2>2. tx'.on => tx'.idx = tx'.num
    BY <2>1, TickTx, Numbers DEF FrameInv
  <2>3. log.left = 0
    <3>1. CASE log.left > 0
      <4>1. master.kind = "log" /\ tx.frame = "log"
        BY <1>3, <3>1 DEF FrameInv, TransferIn
      <4>2. Answer["log"] = "end"  BY DEF Answer, Kinds
      <4> QED  BY <2>1, <4>1, <4>2
    <3> QED  BY <3>1, Numbers
  <2> QED  BY <1>1, <2>1, <2>2, <2>3
<1>4. CASE master.st = "waiting" /\ ~tx.on
  <2>1. ~(master.wait < Patience) /\ master'.wait = 0
    BY <1>4, TickMaster
  <2>2. log.left = 0  BY <1>4, <2>1, StillPatient, Numbers
  <2>3. ~tx'.on  BY <1>4, TickTx DEF FrameInv
  <2> QED  BY <1>1, <2>1, <2>2, <2>3
<1> QED  BY <1>2, <1>3, <1>4

\* Arithmetic of the silence.
LEMMA SilenceGrows ==
  ASSUME NEW c \in Nat, NEW d \in Nat, c <= d,
         NEW w \in Nat, NEW n \in Nat, NEW m \in Nat, NEW l \in Nat, NEW p \in Nat,
         NEW a \in Nat, a <= l,
         w <= c + n + m + a + (IF a = l THEN p ELSE 0),
         NEW b, b = IF a < l THEN a + 1 ELSE a
  PROVE  w + 1 <= d + n + m + b + (IF b = l THEN p + 1 ELSE 0)
<1>1. CASE a < l  BY <1>1
<1>2. CASE a = l  BY <1>2
<1> QED  BY <1>1, <1>2

LEMMA DirtGrows ==
  ASSUME NEW c \in Nat, NEW d \in Nat, c <= d,
         NEW w \in Nat, NEW t \in Nat, NEW n \in Nat, NEW m \in Nat, NEW l \in Nat,
         NEW i \in Nat, NEW j \in Nat, i + 1 <= j,
         w + t <= c + n + 2 * m + l + i
  PROVE  w + 1 + t <= d + n + 2 * m + l + j
OBVIOUS

LEMMA NewDirt ==
  ASSUME NEW c \in Nat, NEW d \in Nat, NEW t \in Nat, c + t <= d,
         NEW w \in Nat, NEW n \in Nat, NEW m \in Nat, NEW l \in Nat, NEW j \in Nat,
         w + 1 <= c + n + 2 * m + l
  PROVE  w + 1 + t <= d + n + 2 * m + l + j
OBVIOUS

\* While a transfer is silent each tick is accounted for.
LEMMA TickQuiet ==
  ASSUME IInv, DayTick, QuietIn, pc \in {"idle", "exec", "clear"},
         master.st = "waiting", master'.wait = master.wait + 1
  PROVE  QuietIn'
<1>1. /\ pc' = pc /\ pump < PumpMax /\ pump' = pump + 1
      /\ log'.age = IF log.age < LogInterval THEN log.age + 1 ELSE log.age
  BY TickRx, TickTime
<1>2. /\ pump \in Nat /\ log.age \in Nat /\ log.age <= LogInterval
      /\ master.wait \in Nat /\ rx.age \in Nat /\ rx.age <= Need
      /\ Need \in Nat /\ PumpMax \in Nat /\ LogInterval \in Nat /\ Turn \in Nat
      /\ Turn = LogInterval + Need + 3 * PumpMax
  BY Numbers, Constants DEF Turn
<1>3. noise \in Nat /\ noise' \in Nat /\ noise <= noise'
  BY Numbers, TickRx
<1>c. PICK c \in Nat : c = Cost(noise)
  BY <1>3, CostIn
<1>d. PICK d \in Nat : d = Cost(noise')
  BY <1>3, CostIn
<1>4. c <= d  BY <1>3, <1>c, <1>d, CostMonotone
<1>5. PICK i \in Nat : i = Idled /\ i + 1 <= Need + 2 * PumpMax
  BY <1>1, <1>2 DEF Idled
<1>6. CASE /\ rx'.buf = rx.buf
           /\ rx'.age = IF rx.age = 0 THEN 0 ELSE rx.age - 1
  <2>1. CASE pc = "idle" /\ rx.buf = <<>>
    <3>1. master.wait <= c + Need + PumpMax + log.age
                         + (IF log.age = LogInterval THEN pump ELSE 0)
      BY <1>c, <2>1 DEF QuietIn
    <3>2. PICK a : a = log'.age
      OBVIOUS
    <3>3. a = IF log.age < LogInterval THEN log.age + 1 ELSE log.age
      BY <1>1, <3>2
    <3>4. master.wait + 1 <= d + Need + PumpMax + a
                             + (IF a = LogInterval THEN pump + 1 ELSE 0)
      BY <1>2, <1>4, <3>1, <3>3, SilenceGrows
    <3> QED  BY <1>1, <1>d, <1>6, <2>1, <3>2, <3>4 DEF QuietIn
  <2>2. CASE ~(pc = "idle" /\ rx.buf = <<>>) /\ Dirty
    <3>1. noise > 0 /\ master.wait + Turn <= c + Need + 2 * PumpMax + LogInterval + i
      BY <1>c, <1>5, <2>2 DEF Dirty
    <3>2. PICK j \in Nat : j = Idled' /\ i + 1 <= j
      <4>1. Idled' \in Nat /\ Idled + 1 <= Idled'
        BY <1>1, <1>2, <1>6 DEF Idled
      <4> QED  BY <1>5, <4>1
    <3>6. i + 1 <= j  BY <3>2
    <3>3. noise' > 0  BY <1>3, <3>1
    <3>4. master.wait + 1 + Turn <= d + Need + 2 * PumpMax + LogInterval + j
      BY <1>2, <1>4, <3>1, <3>6, DirtGrows
    <3>5. Dirty'  BY <1>d, <3>2, <3>3, <3>4 DEF Dirty
    <3> QED  BY <1>1, <1>6, <2>2, <3>5 DEF QuietIn
  <2>3. CASE /\ pc = "clear" /\ log.age = LogInterval
             /\ master.wait <= Need + PumpMax + pump
    <3>1. master.wait + 1 <= Need + PumpMax + (pump + 1)  BY <1>2, <2>3
    <3>2. pc' = "clear" /\ log'.age = LogInterval  BY <1>1, <1>2, <2>3
    <3> QED  BY <1>1, <3>1, <3>2 DEF QuietIn
  <2> QED  BY <2>1, <2>2, <2>3 DEF QuietIn
<1>7. CASE rx'.age = Need /\ rx'.buf # <<>> /\ noise < noise'
  <2>1. PICK j \in Nat : j = Idled'
    BY <1>1, <1>2, <1>7 DEF Idled
  <2>2. master.wait + 1 <= c + Need + 2 * PumpMax + LogInterval
    <3>1. CASE master.wait <= c + Need + PumpMax + log.age
                              + (IF log.age = LogInterval THEN pump ELSE 0)
      BY <1>1, <1>2, <1>4, <3>1
    <3>2. CASE Dirty
      <4>1. master.wait + Turn <= c + Need + 2 * PumpMax + LogInterval + i
        BY <1>c, <1>5, <3>2 DEF Dirty
      <4> QED  BY <1>2, <1>4, <1>5, <4>1
    <3>3. CASE master.wait <= Need + PumpMax + pump
      BY <1>1, <1>2, <1>4, <3>3
    <3> QED  BY <1>c, <3>1, <3>2, <3>3 DEF QuietIn
  <2>3. master.wait + 1 + Turn <= d + Need + 2 * PumpMax + LogInterval + j
    <3>1. c + Turn <= d  BY <1>3, <1>7, <1>c, <1>d, CostGrows
    <3> QED  BY <1>2, <2>2, <3>1, NewDirt
  <2>4. noise' > 0  BY <1>3, <1>7
  <2>5. Dirty'  BY <1>d, <2>1, <2>3, <2>4 DEF Dirty
  <2> QED  BY <1>7, <2>5 DEF QuietIn
<1> QED  BY <1>6, <1>7, TickRx

LEMMA TickTransfer ==
  ASSUME Timing, IInv, FrameInv, DayTick
  PROVE  TransferIn'
<1> SUFFICES ASSUME log'.left > 0
             PROVE  /\ master'.kind = "log" /\ pc' \in {"idle", "exec", "clear"}
                    /\ tx'.on => tx'.frame = "log" /\ log'.age <= tx'.idx
                    /\ \/ noise' > 0
                       \/ pc' = "idle" /\ rx'.buf = <<>>
                       \/ pc' = "clear" /\ log'.age = LogInterval
                    /\ ~tx'.on => QuietIn'
  BY DEF TransferIn
<1>1. /\ pc' = pc /\ log'.left = log.left /\ log.left > 0
      /\ log'.age = IF log.age < LogInterval THEN log.age + 1 ELSE log.age
  BY TickRx, TickTime
<1>2. /\ master.kind = "log" /\ pc \in {"idle", "exec", "clear"}
      /\ tx.on => tx.frame = "log" /\ log.age <= tx.idx
      /\ \/ noise > 0
         \/ pc = "idle" /\ rx.buf = <<>>
         \/ pc = "clear" /\ log.age = LogInterval
      /\ ~tx.on => QuietIn
  BY <1>1 DEF FrameInv, TransferIn
<1>3. master.st = "waiting" /\ master'.kind = "log"
  BY <1>1, <1>2, StillPatient, TickMaster
<1>4. tx'.on => tx'.frame = "log" /\ log'.age <= tx'.idx
  <2>1. ASSUME tx'.on
        PROVE  tx.on /\ tx'.frame = tx.frame /\ tx'.idx = tx.idx + 1
    <3>1. tx.on  BY <2>1, TickTx DEF FrameInv
    <3>2. tx.idx # tx.num /\ tx.idx <= tx.num
      BY <2>1, <3>1, TickTx DEF FrameInv, TxIn
    <3>3. tx.idx < tx.num  BY <3>2, Numbers
    <3> QED  BY <3>1, <3>3, TickTx DEF FrameInv
  <2>2. log.age \in Nat /\ tx.idx \in Nat /\ log'.age <= log.age + 1
    BY <1>1, Numbers, Constants
  <2>3. CASE log.age < LogInterval
    BY <1>1, <1>2, <2>1, <2>2, <2>3
  <2>4. CASE ~(log.age < LogInterval)
    BY <1>1, <1>2, <2>1, <2>2, <2>4
  <2> QED  BY <2>3, <2>4
<1>5. \/ noise' > 0
      \/ pc' = "idle" /\ rx'.buf = <<>>
      \/ pc' = "clear" /\ log'.age = LogInterval
  <2>1. CASE noise > 0
    <3>1. noise \in Nat /\ noise' \in Nat /\ noise <= noise'
      BY Numbers, TickRx
    <3> QED  BY <2>1, <3>1
  <2>2. CASE pc = "idle" /\ rx.buf = <<>>
    <3>1. CASE rx'.buf = rx.buf
      BY <1>1, <2>2, <3>1
    <3>2. CASE noise < noise'
      BY <3>2, Numbers, TickRx
    <3> QED  BY <1>3, <3>1, <3>2, TickRx
  <2>3. CASE pc = "clear" /\ log.age = LogInterval
    BY <1>1, <2>3, Numbers, Constants
  <2> QED  BY <1>2, <2>1, <2>2, <2>3
<1>6. ASSUME ~tx'.on PROVE QuietIn'
  <2>1. CASE ~tx.on
    <3>1. master'.wait = master.wait + 1
      BY <1>1, <1>3, <2>1, StillPatient, TickMaster
    <3> QED  BY <1>2, <1>3, <2>1, <3>1, TickQuiet
  <2>2. CASE tx.on
    <3>1. master'.wait = 0  BY <1>3, <2>2, TickMaster
    <3>2. /\ Need \in Nat /\ PumpMax \in Nat /\ LogInterval \in Nat /\ Turn \in Nat
          /\ Turn = LogInterval + Need + 3 * PumpMax
          /\ pump \in Nat /\ log.age \in Nat /\ rx.age \in Nat /\ rx.age <= Need
      BY Constants, Numbers DEF Turn
    <3>3. pump' = pump + 1 /\ pump < PumpMax
      BY <1>2, TickTime
    <3>4. PICK d \in Nat : d = Cost(noise')
      BY TickRx, CostIn
    <3>5. CASE pc' = "idle" /\ rx'.buf = <<>>
      <4>1. PICK a \in Nat : a = log'.age
        BY <1>1, <3>2
      <4>2. 0 <= d + Need + PumpMax + a + (IF a = LogInterval THEN pump + 1 ELSE 0)
        BY <3>2
      <4> QED  BY <3>1, <3>3, <3>4, <3>5, <4>1, <4>2 DEF QuietIn
    <3>6. CASE pc' = "clear" /\ log'.age = LogInterval
      <4>1. 0 <= Need + PumpMax + (pump + 1)  BY <3>2
      <4> QED  BY <3>1, <3>3, <3>6, <4>1 DEF QuietIn
    <3>7. CASE ~(pc' = "idle" /\ rx'.buf = <<>>) /\ noise' > 0
      <4>1. Turn <= d
        <5>1. Cost(0) \in Nat  BY CostIn
        <5>2. Cost(0) + Turn <= Cost(noise')  BY <3>7, TickRx, CostGrows
        <5> QED  BY <3>2, <3>4, <5>1, <5>2
      <4>2. PICK j \in Nat : j = Idled'
        <5>1. CASE /\ rx'.buf = rx.buf
                   /\ rx'.age = IF rx.age = 0 THEN 0 ELSE rx.age - 1
          <6>1. Idled' \in Nat  BY <3>2, <3>3, <5>1 DEF Idled
          <6> QED  BY <6>1
        <5>2. CASE rx'.age = Need
          <6>1. Idled' \in Nat  BY <3>2, <3>3, <5>2 DEF Idled
          <6> QED  BY <6>1
        <5> QED  BY <5>1, <5>2, TickRx
      <4>3. 0 + Turn <= d + Need + 2 * PumpMax + LogInterval + j
        BY <3>2, <4>1
      <4>4. Dirty'  BY <3>1, <3>4, <3>7, <4>2, <4>3 DEF Dirty
      <4> QED  BY <3>7, <4>4 DEF QuietIn
    <3> QED  BY <1>5, <3>5, <3>6, <3>7
  <2> QED  BY <2>1, <2>2
<1> QED  BY <1>1, <1>2, <1>3, <1>4, <1>5, <1>6

LEMMA TickFrames ==
  ASSUME Timing, IInv, FrameInv, DayTick
  PROVE  FrameInv'
<1>1. TxIn'  BY TickTx DEF FrameInv
<1> QED
  BY <1>1, TickPending, TickSaving, TickRest, TickTransfer DEF FrameInv

LEMMA AskFrames ==
  ASSUME IInv, FrameInv, NEW k \in Kinds, Ask(k)
  PROVE  FrameInv'
<1>1. /\ master.st = "idle" /\ UNCHANGED <<rx, tx, pc, timer, pump, log, noise>>
      /\ master'.st = "sending" /\ master'.wait = 0
  BY DEF Ask
<1>2. log.left = 0 /\ (tx.on => tx.idx = tx.num)
  BY <1>1 DEF FrameInv, RestIn
<1>3. TxIn'  BY <1>1 DEF FrameInv, TxIn
<1>4. PendingIn'  BY <1>1 DEF FrameInv, PendingIn, Pending
<1>5. SavingIn'  BY <1>1 DEF FrameInv, SavingIn
<1>6. RestIn'  BY <1>1, <1>2 DEF RestIn
<1>7. TransferIn'  BY <1>1, <1>2 DEF TransferIn
<1> QED  BY <1>3, <1>4, <1>5, <1>6, <1>7 DEF FrameInv

LEMMA ClearFrames ==
  ASSUME IInv, FrameInv, Clear
  PROVE  FrameInv'
<1>1. /\ pc = "clear" /\ pc' = "idle" /\ UNCHANGED <<master, tx, timer, pump, log, noise>>
      /\ rx'.buf = <<>>
  BY Typed DEF Clear, RxType
<1>2. TxIn'  BY <1>1 DEF FrameInv, TxIn
<1>3. PendingIn'
  BY <1>1, RequestLong DEF PendingIn, Pending
<1>4. SavingIn'  BY <1>1 DEF SavingIn
<1>5. RestIn'  BY <1>1 DEF FrameInv, RestIn
<1>6. TransferIn'
  <2>1. SUFFICES ASSUME log.left > 0, ~tx.on PROVE QuietIn'
    BY <1>1 DEF FrameInv, TransferIn
  <2>2. QuietIn  BY <2>1 DEF FrameInv, TransferIn
  <2>3. /\ Need \in Nat /\ PumpMax \in Nat /\ LogInterval \in Nat /\ Turn \in Nat
        /\ Turn = LogInterval + Need + 3 * PumpMax
        /\ pump \in Nat /\ pump <= PumpMax /\ log.age \in Nat /\ master.wait \in Nat
    BY Constants, Numbers DEF Turn
  <2>4. PICK c \in Nat : c = Cost(noise)
    BY Numbers
  <2>5. master.wait <= c + Need + PumpMax + log.age
                       + (IF log.age = LogInterval THEN pump ELSE 0)
    <3>1. CASE Dirty
      <4>1. master.wait + Turn <= c + Need + 2 * PumpMax + LogInterval
                                    + (Need + PumpMax + pump)
        BY <1>1, <2>4, <3>1 DEF Dirty, Idled
      <4> QED  BY <2>3, <4>1
    <3>2. CASE log.age = LogInterval /\ master.wait <= Need + PumpMax + pump
      BY <2>3, <3>2
    <3> QED  BY <1>1, <2>2, <3>1, <3>2 DEF QuietIn
  <2> QED  BY <1>1, <2>4, <2>5 DEF QuietIn
<1> QED  BY <1>2, <1>3, <1>4, <1>5, <1>6 DEF FrameInv

\* The first byte of what is sent is the first of its frame.
LEMMA SendWhole ==
  ASSUME IInv, TxIn, ~tx.on, NEW f \in Frames, Send(f)
  PROVE  TxIn' /\ tx'.on /\ tx'.frame = f /\ tx'.num = FrameLen[f] /\ tx'.idx = 0
<1>1. tx = [frame |-> tx.frame, num |-> tx.num, idx |-> tx.idx, on |-> tx.on]
  BY Typed DEF TxType
<1>2. tx' = [frame |-> f, num |-> FrameLen[f], idx |-> tx.idx, on |-> TRUE]
  BY <1>1 DEF Send
<1>3. tx.idx = 0 /\ FrameLen[f] \in Nat  BY Constants DEF TxIn
<1> QED  BY <1>2, <1>3, Constants DEF TxIn

\* A poll that finds a frame due finds the one before it sent.
LEMMA DueSent ==
  ASSUME Timing, IInv, FrameInv, log.left > 0, log.age = LogInterval
  PROVE  ~tx.on
<1> SUFFICES ASSUME tx.on PROVE FALSE
  BY Numbers
<1>1. tx.frame = "log" /\ log.age <= tx.idx
  BY DEF FrameInv, TransferIn
<1>2. tx.num = FrameLen["log"] /\ tx.idx <= tx.num
  BY <1>1 DEF FrameInv, TxIn
<1> QED  BY <1>1, <1>2, Numbers, Constants DEF Timing

LEMMA PollFrames ==
  ASSUME Timing, IInv, FrameInv, Pump, rx.buf = <<>>
  PROVE  FrameInv'
<1>1. PICK readable \in BOOLEAN : LogMemorySendPoll(readable)
  BY DEF Pump
<1>2. pc = "idle" /\ pc' = "idle" /\ pump' = 0 /\ UNCHANGED <<master, rx, timer>>
  BY DEF Pump
<1>3. PendingIn'
  BY <1>2, RequestLong DEF PendingIn, Pending
<1>4. SavingIn'
  BY <1>2 DEF SavingIn
<1>5. CASE log.left > 0 /\ log.age = LogInterval
  <2>1. ~tx.on  BY <1>5, DueSent
  <2>2. log' = [left |-> log.left - 1, age |-> 0]
    BY <1>1, <1>5 DEF LogMemorySendPoll
  <2>3. master.st = "waiting" /\ master.kind = "log"
    BY <1>5, StillPatient DEF FrameInv, TransferIn
  <2>4. RestIn'  BY <1>2, <2>3 DEF RestIn
  <2>5. CASE log.left = 1
    <3>1. Send("end") /\ log'.left = 0
      BY <1>1, <1>5, <2>2, <2>5 DEF LogMemorySendPoll
    <3>2. TxIn'  BY <2>1, <3>1, SendWhole DEF FrameInv, Frames
    <3>3. TransferIn'  BY <3>1 DEF TransferIn
    <3> QED  BY <1>3, <1>4, <2>4, <3>2, <3>3 DEF FrameInv
  <2>6. CASE log.left # 1 /\ readable
    <3>1. Send("log")
      BY <1>1, <1>5, <2>6 DEF LogMemorySendPoll
    <3>2. TxIn' /\ tx'.on /\ tx'.frame = "log" /\ tx'.idx = 0
      BY <2>1, <3>1, SendWhole DEF FrameInv, Frames
    <3>3. TransferIn'
      BY <1>2, <2>2, <2>3, <3>2 DEF TransferIn
    <3> QED  BY <1>3, <1>4, <2>4, <3>2, <3>3 DEF FrameInv
  <2>7. CASE log.left # 1 /\ ~readable
    <3>1. noise' = noise + 1 /\ tx' = tx
      BY <1>1, <1>5, <2>7 DEF LogMemorySendPoll
    <3>2. TxIn'  BY <3>1 DEF FrameInv, TxIn
    <3>3. QuietIn'
      <4>1. /\ Need \in Nat /\ PumpMax \in Nat /\ LogInterval \in Nat /\ Turn \in Nat
            /\ Turn = LogInterval + Need + 3 * PumpMax
            /\ pump \in Nat /\ pump <= PumpMax /\ master.wait \in Nat /\ noise \in Nat
        BY Constants, Numbers DEF Turn
      <4>0. LogInterval > 0
        <5>1. FrameLen["log"] \in Nat  BY Constants DEF Frames
        <5> QED  BY <4>1, <5>1 DEF Timing
      <4>2. PICK c \in Nat : c = Cost(noise)
        BY Numbers
      <4>3. PICK d \in Nat : d = Cost(noise + 1) /\ c + Turn <= d
        <5>1. noise + 1 \in Nat /\ noise < noise + 1  BY <4>1
        <5> QED  BY <4>1, <4>2, <5>1, CostIn, CostGrows
      <4>4. QuietIn  BY <1>5, <2>1 DEF FrameInv, TransferIn
      <4>5. master.wait <= c + Need + PumpMax + LogInterval + pump
        BY <1>2, <1>5, <4>2, <4>4 DEF QuietIn
      <4>6. master.wait <= d + Need + PumpMax + 0 + 0
        BY <4>1, <4>3, <4>5
      <4>7. log'.age = 0 /\ log'.age # LogInterval  BY <2>2, <4>0, <4>1
      <4> QED  BY <1>2, <3>1, <4>3, <4>6, <4>7 DEF QuietIn
    <3>4. TransferIn'
      BY <1>2, <2>1, <2>3, <3>1, <3>3 DEF TransferIn
    <3> QED  BY <1>3, <1>4, <2>4, <3>2, <3>4 DEF FrameInv
  <2> QED  BY <2>5, <2>6, <2>7
<1>6. CASE ~(log.left > 0 /\ log.age = LogInterval)
  <2>1. UNCHANGED <<log, tx, noise>>
    BY <1>1, <1>6 DEF LogMemorySendPoll
  <2>2. TxIn'  BY <2>1 DEF FrameInv, TxIn
  <2>3. RestIn'  BY <1>2, <2>1 DEF FrameInv, RestIn
  <2>4. TransferIn'
    <3>1. SUFFICES ASSUME log.left > 0, ~tx.on PROVE QuietIn'
      BY <1>2, <2>1 DEF FrameInv, TransferIn
    <3>2. QuietIn /\ log.age # LogInterval
      BY <1>6, <3>1 DEF FrameInv, TransferIn
    <3> QED  BY <1>2, <2>1, <3>2 DEF QuietIn
  <2> QED  BY <1>3, <1>4, <2>2, <2>3, <2>4 DEF FrameInv
<1> QED  BY <1>5, <1>6

LEMMA TakenFrames ==
  ASSUME IInv, FrameInv, Pump, rx.buf # <<>>
  PROVE  FrameInv'
<1>1. /\ pc = "idle" /\ pc' \in {"idle", "exec"} /\ pump' = 0
      /\ pc' = "idle" => ~IsEnd
      /\ UNCHANGED <<master, rx, timer, log, tx, noise>>
  BY DEF Pump
<1>2. /\ Need \in Nat /\ PumpMax \in Nat /\ pump \in Nat /\ pump <= PumpMax
      /\ rx.age \in Nat /\ rx.age <= Need
  BY Constants, Numbers
<1>3. Idled \in Nat /\ Idled' \in Nat /\ Idled <= Idled'
  <2>1. CASE pc' = "exec"
    BY <1>1, <1>2, <2>1 DEF Idled
  <2>2. CASE pc' = "idle"
    <3>1. rx.age > 0  BY <1>1, <1>2, <2>2 DEF IsEnd
    <3> QED  BY <1>1, <1>2, <2>2, <3>1 DEF Idled
  <2> QED  BY <1>1, <2>1, <2>2
<1>4. PICK i \in Nat, j \in Nat : i = Idled /\ j = Idled' /\ i <= j
  BY <1>3
<1>5. master.wait \in Nat  BY Numbers
<1>6. TxIn'  BY <1>1 DEF FrameInv, TxIn
<1>7. PendingIn'
  <2> SUFFICES ASSUME NEW k \in Kinds, rx.buf = Request(k)
               PROVE  /\ master.st = "waiting" /\ master.kind = k
                      /\ ~tx.on /\ log.left = 0 /\ master.wait <= j
    BY <1>1, <1>4 DEF PendingIn, Pending
  <2> QED  BY <1>1, <1>4, <1>5 DEF FrameInv, PendingIn, Pending
<1>8. SavingIn'  BY <1>1 DEF SavingIn
<1>9. RestIn'  BY <1>1 DEF FrameInv, RestIn
<1>10. TransferIn'
  <2>1. SUFFICES ASSUME log.left > 0
                 PROVE  noise > 0 /\ (~tx.on => QuietIn')
    BY <1>1 DEF FrameInv, TransferIn
  <2>2. noise > 0 /\ (~tx.on => Dirty)
    BY <1>1, <2>1 DEF FrameInv, TransferIn, QuietIn
  <2>3. ASSUME Dirty PROVE Dirty'
    <3>1. PICK c \in Nat : c = Cost(noise)  BY Numbers
    <3>2. Turn \in Nat /\ LogInterval \in Nat  BY Constants
    <3>3. master.wait + Turn <= c + Need + 2 * PumpMax + LogInterval + i
      BY <1>4, <2>3, <3>1 DEF Dirty
    <3>4. master.wait + Turn <= c + Need + 2 * PumpMax + LogInterval + j
      BY <1>2, <1>4, <1>5, <3>2, <3>3
    <3> QED  BY <1>1, <1>4, <2>2, <3>1, <3>4 DEF Dirty
  <2> QED  BY <1>1, <2>2, <2>3 DEF QuietIn
<1> QED  BY <1>6, <1>7, <1>8, <1>9, <1>10 DEF FrameInv

\* What is executed is the request of the waiting master, or no request at all.
LEMMA ExecFrames ==
  ASSUME Timing, IInv, FrameInv, Exec
  PROVE  FrameInv'
<1>1. pc = "exec" /\ UNCHANGED <<master, rx, pump, noise>>
  BY DEF Exec
<1>2. /\ Need \in Nat /\ PumpMax \in Nat /\ SaveMax \in Nat /\ LogInterval \in Nat
      /\ pump \in Nat /\ pump <= PumpMax /\ master.wait \in Nat
  BY Constants, Numbers
<1>3. Idled = Need + PumpMax + pump  BY <1>1 DEF Idled
<1>4. ASSUME NEW k \in Kinds, rx.buf = Request(k)
      PROVE  /\ master.st = "waiting" /\ master.kind = k /\ ~tx.on /\ log.left = 0
             /\ master.wait <= Need + PumpMax + pump
  BY <1>1, <1>3, <1>4 DEF FrameInv, PendingIn, Pending
<1>5. CASE pc' = "clear" /\ log' = log /\ \E k \in Kinds : rx.buf = Request(k)
  <2>1. PICK k \in Kinds : rx.buf = Request(k)
    BY <1>5
  <2>2. /\ master.st = "waiting" /\ ~tx.on /\ log.left = 0
    BY <1>4, <2>1
  <2>3. tx' = tx \/ \E f \in Frames : Send(f)
    BY DEF Exec, Frames
  <2>4. TxIn'
    <3>1. CASE tx' = tx  BY <3>1 DEF FrameInv, TxIn
    <3>2. CASE \E f \in Frames : Send(f)
      BY <2>2, <3>2, SendWhole DEF FrameInv
    <3> QED  BY <2>3, <3>1, <3>2
  <2>5. PendingIn'  BY <1>5 DEF PendingIn, Pending
  <2>6. SavingIn'  BY <1>5 DEF SavingIn
  <2>7. RestIn'  BY <1>1, <2>2 DEF RestIn
  <2>8. TransferIn'  BY <1>5, <2>2, Numbers DEF TransferIn
  <2> QED  BY <2>4, <2>5, <2>6, <2>7, <2>8 DEF FrameInv
<1>6. CASE /\ rx.buf = Request("write") /\ pc' = "saving" /\ timer' \in 1..SaveMax
           /\ tx' = tx /\ log' = log
  <2>1. /\ master.st = "waiting" /\ ~tx.on /\ log.left = 0
        /\ master.wait <= Need + PumpMax + pump
    BY <1>4, <1>6 DEF Kinds
  <2>2. master'.wait + timer' <= Need + 2 * PumpMax + SaveMax
    <3>1. PICK t \in 1..SaveMax : t = timer'  BY <1>6
    <3>2. master.wait + t <= Need + 2 * PumpMax + SaveMax
      BY <1>2, <2>1, <3>1
    <3> QED  BY <1>1, <3>1, <3>2
  <2>3. TxIn'  BY <1>6 DEF FrameInv, TxIn
  <2>4. PendingIn'  BY <1>6 DEF PendingIn, Pending
  <2>5. SavingIn'  BY <1>1, <1>6, <2>1, <2>2 DEF SavingIn
  <2>6. RestIn'  BY <1>1, <2>1 DEF RestIn
  <2>7. TransferIn'  BY <1>6, <2>1, Numbers DEF TransferIn
  <2> QED  BY <2>3, <2>4, <2>5, <2>6, <2>7 DEF FrameInv
<1>7. CASE /\ rx.buf = Request("log") /\ pc' = "clear" /\ tx' = tx
           /\ log' \in [left : 1..(MaxLog + 1), age : {LogInterval}]
  <2>1. /\ master.st = "waiting" /\ master.kind = "log" /\ ~tx.on
        /\ master.wait <= Need + PumpMax + pump
    BY <1>4, <1>7 DEF Kinds
  <2>2. TxIn'  BY <1>7 DEF FrameInv, TxIn
  <2>3. PendingIn'  BY <1>7 DEF PendingIn, Pending
  <2>4. SavingIn'  BY <1>7 DEF SavingIn
  <2>5. RestIn'  BY <1>1, <2>1 DEF RestIn
  <2>6. QuietIn'  BY <1>1, <1>7, <2>1 DEF QuietIn
  <2>7. TransferIn'  BY <1>1, <1>7, <2>1, <2>6 DEF TransferIn
  <2> QED  BY <2>2, <2>3, <2>4, <2>5, <2>7 DEF FrameInv
<1>8. CASE /\ \A k \in Kinds : rx.buf # Request(k)
           /\ pc' = "clear" /\ UNCHANGED <<tx, timer, log>>
  <2>1. TxIn'  BY <1>8 DEF FrameInv, TxIn
  <2>2. PendingIn'  BY <1>8 DEF PendingIn, Pending
  <2>3. SavingIn'  BY <1>8 DEF SavingIn
  <2>4. RestIn'  BY <1>1, <1>8 DEF FrameInv, RestIn
  <2>5. TransferIn'
    <3> SUFFICES ASSUME log.left > 0
                 PROVE  noise > 0 /\ (~tx.on => QuietIn')
      BY <1>1, <1>8 DEF FrameInv, TransferIn
    <3>1. noise > 0 /\ (~tx.on => Dirty)
      BY <1>1 DEF FrameInv, TransferIn, QuietIn
    <3>2. Dirty => Dirty'
      BY <1>1, <1>8 DEF Dirty, Idled
    <3> QED  BY <1>8, <3>1, <3>2 DEF QuietIn
  <2> QED  BY <2>1, <2>2, <2>3, <2>4, <2>5 DEF FrameInv
<1> QED  BY <1>5, <1>6, <1>7, <1>8 DEF Exec, Kinds

LEMMA SavedFrames ==
  ASSUME Timing, IInv, FrameInv, Saved
  PROVE  FrameInv'
<1>1. /\ pc = "saving" /\ Send("write") /\ UNCHANGED <<master, rx, pump, log, noise>>
      /\ (pc' = "delay" /\ timer' = ResetDelay) \/ pc' = "clear"
  BY DEF Saved
<1>2. master.st = "waiting" /\ ~tx.on /\ log.left = 0
  BY <1>1 DEF FrameInv, SavingIn
<1>3. /\ TxIn' /\ tx'.on /\ tx'.num = FrameLen["write"] /\ tx'.idx = 0
  BY <1>1, <1>2, SendWhole DEF FrameInv, Frames
<1>4. PendingIn'  BY <1>1 DEF PendingIn, Pending
<1>5. SavingIn'
  <2>1. FrameLen["write"] - 0 <= ResetDelay
    BY Constants DEF Timing, Frames
  <2> QED  BY <1>1, <1>2, <1>3, <2>1 DEF SavingIn
<1>6. RestIn'  BY <1>1, <1>2 DEF RestIn
<1>7. TransferIn'  BY <1>1, <1>2, Numbers DEF TransferIn
<1> QED  BY <1>3, <1>4, <1>5, <1>6, <1>7 DEF FrameInv

LEMMA FramesInit == UartInit => FrameInv
<1> SUFFICES ASSUME UartInit PROVE FrameInv
  OBVIOUS
<1>1. /\ master.st = "idle" /\ master.wait = 0 /\ pc = "idle" /\ rx.buf = <<>>
      /\ tx.on = FALSE /\ tx.idx = 0 /\ log.left = 0
  BY DEF UartInit, NoBytes, Silent, NoLog
<1>2. TxIn  BY <1>1 DEF TxIn
<1>3. PendingIn  BY <1>1, RequestLong DEF PendingIn, Pending
<1>4. SavingIn  BY <1>1 DEF SavingIn
<1>5. RestIn  BY <1>1 DEF RestIn
<1>6. TransferIn  BY <1>1 DEF TransferIn
<1> QED  BY <1>2, <1>3, <1>4, <1>5, <1>6 DEF FrameInv

-------------------------------------------------------------------------------
(* Resets and the sleep: after them, and when nothing is in hand, everything     *)
(* starts anew.                                                                  *)

\* What holds whatever a sleep has cut.
Base == /\ ~tx.on => tx.idx = 0
        /\ master.st # "waiting" => master.wait = 0

\* While the pack sleeps nothing is in hand, unless the sleep cut into it.
SleepIn == /\ pc \in Down => ~tx.on /\ log.left = 0
           /\ Deaf => rx.buf = <<>>

Good == FrameInv /\ SleepIn

LEMMA RestFrames ==
  ASSUME Base', ~tx'.on, log'.left = 0, pc' \in Down \union {"idle"},
         pc' # "drowsing" => rx'.buf = <<>>
  PROVE  Good'
<1>1. TxIn'  BY DEF Base, TxIn
<1>2. PendingIn'
  <2> SUFFICES ASSUME NEW k \in Kinds, pc' \in {"idle", "exec"}, rx'.buf = Request(k)
               PROVE  FALSE
    BY DEF PendingIn, Pending
  <2> QED  BY RequestLong DEF Down
<1>3. SavingIn'  BY DEF SavingIn, Down
<1>4. RestIn'  BY DEF Base, RestIn
<1>5. TransferIn'  BY DEF TransferIn
<1>6. SleepIn'  BY DEF SleepIn, Deaf, Down
<1> QED  BY <1>1, <1>2, <1>3, <1>4, <1>5, <1>6 DEF Good, FrameInv

LEMMA BaseInit == UartInit => Base
BY DEF UartInit, Silent, Base

LEMMA BaseKept ==
  ASSUME IInv, Base, [UartNext]_uartVars
  PROVE  Base'
<1>1. CASE Tick
  <2>1. PICK heard \in BOOLEAN : master' = Listened(heard)
    BY <1>1 DEF Tick
  <2>2. master'.st # "waiting" => master'.wait = 0
    <3>1. /\ master = [st |-> master.st, kind |-> master.kind,
                       sent |-> master.sent, wait |-> master.wait]
          /\ master.st \in {"idle", "sending", "waiting"}
      BY Typed DEF MasterType
    <3>2. CASE master.st = "idle"
      BY <2>1, <3>2 DEF Listened, Base
    <3>3. CASE master.st = "sending"
      BY <2>1, <3>1, <3>3 DEF Listened, Base
    <3>4. CASE master.st = "waiting"
      <4> DEFINE heardIt == FrameEnds /\ heard /\ tx.frame = Answer[master.kind]
      <4>1. CASE heardIt
        BY <2>1, <3>1, <3>4, <4>1 DEF Listened
      <4>2. CASE ~heardIt /\ OnAir
        BY <2>1, <3>1, <3>4, <4>2 DEF Listened
      <4>3. CASE ~heardIt /\ ~OnAir
        <5>1. master' = IF master.wait < Patience THEN [master EXCEPT !.wait = @ + 1]
                        ELSE [master EXCEPT
                                !.st = IF master.kind = "other" THEN "idle" ELSE "sending",
                                !.wait = 0]
          BY <2>1, <3>4, <4>3 DEF Listened
        <5> QED  BY <3>1, <3>4, <5>1
      <4> QED  BY <4>1, <4>2, <4>3
    <3> QED  BY <3>1, <3>2, <3>3, <3>4
  <2>3. ~tx'.on => tx'.idx = 0
    <3>1. tx' = Transmitted  BY <1>1 DEF Tick
    <3>2. tx = [frame |-> tx.frame, num |-> tx.num, idx |-> tx.idx, on |-> tx.on]
      BY Typed DEF TxType
    <3>3. CASE ~OnAir  BY <3>1, <3>3 DEF Transmitted, Base
    <3>4. CASE OnAir  BY <3>1, <3>2, <3>4 DEF Transmitted, OnAir
    <3> QED  BY <3>3, <3>4
  <2> QED  BY <2>2, <2>3 DEF Base
<1>2. CASE UNCHANGED master /\ (tx' = tx \/ tx' = Silent \/ \E f \in Frames : Send(f))
  <2>1. CASE tx' = tx  BY <1>2, <2>1 DEF Base
  <2>2. CASE tx' = Silent  BY <1>2, <2>2 DEF Base, Silent
  <2>3. CASE \E f \in Frames : Send(f)
    <3>1. PICK f \in Frames : Send(f)  BY <2>3
    <3>2. tx = [frame |-> tx.frame, num |-> tx.num, idx |-> tx.idx, on |-> tx.on]
      BY Typed DEF TxType
    <3>3. tx'.on  BY <3>1, <3>2 DEF Send
    <3> QED  BY <1>2, <3>3 DEF Base
  <2> QED  BY <1>2, <2>1, <2>2, <2>3
<1>3. CASE \E k \in Kinds : Ask(k)
  BY <1>3 DEF Ask, Base
<1>4. CASE Pump
  <2>1. tx' = tx \/ Send("end") \/ Send("log")
    BY <1>4 DEF Pump, LogMemorySendPoll
  <2> QED  BY <1>2, <1>4, <2>1 DEF Pump, Frames
<1>5. CASE Exec
  <2>1. tx' = tx \/ Send("read") \/ Send("write") \/ Send("err")
    BY <1>5 DEF Exec
  <2> QED  BY <1>2, <1>5, <2>1 DEF Exec, Frames
<1>6. CASE Saved
  BY <1>2, <1>6 DEF Saved, Frames
<1>7. CASE Reset \/ ResetElsewhere
  BY <1>2, <1>7 DEF Reset, ResetElsewhere, Restarted
<1>8. CASE Clear \/ Drowse \/ Sleep \/ Rouse \/ Wake
  BY <1>2, <1>8 DEF Clear, Drowse, Sleep, Rouse, Wake
<1>9. CASE UNCHANGED uartVars
  BY <1>2, <1>9 DEF uartVars
<1> QED
  BY <1>1, <1>3, <1>4, <1>5, <1>6, <1>7, <1>8, <1>9 DEF UartNext, Loop

\* A reset leaves nothing in hand.
LEMMA RestartedGood == Base' /\ Restarted => Good'
<1> SUFFICES ASSUME Base', Restarted PROVE Good'
  OBVIOUS
<1>1. ~tx'.on /\ log'.left = 0 /\ rx'.buf = <<>> /\ pc' = "idle"
  BY DEF Restarted, Silent, NoLog, NoBytes
<1> QED  BY <1>1, RestFrames

\* A tick of the sleep, if nothing is in hand.
LEMMA NightTick ==
  ASSUME IInv, Base', SleepIn, Tick, pc \in Down
  PROVE  Good'
<1>1. ~tx.on /\ log.left = 0  BY DEF SleepIn
<1>2. tx' = tx  BY <1>1 DEF Tick, Transmitted, OnAir
<1>3. log'.left = 0
  <2>1. log = [left |-> log.left, age |-> log.age]  BY Typed DEF LogType
  <2> QED  BY <1>1, <2>1 DEF Tick
<1>4. pc' = pc \/ (pc = "asleep" /\ pc' = "waking")  BY DEF Tick
<1>5. ASSUME pc' # "drowsing" PROVE rx'.buf = <<>>
  <2>1. Deaf  BY <1>4, <1>5 DEF Deaf, Down
  <2>2. rx' = Received(<<>>)  BY <2>1 DEF Tick
  <2>3. rx = [buf |-> rx.buf, age |-> rx.age]  BY Typed DEF RxType
  <2> QED  BY <2>1, <2>2, <2>3 DEF Received, SleepIn
<1>6. pc' \in Down  BY <1>4 DEF Down
<1> QED  BY <1>1, <1>2, <1>3, <1>5, <1>6, RestFrames

\* Outside the sleep its part says nothing.
LEMMA AwakeGood ==
  ASSUME FrameInv', pc' \notin Down
  PROVE  Good'
BY DEF Good, SleepIn, Deaf, Down

\* Falling asleep with nothing in hand, and coming back from such a sleep.
LEMMA SleepGood ==
  ASSUME Base', Good, Drowse \/ Sleep \/ Rouse \/ Wake
  PROVE  torn' = TRUE \/ Good'
<1>1. CASE (Drowse \/ Sleep) /\ ~Rested
  BY <1>1 DEF Drowse, Sleep
<1>2. CASE (Drowse \/ Sleep) /\ Rested
  <2>1. /\ UNCHANGED <<rx, tx, log>> /\ pc' \in Down
        /\ rx.buf = <<>> /\ ~tx.on /\ log.left = 0
    BY <1>2 DEF Drowse, Sleep, Down, Rested
  <2> QED  BY <2>1, RestFrames
<1>3. CASE Rouse \/ Wake
  <2>1. /\ UNCHANGED <<rx, tx, log>> /\ pc \in Down /\ Deaf
        /\ pc' \in Down \union {"idle"}
    BY <1>3 DEF Rouse, Wake, Down, Deaf
  <2>2. ~tx.on /\ log.left = 0 /\ rx.buf = <<>>
    BY <2>1 DEF Good, SleepIn
  <2> QED  BY <2>1, <2>2, RestFrames
<1> QED  BY <1>1, <1>2, <1>3

LEMMA GoodKept ==
  ASSUME Timing, IInv, Base, Good, [UartNext]_uartVars
  PROVE  torn' = TRUE \/ Good'
<1>0. FrameInv /\ SleepIn /\ Base'  BY BaseKept DEF Good
<1>1. CASE UNCHANGED uartVars
  BY <1>1 DEF uartVars, Good, FrameInv, SleepIn, Deaf, TxIn, PendingIn, Pending, SavingIn,
              RestIn, TransferIn, QuietIn, Dirty, Idled
<1>2. CASE Tick /\ pc \in Down
  BY <1>0, <1>2, NightTick
<1>3. CASE Tick /\ pc \notin Down
  <2>1. FrameInv' /\ pc' = pc  BY <1>0, <1>3, TickFrames, TickRx DEF DayTick
  <2> QED  BY <1>3, <2>1, AwakeGood
<1>4. CASE Pump
  <2>1. FrameInv'  BY <1>0, <1>4, PollFrames, TakenFrames
  <2>2. pc' \notin Down  BY <1>4 DEF Pump, Down
  <2> QED  BY <2>1, <2>2, AwakeGood
<1>5. CASE Exec \/ Saved \/ Clear
  <2>1. FrameInv'  BY <1>0, <1>5, ExecFrames, SavedFrames, ClearFrames
  <2>2. pc' \notin Down  BY <1>5 DEF Exec, Saved, Clear, Down
  <2> QED  BY <2>1, <2>2, AwakeGood
<1>6. CASE Reset \/ ResetElsewhere
  BY <1>0, <1>6, RestartedGood DEF Reset, ResetElsewhere
<1>7. CASE Drowse \/ Sleep \/ Rouse \/ Wake
  BY <1>0, <1>7, SleepGood
<1>8. CASE \E k \in Kinds : Ask(k)
  <2>1. PICK k \in Kinds : Ask(k)  BY <1>8
  <2>2. FrameInv' /\ UNCHANGED <<pc, rx, tx, log>>
    BY <1>0, <2>1, AskFrames DEF Ask
  <2>3. SleepIn'  BY <1>0, <2>2 DEF SleepIn, Deaf
  <2> QED  BY <2>2, <2>3 DEF Good
<1> QED
  BY <1>1, <1>2, <1>3, <1>4, <1>5, <1>6, <1>7, <1>8 DEF UartNext, Loop

\* What a sleep tore is over when a visit of the loop finds nothing in hand.
LEMMA TornKept ==
  ASSUME IInv, Base, torn, [UartNext]_uartVars
  PROVE  torn' = TRUE \/ Good'
<1>0. Base'  BY BaseKept
<1>1. torn = TRUE  BY Typed
<1>2. CASE Pump /\ Rested
  <2>1. UNCHANGED <<rx, tx>> /\ rx.buf = <<>> /\ ~tx.on /\ log'.left = 0 /\ pc' = "idle"
    <3>1. log.left = 0 /\ rx.buf = <<>> /\ ~tx.on  BY <1>2 DEF Rested
    <3>2. PICK readable \in BOOLEAN : LogMemorySendPoll(readable)
      BY <1>2, <3>1 DEF Pump
    <3>3. UNCHANGED <<log, tx>>  BY <3>1, <3>2 DEF LogMemorySendPoll
    <3> QED  BY <1>2, <3>1, <3>3 DEF Pump
  <2> QED  BY <1>0, <2>1, RestFrames
<1>3. CASE Pump /\ ~Rested
  BY <1>1, <1>3 DEF Pump
<1>4. CASE Reset \/ ResetElsewhere
  BY <1>0, <1>4, RestartedGood DEF Reset, ResetElsewhere
<1>5. CASE Tick \/ Exec \/ Saved \/ Clear \/ UNCHANGED uartVars
  BY <1>1, <1>5 DEF Tick, Exec, Saved, Clear, uartVars
<1>6. CASE Drowse \/ Sleep \/ Rouse \/ Wake
  BY <1>1, <1>6 DEF Drowse, Sleep, Rouse, Wake
<1>7. CASE \E k \in Kinds : Ask(k)
  BY <1>1, <1>7 DEF Ask
<1> QED
  BY <1>2, <1>3, <1>4, <1>5, <1>6, <1>7 DEF UartNext, Loop

\* Nothing is handed over while a frame is being sent, and only another channel resets.
LEMMA FrameStep ==
  ASSUME Timing, IInv, Good, tx.on, UartNext
  PROVE  \/ /\ tx'.on /\ tx'.frame = tx.frame
            /\ tx'.num = tx.num /\ tx'.idx >= tx.idx
         \/ ~tx'.on /\ tx.idx = tx.num
         \/ ResetElsewhere
<1>0. tx.idx \in Nat /\ tx.num \in Nat /\ tx.idx <= tx.num /\ FrameInv /\ pc \notin Down
  BY Numbers DEF Good, FrameInv, SleepIn, TxIn
<1>1. CASE tx' = tx
  BY <1>0, <1>1
<1>2. CASE Tick
  <2>0. DayTick  BY <1>0, <1>2 DEF DayTick
  <2>1. CASE tx.idx < tx.num
    <3>1. /\ tx'.on /\ tx'.idx = tx.idx + 1 /\ tx'.frame = tx.frame /\ tx'.num = tx.num
      BY <1>0, <2>0, <2>1, TickTx DEF FrameInv
    <3> QED  BY <1>0, <3>1
  <2>2. CASE tx.idx = tx.num
    BY <1>0, <2>0, <2>2, TickTx DEF FrameInv
  <2> QED  BY <1>0, <2>1, <2>2
<1>3. CASE Pump
  <2>1. ~(log.left > 0 /\ log.age = LogInterval)
    BY <1>0, DueSent
  <2>2. tx' = tx
    BY <1>3, <2>1 DEF Pump, LogMemorySendPoll
  <2> QED  BY <1>1, <2>2
<1>4. CASE Exec
  <2>1. \A k \in Kinds : rx.buf # Request(k)
    BY <1>0, <1>4 DEF FrameInv, PendingIn, Pending, Exec
  <2>2. tx' = tx
    BY <1>4, <2>1 DEF Exec, Kinds
  <2> QED  BY <1>1, <2>2
<1>5. CASE Saved
  BY <1>0, <1>5 DEF Saved, FrameInv, SavingIn
<1>6. CASE Reset
  <2>1. tx.num - tx.idx <= 0  BY <1>0, <1>6 DEF Reset, FrameInv, SavingIn
  <2>2. ~tx'.on  BY <1>6 DEF Reset, Restarted, Silent
  <2> QED  BY <1>0, <2>1, <2>2
<1>7. CASE Clear \/ Drowse \/ Sleep \/ Rouse \/ Wake \/ \E k \in Kinds : Ask(k)
  BY <1>1, <1>7 DEF Clear, Drowse, Sleep, Rouse, Wake, Ask
<1> QED
  BY <1>2, <1>3, <1>4, <1>5, <1>6, <1>7 DEF UartNext, Loop

\* What the loop has in hand and how far the frame being sent is, in every reachable
\* state that no sleep has torn.
FInv == IInv /\ Base /\ (torn = TRUE \/ Good)

LEMMA FramesInvariance == ASSUME Timing PROVE UartSpec => []FInv
<1>1. UartInit => FInv
  <2> SUFFICES ASSUME UartInit PROVE FInv
    OBVIOUS
  <2>1. FrameInv /\ SleepIn
    BY FramesInit DEF SleepIn, Deaf, Down, UartInit
  <2> QED  BY <2>1, UartInitGood, BaseInit DEF FInv, Good
<1>2. FInv /\ [UartNext]_uartVars => FInv'
  <2> SUFFICES ASSUME FInv, [UartNext]_uartVars PROVE FInv'
    OBVIOUS
  <2>1. IInv' /\ Base'  BY UartInductive, BaseKept DEF FInv
  <2>2. torn' = TRUE \/ Good'  BY GoodKept, TornKept DEF FInv
  <2> QED  BY <2>1, <2>2 DEF FInv
<1> QED
  BY <1>1, <1>2, PTL DEF UartSpec

\* With the delays of Timing every frame handed to the transmit interrupt is sent to
\* its last byte (SCI_GeneralSendParamOut, LogMemorySendPoll, the Delay_ms before
\* NVIC_SystemReset), unless another channel resets the MCU or the pack fell asleep
\* with something in hand.
THEOREM WholeFramesHolds == ASSUME Timing PROVE UartSpec => WholeFrames
<1>1. FInv /\ [UartNext]_uartVars
        => [tx.on /\ ~torn => \/ /\ tx'.on /\ tx'.frame = tx.frame
                                 /\ tx'.num = tx.num /\ tx'.idx >= tx.idx
                              \/ ~tx'.on /\ tx.idx = tx.num
                              \/ ResetElsewhere]_uartVars
  BY FrameStep DEF FInv
<1> QED
  BY <1>1, FramesInvariance, PTL DEF UartSpec, WholeFrames

\* With the delays of Timing no request of the master meets a frame of the channel on
\* the line (LogMemorySendPoll, ExecMainMsgProcess), as long as no sleep has cut into
\* what was in hand.
THEOREM OneTalksHolds == ASSUME Timing PROVE UartSpec => []OneTalks
<1>1. FInv => OneTalks
  BY DEF FInv, Good, FrameInv, RestIn, OneTalks
<1> QED
  BY <1>1, FramesInvariance, PTL
===============================================================================
