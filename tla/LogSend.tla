------------------------------- MODULE LogSend -------------------------------
(***************************************************************************)
(* The reading of a log over Modbus (ModbusPro.c): a read command starts   *)
(* the batch state machine of its channel, and LogMemorySendPoll, called   *)
(* whenever that channel's receiver is idle, sends one record each 300 ms  *)
(* while the loop goes on appending to the same ring and may restart.      *)
(* Nothing of this counts as communication: a pack without current falls   *)
(* into the shallow sleep in the middle of a long transfer, and the loop   *)
(* stands still until something wakes it (Port.c).                         *)
(*                                                                         *)
(* One channel is modelled: the three share nothing but the ring.  A frame *)
(* is sent when it is handed to the transmitter; what becomes of its bytes *)
(* is in UartChannel.                                                      *)
(***************************************************************************)
EXTENDS LogRing, Sequences

CONSTANT Counts     \* the record counts wCount a master asks for

ASSUME CountsAssumption == Counts \subseteq Nat

End == -3           \* the closing frame 0xFF 0xFF

VARIABLES
  chan,    \* s_aLogSend[ch]; newest is a history field: the newest record at the request
  sent,    \* history: the frames sent since the request
  asleep   \* the loop stands in Shallow_Sleep's wait for an interrupt

vars == <<ring, chan, sent, asleep>>

Silent == [active |-> 0, idx |-> 0, total |-> 0, avail |-> 0, newest |-> 0]

\* SCLogMemorySendData: a new command replaces a transfer under way.
Request(w) ==
  LET n == IF w < count THEN w ELSE count
  IN  /\ ~asleep
      /\ chan' = [active |-> IF n > 0 THEN 1 ELSE 2, idx |-> 0, total |-> n,
                  avail |-> count, newest |-> next - 1]
      /\ sent' = <<>>
      /\ UNCHANGED <<ring, asleep>>

\* Mutant: an index past the newest record.
AskedPast == (chan.avail - chan.idx) % IdxRange

\* dwIdx, cast to uint16_t for the read.
Asked == (chan.avail - 1 - chan.idx) % IdxRange

\* The frame LogReadByIndex lets the channel send: none if the read fails.
Frame == LET v == flash[Index(count, Asked)]
         IN  IF Asked < count /\ Marked(v) THEN <<v>> ELSE <<>>

\* Mutant of SendItem: a record that cannot be read is tried again.
SendItemRetried ==
  /\ ~asleep /\ chan.active = 1
  /\ sent' = sent \o Frame
  /\ chan' = IF Frame = <<>> THEN chan
             ELSE [chan EXCEPT !.idx = @ + 1,
                               !.active = IF chan.idx + 1 >= chan.total THEN 2 ELSE 1]
  /\ UNCHANGED <<ring, asleep>>

SendItem ==
  /\ ~asleep /\ chan.active = 1
  /\ sent' = sent \o Frame
  /\ chan' = [chan EXCEPT !.idx = @ + 1,
                          !.active = IF chan.idx + 1 >= chan.total THEN 2 ELSE 1]
  /\ UNCHANGED <<ring, asleep>>

SendEnd ==
  /\ ~asleep /\ chan.active = 2
  /\ sent' = Append(sent, End)
  /\ chan' = [chan EXCEPT !.active = 0]
  /\ UNCHANGED <<ring, asleep>>

LogMemorySendPoll == SendItem \/ SendEnd

Write == ~asleep /\ LogItemWrite /\ UNCHANGED <<chan, sent, asleep>>

\* Shallow_Sleep enters its wait and leaves it; whether a transfer is under way is
\* not looked at, and RAM is kept.
Sleep == ~asleep /\ asleep' = TRUE /\ UNCHANGED <<ring, chan, sent>>
Wake  == asleep /\ asleep' = FALSE /\ UNCHANGED <<ring, chan, sent>>

\* A restart loses the state machines.
Reset == Outage /\ chan' = Silent /\ sent' = <<>> /\ asleep' = FALSE

SendInit == Init /\ chan = Silent /\ sent = <<>> /\ asleep = FALSE

Next == \/ Write
        \/ Reset
        \/ \E w \in Counts : Request(w)
        \/ LogMemorySendPoll
        \/ Sleep
        \/ Wake

\* Awake, the message pump runs every 20 or 50 ms and finds its receiver idle; a
\* sleep is entered only after a minute of turns, hence strong fairness.  That a
\* sleep ends is not supposed.
Spec == SendInit /\ [][Next]_vars /\ SF_vars(LogMemorySendPoll)

-----------------------------------------------------------------------------
TypeOK == /\ RingTypeOK
          /\ chan.active \in 0 .. 2
          /\ chan.idx \in 0 .. chan.total /\ chan.total <= chan.avail
          /\ sent \in Seq(Nat \cup {Part, Mix, End})
          /\ asleep \in BOOLEAN

\* As long as the ring has not lapped, a transfer sends the newest record,
\* then the one before it and so on, none left out or sent twice, whatever is
\* appended meanwhile, and closes with the end frame.
FirstLapInOrder ==
  count <= Slots /\ count <= next - since /\ damaged = {} =>
    \A i \in 1 .. Len(sent) :
      sent[i] = IF i <= chan.total THEN chan.newest + 1 - i ELSE End

\* A transfer ends, however often the pack sleeps in the middle of it, unless new
\* commands keep replacing it or nothing wakes the pack any more.
TransferEnds ==
  []<>(chan.active = 0) \/ []<><<\E w \in Counts : Request(w)>>_vars \/ <>[]asleep

=============================================================================
