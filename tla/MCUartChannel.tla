---------------------------- MODULE MCUartChannel ----------------------------
(* As on the wire, a record is longer than a request with the silence that    *)
(* ends it, and a read is answered by more than a write.                      *)
EXTENDS UartChannel

MCLen == [f \in Frames |-> CASE f = "log" -> 6 [] f = "read" -> 3 [] OTHER -> 2]

ASSUME InTime == Timing /\ KeepsAwake
=============================================================================
