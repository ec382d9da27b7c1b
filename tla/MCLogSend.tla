------------------------------ MODULE MCLogSend ------------------------------
(* An area of three sectors of two records, written around almost twice. *)
EXTENDS LogSend

MCCounts == {0, 2, 9}
=============================================================================
