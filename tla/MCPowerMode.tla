----------------------------- MODULE MCPowerMode -----------------------------
(* A sample every second call, delays of two ticks, one wire and one line. *)
EXTENDS PowerMode

MCWires == {"Uart", "Afe"}
MCLines == {"Load"}
=============================================================================
