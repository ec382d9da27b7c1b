------------------------------- MODULE MCBalance -------------------------------
(* Two cells on all the switches; an open wire and three voltages. *)
EXTENDS Balance

MCCells == 1..2
MCVolts == 0..3
MCGaps == {0, 1}
===============================================================================
