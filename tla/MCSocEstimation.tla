-------------------------- MODULE MCSocEstimation --------------------------
(* A scale of 12 units with the display held at 10 and 2. *)
EXTENDS SocEstimation

Rest == [mode |-> "other", amp |-> 0, out |-> FALSE, fwd |-> FALSE, volt |-> "within",
         moved |-> FALSE, small |-> TRUE, valid |-> TRUE, comm |-> TRUE, counted |-> TRUE]

MCSteps == {0, 1}     \* 0: less than the model's half step

\* Current either way, at and off the voltage limits; rest, with a drift of the
\* small current; a diagnosis mode under load; an AFE that is not ready.
MCSamples ==
  {[Rest EXCEPT !.mode = m, !.amp = a, !.out = (m = "dsg"), !.fwd = (m = "dsg"),
                !.small = FALSE, !.volt = v, !.moved = b] :
     m \in {"chg", "dsg"}, a \in MCSteps, v \in {"past", "within"}, b \in BOOLEAN}
  \cup {[Rest EXCEPT !.amp = 1, !.out = o] : o \in BOOLEAN}
  \cup {Rest, [Rest EXCEPT !.amp = 1, !.out = TRUE, !.fwd = TRUE, !.small = FALSE],
        [Rest EXCEPT !.valid = FALSE], [Rest EXCEPT !.comm = FALSE],
        [Rest EXCEPT !.counted = FALSE]}

MCSaved == {0, 4, 20}
MCSet   == {5, 13}
MCOcv   == {1, 6, 11}
=============================================================================
