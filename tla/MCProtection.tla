---------------------------- MODULE MCProtection ----------------------------
(* Instances of Protection for TLC: each set of samples moves the detectors   *)
(* one run is about and leaves the others at rest.                            *)
EXTENDS Protection

Two(S)   == [f \in S |-> 2]
MCTrip   == Two(Debounced)
MCClear  == Two(Timed)

Calm == [cur |-> "idle", lvl |-> [f \in Timed |-> "release"], relief |-> FALSE,
         alarm |-> {}, mos |-> "cool", loadOff |-> TRUE, cow |-> "skip"]

\* The samples that differ from Calm in the detectors F, the current and the
\* load, and do not contradict the current: overcurrent needs its direction.
Varied(F, loads) ==
  {[Calm EXCEPT !.cur = c, !.loadOff = l,
                !.lvl = [f \in Timed |-> IF f \in F THEN v[f] ELSE "release"]] :
     c \in Current, l \in loads, v \in [F -> {"trip", "hold", "release"}]}

CalmOnly    == {Calm}

\* The load and the direction of the current: the short-circuit recovery.
ScdSamples  == Varied({}, BOOLEAN)
               \cup {[Calm EXCEPT !.alarm = {"Soc"}, !.loadOff = FALSE]}
ScdTrips    == {"SCD"}

\* What may fail is what the pre-discharge does not depend on.
ScdFailures == {{}, {"cur", "SCD", "scdR0"}}
ScdGates    == {{}, {"chg"}}

NoFailures  == {{}}
NoCommands  == {}

\* A tool takes the FETs over, shuts the outputs, or leaves.
Told(d, on) == [diag |-> d, chg |-> FALSE, dsg |-> on]
ScdCommands == {Told("basic", TRUE), Told("pro", FALSE), Told("none", FALSE)}
OneCommand  == {Told("basic", TRUE), Told("none", FALSE)}

\* Cell voltages, against the inhibit of re-charging, with an overcurrent the
\* chip trips on: its reversal branch drops Uv.  A level a detector does not
\* look at is left at "hold": that of Uv while charging, of Ov while
\* discharging, and a trip of Ov, which only the chip raises.  The relief of the
\* inhibit does not look at the current either: it comes with a discharge.
VoltSamples ==
  {s \in {[v EXCEPT !.relief = r] : v \in Varied({"Uv", "Ov"}, {TRUE}), r \in BOOLEAN} :
     /\ s.lvl["Ov"] # "trip"
     /\ s.cur = "chg" => s.lvl["Uv"] = "hold"
     /\ s.cur = "dsg" => s.lvl["Ov"] = "hold"
     /\ s.relief => s.cur = "dsg"}
VoltTrips    == {"CUV", "COV", "OCD2"}
VoltClear    == [f \in Timed |-> IF f = "Uv" THEN 2 ELSE 1]
VoltFailures == {{}, {"R0", "OCD2"}, {"CUV", "COV"}}
VoltLates    == {{}, {"CUV"}}

\* Overcurrent and temperature.  An overcurrent detector trips only on a
\* current in its direction; a hot pack trips the hot detector of the current's
\* direction and a cold one the cold detector; the MOS; the open-wire test.
At(c, f, v)  == [Calm EXCEPT !.cur = c, !.lvl[f] = v]
SoftSamples ==
  {At(c, "Uv", "release") : c \in Current}
  \cup {At("dsg", "Ocd1", v) : v \in {"trip", "hold"}}
  \cup {At("chg", "Occ1", "trip"), At("dsg", "Otd", "trip"), At("chg", "Utc", "trip")}
  \cup {[Calm EXCEPT !.mos = "hot"], [Calm EXCEPT !.cow = "open"],
        [Calm EXCEPT !.cow = "intact"], [Calm EXCEPT !.cow = "fewer"]}
SoftTrips    == {"OCD2"}
SoftFailures == {{}, {"OCD1"}}
SoftGates    == {{}, {"dsg"}, {"chg"}}
SoftTrip     == [f \in Debounced |-> IF f = "Ocd1" THEN 2 ELSE 1]
SoftClear    == [f \in Timed |-> IF f = "Ocd1" THEN 2 ELSE 1]
=============================================================================
