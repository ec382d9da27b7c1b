----------------------------- MODULE ScdRecovery -----------------------------
(***************************************************************************)
(* What the rest of the program may rely on in the recovery from a short   *)
(* circuit: a probe of the load ends in a verdict, every short that is met *)
(* again is counted, and when as many were met as are allowed the recovery *)
(* gives up and waits to be cleared from outside.  The discharge FETs are  *)
(* held for the recovery while it probes, and only then: meanwhile nothing *)
(* but a diagnosis tool turns the main one on.                             *)
(*                                                                         *)
(* It does not promise that the load is probed before it is connected      *)
(* again: outside the probe the main FET is MosCtrl's, and MosCtrl does    *)
(* not look at the stage.                                                  *)
(*                                                                         *)
(* Times, measurements and the front end chip are left out.                *)
(***************************************************************************)
EXTENDS Naturals

CONSTANT MaxTries    \* shorts met again after which the recovery gives up

VARIABLES
  stage,     \* clear, waiting, probing, verifying or latched
  tries,     \* shorts met again since the recovery began
  held,      \* MosCtrl leaves the discharge FETs to the recovery
  main,      \* the main discharge FET is commanded on
  tool,      \* a diagnosis tool has taken over the FETs
  steady     \* environment: there are no more restarts

recoveryVars == <<stage, tries, held, main, tool, steady>>

Init == /\ stage = "clear"
        /\ tries = 0
        /\ held = FALSE
        /\ main = FALSE
        /\ tool = FALSE
        /\ steady = FALSE

\* To stage s with n shorts met again.
Turn(s, n) == /\ stage' = s
              /\ tries' = n
              /\ held' = (s = "probing")

\* A move of the recovery leaves the main FET alone.
Move(s, n) == Turn(s, n) /\ UNCHANGED <<main, tool, steady>>

Begin == stage = "clear" /\ Move("waiting", 0)

\* The load is tried through the pre-discharge path.
Probe == stage = "waiting" /\ Move("probing", tries)

\* No short was met: the FETs are MosCtrl's again, under observation.
Carry == stage = "probing" /\ Move("verifying", tries)

\* The short is met again, in the probe or after it.
Again == /\ stage \in {"probing", "verifying"}
         /\ Move(IF tries + 1 < MaxTries THEN "waiting" ELSE "latched", tries + 1)

\* The load is gone, or carries current without a short, or the pack is put on
\* a charger.
Clear == stage \in {"waiting", "verifying", "latched"} /\ Move("clear", 0)

\* MosCtrl, or the end of a sleep, closes the main FET at any time; MosCtrl
\* turns it on when it is not held.
Drive == /\ main' \in BOOLEAN
         /\ main' => main \/ ~held
         /\ UNCHANGED <<stage, tries, held, tool, steady>>

\* A diagnosis tool comes, with a wish of its own for the main FET, or goes.
Diagnose == /\ ~steady
            /\ tool' \in BOOLEAN
            /\ main' # main => tool'
            /\ UNCHANGED <<stage, tries, held, steady>>

\* A restart forgets all of it; a front end that does not answer keeps its FETs.
Restart == /\ ~steady /\ Turn("clear", 0)
           /\ main' \in {main, FALSE}
           /\ tool' = FALSE
           /\ UNCHANGED steady

Steady == steady' = TRUE /\ UNCHANGED <<stage, tries, held, main, tool>>

Next == Begin \/ Probe \/ Carry \/ Again \/ Clear \/ Drive \/ Diagnose \/ Restart \/ Steady

Spec == Init /\ [][Next]_recoveryVars
=============================================================================
