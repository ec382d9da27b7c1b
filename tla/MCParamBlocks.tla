----------------------------- MODULE MCParamBlocks -----------------------------
EXTENDS ParamBlocks

CONSTANTS LevelPages, SpecPages, RunPages

PagesOf == [b \in Blocks |-> CASE b = "levels" -> LevelPages
                               [] b = "spec" -> SpecPages
                               [] b = "run" -> RunPages]

\* What one type is given for the pack is what its cells give, of another it is not.
ScaledOf == [t \in Data |-> {1}]
===============================================================================
