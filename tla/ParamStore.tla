------------------------------ MODULE ParamStore ------------------------------
(***************************************************************************)
(* What the program relies on for one block of parameters kept in the      *)
(* EEPROM: the loop works with a copy in RAM; a save cannot be undone and  *)
(* may be cut off at any moment; a restart finds one of the contents that  *)
(* were handed to a save since the last one known to be stored, or finds   *)
(* the block damaged and takes a default.  It never finds a mixture.       *)
(***************************************************************************)

CONSTANTS
  Contents,   \* what the block may hold
  Defaults,   \* what it is given when it cannot be restored
  Torn        \* stands for a block that is not whole

VARIABLES
  ram,        \* the copy the program works with
  may,        \* what a restart may find in the EEPROM
  saving,     \* a save of the block is under way
  read        \* the last restart could read the EEPROM

storeVars == <<ram, may, saving, read>>

\* What a restart makes of what it finds.
Restored(found, answers) ==
  IF answers /\ found # Torn THEN {found} ELSE Defaults

Init == /\ read \in BOOLEAN
        /\ \E found \in Contents \union {Torn} :
             /\ may = {found}
             /\ ram \in Restored(found, read)
        /\ saving = FALSE

\* The program, or a master, changes the copy.
Edit == /\ ~saving
        /\ ram' \in Contents
        /\ UNCHANGED <<may, saving, read>>

\* A save begins: from here on its content may be found, or a damaged block.
BeginSave == /\ ~saving
             /\ ram' \in Contents
             /\ may' = may \union {ram', Torn}
             /\ saving' = TRUE
             /\ UNCHANGED read

\* It ends with every page stored, or without that being known.
EndSave == /\ saving
           /\ may' \in {may, {ram}}
           /\ saving' = FALSE
           /\ UNCHANGED <<ram, read>>

Restart == /\ read' \in BOOLEAN
           /\ \E found \in may : ram' \in Restored(found, read')
           /\ saving' = FALSE
           /\ UNCHANGED may

Next == Edit \/ BeginSave \/ EndSave \/ Restart

Spec == Init /\ [][Next]_storeVars
===============================================================================
