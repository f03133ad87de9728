------------------------- MODULE DurableDictionary --------------------------
(***************************************************************************)
(* What the map and its file promise together: a dictionary that outlives  *)
(* the object, and the program, unless destruct_is_wipe has bound it to    *)
(* the object's lifetime.                                                  *)
(***************************************************************************)
EXTENDS Dictionary

VARIABLES
  opened,  \* some program has the map
  wipe     \* what destruct_is_wipe was last given; FALSE when nobody has it

durableVars == <<vars, opened, wipe>>

DurableInit == Init /\ opened = TRUE /\ wipe = FALSE

Call == opened /\ Next /\ UNCHANGED <<opened, wipe>>

SetWipe ==
  /\ opened
  /\ wipe' \in BOOLEAN
  /\ Reorganise
  /\ UNCHANGED opened

(* The object is destroyed. *)
Close ==
  /\ opened /\ ~opened' /\ ~wipe'
  /\ IF wipe THEN Clear ELSE Reorganise

(* The program is killed: nothing is wiped. *)
Kill == opened /\ ~opened' /\ ~wipe' /\ Reorganise

(* A map on a new or emptied file. *)
Open == ~opened /\ opened' /\ ~wipe' /\ Clear

(* A map that preserves what is there; its answer tells it from Open. *)
Reopen ==
  /\ ~opened /\ opened' /\ ~wipe'
  /\ ret' = [ok |-> TRUE, val |-> None]
  /\ UNCHANGED dict

DurableNext == Call \/ SetWipe \/ Close \/ Kill \/ Open \/ Reopen

DurableSpec == DurableInit /\ [][DurableNext]_durableVars
=============================================================================
