----------------------------- MODULE Iterators ------------------------------
(***************************************************************************)
(* The iterators of bidirectional_openaddr.h over B slots: positions in    *)
(* the array, that step over the free ones; B is end().                    *)
(***************************************************************************)
EXTENDS OpenAddress

(* operator++.  The slot it arrives at is read before it is compared with  *)
(* the end, so also the one past the array; the step ends there in any     *)
(* case.                                                                   *)
Forward(keys, i, B) == Min({j \in i + 1 .. B : j = B \/ keys[j] # Free})

(* operator--, which has no lower end: it must not be called without a     *)
(* taken slot below.                                                       *)
Backward(keys, i) == Max({j \in 0 .. i - 1 : keys[j] # Free})

(* Mutant of begin: the first slot, taken or not. *)
BeginAtZero(keys, B) == 0

begin(keys, B) == IF keys[0] = Free THEN Forward(keys, 0, B) ELSE 0
=============================================================================
