------------------------------- MODULE Rehash -------------------------------
(***************************************************************************)
(* rehash of unordered_map.h, the part that moves elements.  A first pass  *)
(* places a pointer to every element in a vector of the new size, with     *)
(* the same open_address_emplace_index as the map; a second one moves the  *)
(* elements inside the one file, chain by chain: each slot of a chain is   *)
(* the destination of the element in the slot before it.                   *)
(***************************************************************************)
EXTENDS OpenAddress, SequencesExt

(* No old slot: what second holds of a new one nobody goes to. *)
ASSUME NoSlotAssumption == Free \notin Nat

(* invalid_index, the largest size_t: no slot. *)
Invalid == -1

(* vec of the code: first[i] is the new slot of old slot i or Invalid, and *)
(* second[j] the old slot whose element goes to new slot j or Free.        *)
EmptyPlan(oldB, newB) ==
  [first  |-> [i \in Slots(oldB) |-> Invalid],
   second |-> [j \in Slots(newB) |-> Free],
   loops  |-> FALSE]

(* Mutant of Place: first is not kept in step with shifted pointers. *)
PlaceForgetful(plan, o, index, shifted) ==
  [plan EXCEPT !.second = [shifted EXCEPT ![index] = o], !.first[o] = index]

(* The element in old slot o gets slot index, after local_elem_transfer    *)
(* has shifted the pointers in its way and kept first in step with them.   *)
Place(plan, o, index, shifted) ==
  LET slotOf(i) == {j \in DOMAIN shifted \ {index} : shifted[j] = i}
  IN  [plan EXCEPT
         !.second = [shifted EXCEPT ![index] = o],
         !.first  = [i \in DOMAIN plan.first |->
                       CASE i = o                     -> index
                         [] i # o /\ slotOf(i) # {}   -> CHOOSE j \in slotOf(i) : TRUE
                         [] OTHER                     -> plan.first[i]]]

PlaceAt(plan, o, res, newB) ==
  Place(plan, o, res.index, ShiftUp(plan.second, res.index, res.hole, newB))

PlaceKey(placed, newB, plan, k, o) ==
  IF plan.loops \/ EmplaceLoops(placed, k, newB)
  THEN [plan EXCEPT !.loops = TRUE]
  ELSE PlaceAt(plan, o, open_address_emplace_index(placed, k, newB), newB)

PlaceOne(keys, newB, plan, o) ==
  LET placed == [j \in Slots(newB) |->
                   IF plan.second[j] = Free THEN Free ELSE keys[plan.second[j]]]
  IN  IF keys[o] = Free THEN plan ELSE PlaceKey(placed, newB, plan, keys[o], o)

(* The first n old slots, in the order of the iterator, are placed. *)
PlanSoFar(keys, n, oldB, newB) ==
  LET after[m \in 0 .. n] ==
        IF m = 0 THEN EmptyPlan(oldB, newB) ELSE PlaceOne(keys, newB, after[m - 1], m - 1)
  IN  after[n]

Plan(keys, oldB, newB) == PlanSoFar(keys, oldB, oldB, newB)

-----------------------------------------------------------------------------
Destination(first, j) == IF j \in DOMAIN first THEN first[j] ELSE Invalid

(* The chain is back at one of its slots. *)
Closed(chain) == \E m \in 1 .. Len(chain) - 1 : chain[m] = Last(chain)

Finished(first, chain) == Closed(chain) \/ Destination(first, Last(chain)) = Invalid

Extended(first, chain) ==
  IF Finished(first, chain) THEN chain ELSE Append(chain, Destination(first, Last(chain)))

(* The slots of the chain that starts at i.  A slot's destination is       *)
(* invalidated when the chain passes it, so a chain that comes back to one *)
(* of its slots ends there, having listed it twice.                        *)
ChainFrom(first, i) ==
  LET N == Cardinality(DOMAIN first) + 1
      walk[n \in 0 .. N] == IF n = 0 THEN <<i>> ELSE Extended(first, walk[n - 1])
  IN  walk[N]

(* Mutant of CopyOnly: the slot of an element is freed before it is copied. *)
FreeOnly(t, from, to) == [t EXCEPT ![from] = Free]

(* One element moves: it is copied, then its own slot is freed. *)
CopyOnly(t, from, to) == [t EXCEPT ![to] = t[from]]

CopyAndFree(t, from, to) ==
  [i \in DOMAIN t |-> CASE i = from -> Free [] i = to /\ i # from -> t[from] [] OTHER -> t[i]]

(* The stack of a chain is popped n times.                                 *)
Popped(t, chain, n) ==
  LET after[k \in 0 .. n] ==
        IF k = 0 THEN t
        ELSE CopyAndFree(after[k - 1], chain[Len(chain) - k], chain[Len(chain) - k + 1])
  IN  after[n]

(* Mutant of Unwind: the chain is followed forwards. *)
UnwindForward(t, chain) ==
  LET after[k \in 0 .. Len(chain) - 1] ==
        IF k = 0 THEN t ELSE CopyAndFree(after[k - 1], chain[k], chain[k + 1])
  IN  after[Len(chain) - 1]

Unwind(t, chain) == Popped(t, chain, Len(chain) - 1)

(* One round of the second pass: a record of the file and what is left of  *)
(* first.                                                                  *)
MoveFrom(st, i) ==
  LET chain == ChainFrom(st.first, i)
  IN  IF st.first[i] \in {Invalid, i} THEN st
      ELSE [t     |-> Unwind(st.t, chain),
            first |-> [j \in DOMAIN st.first |->
                         IF j \in {chain[m] : m \in 1 .. Len(chain)} THEN Invalid ELSE st.first[j]]]

Grown(t, newB) ==
  [i \in DOMAIN t \cup Slots(newB) |-> IF i \in DOMAIN t THEN t[i] ELSE Free]

(* The file t of oldB slots, extended if need be, after the rounds of its  *)
(* first n slots.                                                          *)
MovedSoFar(t, plan, n, oldB, newB) ==
  LET after[m \in 0 .. n] ==
        IF m = 0 THEN [t |-> Grown(t, newB), first |-> plan.first] ELSE MoveFrom(after[m - 1], m - 1)
  IN  after[n]

(* And after all of them, cut to newB.                                     *)
Moved(t, plan, oldB, newB) ==
  LET done == MovedSoFar(t, plan, oldB, oldB, newB)
  IN  [i \in Slots(newB) |-> done.t[i]]

-----------------------------------------------------------------------------
(* Reference: what the plan asks for. *)
Planned(t, plan, newB) ==
  [j \in Slots(newB) |-> IF plan.second[j] = Free THEN Free ELSE t[plan.second[j]]]

(* The destinations lead back to a slot they left. *)
HasCycle(plan) ==
  \E i \in DOMAIN plan.first :
    plan.first[i] \notin {Invalid, i} /\ Closed(ChainFrom(plan.first, i))
=============================================================================
