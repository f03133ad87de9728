----------------------------- MODULE OpenAddress -----------------------------
(***************************************************************************)
(* The three open-addressing algorithms of unordered_map.h: find, emplace  *)
(* and erase by linear probing on a ring of B slots.  They are templates   *)
(* over a container; the map runs them on its element array and rehash on  *)
(* a vector of pointers, so they are stated here over the one thing both   *)
(* instantiations show them: the key of each slot, or Free.                *)
(*                                                                         *)
(* The loops only ever increment an index with wrap-around until a slot    *)
(* stops them, so each is written as the number of increments up to the    *)
(* first slot of a set of stopping slots.                                  *)
(***************************************************************************)
EXTENDS Integers, FiniteSetsExt

CONSTANTS
  Key,      \* keys; two different keys never compare equal
  Hash,     \* Hash()(k), the unreduced hash value of a key
  Free      \* content of a slot whose free flag is set

ASSUME HashAssumption == Hash \in [Key -> Nat]
ASSUME FreeAssumption == Free \notin Key

Slots(B) == 0 .. B - 1

(* The hash value "modded" by the number of buckets. *)
Home(k, B) == Hash[k] % B

(* The slot reached from i by d <= B increments with wrap-around. *)
Advance(i, d, B) == IF i + d < B THEN i + d ELSE i + d - B

(* The number of increments that lead from slot i to slot j. *)
Distance(i, j, B) == IF i <= j THEN j - i ELSE j - i + B

(* How often a loop that starts at slot i increments before it reaches a   *)
(* slot of Stop; B when it goes round the ring without meeting one.        *)
Steps(i, Stop, B) == Min({d \in 0 .. B : d = B \/ Advance(i, d, B) \in Stop})

FirstIn(i, Stop, B) == Advance(i, Steps(i, Stop, B), B)

Taken(keys, B)     == {i \in Slots(B) : keys[i] # Free}
FreeSlots(keys, B) == {i \in Slots(B) : keys[i] = Free}

(* Taken slots whose key overflowed past the end of the array: hash_eq of  *)
(* the slot with its own index yields 2.                                   *)
Overflowed(keys, B) == {i \in Taken(keys, B) : Home(keys[i], B) > i}

(* Taken slots whose key belongs exactly where it is. *)
AtHome(keys, B) == {i \in Taken(keys, B) : Home(keys[i], B) = i}

(***************************************************************************)
(* open_address_find: skip the overflow, skip the smaller hash values, and *)
(* search among the equal ones.  The slot of a miss is where the caller    *)
(* is to insert.                                                           *)
(***************************************************************************)
open_address_find(keys, k, B) ==
  LET home      == Home(k, B)
      lower     == {i \in Taken(keys, B) : Home(keys[i], B) < home}
      begin     == FirstIn(home, Slots(B) \ Overflowed(keys, B), B)
      lowerRun  == Steps(begin, Slots(B) \ lower, B)
      startSame == Advance(begin, lowerRun, B)
      same      == {i \in Taken(keys, B) : Home(keys[i], B) = home}
      sameRun   == Steps(startSame, {i \in Slots(B) : i \in same => keys[i] = k}, B)
      last      == Advance(startSame, sameRun, B)
  IN  CASE keys[begin] = Free
             -> [index |-> begin, found |-> FALSE]
        [] keys[begin] # Free /\ (lowerRun = B \/ startSame \notin same)
             -> [index |-> startSame, found |-> FALSE]
        [] OTHER
             -> [index |-> last, found |-> keys[last] = k]

(* Mutant of open_address_emplace_index: the element goes into the first   *)
(* free slot and nothing moves.                                            *)
EmplaceAtHole(keys, k, B) ==
  LET res  == open_address_find(keys, k, B)
      hole == IF res.found THEN res.index ELSE FirstIn(res.index, FreeSlots(keys, B), B)
  IN  [index |-> hole, inserted |-> ~res.found, hole |-> hole]

(***************************************************************************)
(* open_address_emplace_index: on a miss, the elements from the insertion  *)
(* slot up to the first free one ("hole") move one slot up.                *)
(***************************************************************************)
open_address_emplace_index(keys, k, B) ==
  LET res == open_address_find(keys, k, B)
  IN  [index    |-> res.index,
       inserted |-> ~res.found,
       hole     |-> IF res.found THEN res.index
                    ELSE FirstIn(res.index, FreeSlots(keys, B), B)]

(* The search for the hole has no bound: in a full container it never ends *)
(* for a key that is not there.                                            *)
EmplaceLoops(keys, k, B) ==
  FreeSlots(keys, B) = {} /\ ~open_address_find(keys, k, B).found

(* Mutant of ShiftUp: the loop stops before it reaches the hole. *)
ShiftUpOneShort(t, index, hole, B) ==
  [i \in Slots(B) |->
     IF i # index /\ Distance(index, i, B) < Distance(index, hole, B)
     THEN t[Advance(i, B - 1, B)] ELSE t[i]]

(* The ElemTransfer loop of emplace on a container t; slot index itself    *)
(* is left for the caller to construct.                                    *)
ShiftUp(t, index, hole, B) ==
  [i \in Slots(B) |->
     IF i # index /\ Distance(index, i, B) <= Distance(index, hole, B)
     THEN t[Advance(i, B - 1, B)] ELSE t[i]]

(* Mutant of open_address_erase_index: elements at home move down too. *)
EraseDragsHome(keys, k, B) ==
  LET res  == open_address_find(keys, k, B)
      next == Advance(res.index, 1, B)
      stop == FreeSlots(keys, B) \cup {res.index}
  IN  [start |-> res.index,
       last  |-> IF res.found THEN Advance(res.index, Steps(next, stop, B), B) ELSE B]

(***************************************************************************)
(* open_address_erase_index: the elements after the erased one move one    *)
(* slot down until a free slot, an element at home or the start.  The      *)
(* result is the slot left behind for the caller to free, or B on a miss.  *)
(***************************************************************************)
open_address_erase_index(keys, k, B) ==
  LET res  == open_address_find(keys, k, B)
      next == Advance(res.index, 1, B)
      stop == FreeSlots(keys, B) \cup AtHome(keys, B) \cup {res.index}
  IN  [start |-> res.index,
       last  |-> IF res.found THEN Advance(res.index, Steps(next, stop, B), B) ELSE B]

ShiftDown(t, start, last, B) ==
  [i \in Slots(B) |->
     IF Distance(start, i, B) < Distance(start, last, B)
     THEN t[Advance(i, 1, B)] ELSE t[i]]
=============================================================================
