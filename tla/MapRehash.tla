----------------------------- MODULE MapRehash -----------------------------
(***************************************************************************)
(* unordered_map_file with the two operations that change its number of    *)
(* slots on request: rehash, and reserve, which is another name for it.    *)
(***************************************************************************)
EXTENDS UnorderedMapFile, Rehash

CONSTANT Requests    \* the arguments rehash is called with

ASSUME RequestsAssumption == Requests \subseteq Nat

RehashSize(buckets) == next_size(M_bucket_choices, buckets, buckets > M_buckets, M_elem)

PlanTo(B) == Plan(keys, M_buckets, B)

(* A refused size makes the constructor of the vector throw: like the size *)
(* the table has, it changes nothing.                                      *)
NoRehash ==
  /\ ret' = NoCall
  /\ UNCHANGED <<table, status>>

(* Placing an element looks for room in the vector for ever when there are *)
(* too many of them.                                                       *)
RehashTo(B, plan) ==
  \/ plan.loops /\ Loops
  \/ /\ ~plan.loops
     /\ M_file' = Moved(M_file, plan, M_buckets, B)
     /\ M_buckets' = B
     /\ ret' = NoCall
     /\ UNCHANGED <<M_elem, status>>

(* From no slots the search for the first element reads what is not        *)
(* mapped, and to no slots every element is hashed modulo zero.            *)
Unmapped(B) == M_buckets = 0 \/ (B = 0 /\ Occupied # {})

rehash(buckets) ==
  LET B    == RehashSize(buckets)
      same == B \in {M_buckets, Refused}
  IN  /\ Running
      /\ \/ same /\ NoRehash
         \/ ~same /\ Unmapped(B) /\ Traps
         \/ ~same /\ ~Unmapped(B) /\ RehashTo(B, PlanTo(B))

RehashNext == Next \/ \E n \in Requests : rehash(n)

RehashSpec == Init /\ [][RehashNext]_vars
-----------------------------------------------------------------------------
(* Properties. *)

UniqueKeys == \A i, j \in Occupied : M_file[i].key = M_file[j].key => i = j

(* Whenever a rehash is asked for, the first pass gives every element a    *)
(* slot of its own and the moves inside the one file end in exactly that   *)
(* layout, whatever the order of the chains: unless a chain closes, or the *)
(* table held two elements with one key.                                   *)
FollowsPlan(B, plan) ==
  ~plan.loops =>
    /\ {plan.second[j] : j \in Slots(B)} \ {Free} = Occupied
    /\ HasCycle(plan) \/ Moved(M_file, plan, M_buckets, B) = Planned(M_file, plan, B)

MovesFollowPlan ==
  UniqueKeys =>
    \A n \in Requests :
      RehashSize(n) \in {0, M_buckets, Refused} \/ FollowsPlan(RehashSize(n), PlanTo(RehashSize(n)))

(* A rehash only moves elements: "Check to see when elements are moved     *)
(* around that they still exist" (tests_impl/thourough/README.md).          *)
RehashKeepsElements ==
  [][(\E n \in Requests : rehash(n)) =>
       OthersThan(Free, M_file', M_buckets') = OthersThan(Free, M_file, M_buckets)]_vars
=============================================================================
