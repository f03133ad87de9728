----------------------------- MODULE MapGrowth -----------------------------
(***************************************************************************)
(* The sizes of an unordered_map_file that is given one new key after      *)
(* another: M_elem and M_buckets of module UnorderedMapFile, without the   *)
(* slots, so that tables of many millions of slots can be followed.        *)
(***************************************************************************)
EXTENDS NextSize

CONSTANTS InitialBuckets, M_bucket_choices

VARIABLES M_buckets, M_elem

vars == <<M_buckets, M_elem>>

(* A full table that was constructed with InitialBuckets. *)
Init ==
  /\ M_buckets = next_larger(M_bucket_choices, InitialBuckets)
  /\ M_elem = M_buckets

reserve_choice(buckets) ==
  LET new_buckets == next_size(M_bucket_choices, buckets, TRUE, M_elem)
  IN  IF new_buckets = Refused THEN M_buckets ELSE new_buckets

(* emplace of a key that is not there returns only if there is room. *)
Emplace ==
  /\ M_buckets' = IF M_elem = M_buckets THEN reserve_choice(M_buckets + 1) ELSE M_buckets
  /\ M_elem < M_buckets'
  /\ M_elem' = M_elem + 1

Spec == Init /\ [][Emplace]_vars

(* Growth makes room for one more element unless max_size() is reached:    *)
(* next_size returns the "next preffered size if can. otherwise minimum    *)
(* buckets accounted for load factor" (unordered_map.h, next_size).        *)
GrowthMakesRoom ==
  M_elem = M_buckets /\ M_buckets < MaxSize => reserve_choice(M_buckets + 1) > M_buckets
=============================================================================
