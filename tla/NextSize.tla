------------------------------ MODULE NextSize ------------------------------
(***************************************************************************)
(* How unordered_map_file picks a number of buckets: the next of the       *)
(* configured choices, or the raw number when no choice fits.  The load    *)
(* factor is the float 1, so dividing by it is a round trip through a      *)
(* 24-bit mantissa: sizes above 2^24 come back rounded.                    *)
(***************************************************************************)
EXTENDS Integers, FiniteSetsExt

CONSTANTS
  MaxSize,     \* max_size()
  FloatExact   \* every integer up to this one is a float: 2^24

(* Sizes are modelled up to 2^25; the code's limit is 2^64 / sizeof(element). *)
ASSUME MaxSizeAssumption == FloatExact \in Nat /\ MaxSize \in 1 .. 2 * FloatExact

(* wanted_buckets / mlf, converted back to an integer: above 2^24 only even *)
(* numbers are floats, and an odd one goes to the multiple of four.        *)
ThroughFloat(n) ==
  CASE n <= FloatExact \/ n % 2 = 0 -> n
    [] n > FloatExact /\ n % 4 = 1  -> n - 1
    [] OTHER                        -> n + 1

(* The size that stands for "invalid parameters". *)
Refused == MaxSize + 1

(* next_size with larger set: the first choice that is large enough. *)
next_larger(choices, wanted) ==
  LET min_buckets == ThroughFloat(wanted)
      fitting     == {c \in choices : c >= min_buckets}
  IN  CASE wanted > MaxSize                  -> Refused
        [] wanted <= MaxSize /\ fitting = {} -> min_buckets
        [] OTHER                             -> Min(fitting)

(* And without it: the last choice that is small enough. *)
next_smaller(choices, wanted) ==
  LET min_buckets == ThroughFloat(wanted)
      fitting     == {c \in choices : c <= min_buckets}
  IN  CASE wanted > MaxSize                  -> Refused
        [] wanted <= MaxSize /\ fitting = {} -> min_buckets
        [] OTHER                             -> Max(fitting)

(* A map that counts more elements than a table may have slots, as it does *)
(* when a rehash has lost some, gets no new size at all.                   *)
next_size(choices, wanted, larger, elem) ==
  CASE elem > MaxSize             -> Refused
    [] elem <= MaxSize /\ larger  -> next_larger(choices, wanted)
    [] elem <= MaxSize /\ ~larger -> next_smaller(choices, wanted)
=============================================================================
