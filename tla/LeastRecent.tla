---------------------------- MODULE LeastRecent ----------------------------
(***************************************************************************)
(* What unordered_map_lru promises its callers: a list of at most max      *)
(* keys with their values, the most recently stored first, that forgets    *)
(* from its end.  Looking a key up is no use of it.                        *)
(***************************************************************************)
EXTENDS Integers, SequencesExt

CONSTANTS
  Key, Value,
  None,       \* no value; not one of Value
  Capacity    \* what max may be set to

VARIABLES
  order,      \* the pairs [key, val], most recent first
  max,
  ret         \* what the last call returned: [ok, val]

vars == <<order, max, ret>>

Places(k)  == {i \in DOMAIN order : order[i].key = k}
Present(k) == Places(k) # {}
Place(k)   == CHOOSE i \in Places(k) : TRUE
Lookup(k)  == IF Present(k) THEN order[Place(k)].val ELSE None

Cut(s)     == IF Len(s) > max THEN SubSeq(s, 1, max) ELSE s
Pair(k, v) == [key |-> k, val |-> v]

(* The value of the pair in place i of s, if there is one. *)
ValueAt(s, i) == IF i \in DOMAIN s THEN s[i].val ELSE None

Init ==
  /\ order = <<>>
  /\ max \in Capacity
  /\ ret = [ok |-> FALSE, val |-> None]

(* A new key goes to the front. *)
Store(k, v) ==
  /\ order' = Cut(Cons(Pair(k, v), order))
  /\ ret' = [ok |-> TRUE, val |-> ValueAt(order', 1)]

(* insert and emplace leave a key that is there where and what it is. *)
Emplace(k, v) ==
  /\ \/ ~Present(k) /\ Store(k, v)
     \/ Present(k) /\ ret' = [ok |-> FALSE, val |-> Lookup(k)] /\ UNCHANGED order
  /\ UNCHANGED max

(* insert_or_assign takes it to the front. *)
InsertOrAssign(k, v) ==
  /\ \/ ~Present(k) /\ Store(k, v)
     \/ /\ Present(k)
        /\ order' = Cons(Pair(k, v), RemoveAt(order, Place(k)))
        /\ ret' = [ok |-> FALSE, val |-> v]
  /\ UNCHANGED max

Find(k) ==
  /\ ret' = [ok |-> Present(k), val |-> Lookup(k)]
  /\ UNCHANGED <<order, max>>

Erase(k) ==
  /\ order' = IF Present(k) THEN RemoveAt(order, Place(k)) ELSE order
  /\ ret' = [ok |-> Present(k), val |-> None]
  /\ UNCHANGED max

(* erase of an iterator returns one to the next older pair. *)
EraseAt(i) ==
  /\ order' = RemoveAt(order, i)
  /\ ret' = [ok |-> TRUE, val |-> ValueAt(order', i)]
  /\ UNCHANGED max

(* erase of end() returns it. *)
EraseEnd ==
  /\ ret' = [ok |-> FALSE, val |-> None]
  /\ UNCHANGED <<order, max>>

Reserve(n) ==
  /\ max' = n
  /\ order' = IF n < Len(order) THEN SubSeq(order, 1, n) ELSE order
  /\ ret' = [ok |-> FALSE, val |-> None]

Clear ==
  /\ order' = <<>>
  /\ ret' = [ok |-> FALSE, val |-> None]
  /\ UNCHANGED max

Next ==
  \/ \E k \in Key, v \in Value : Emplace(k, v) \/ InsertOrAssign(k, v)
  \/ \E k \in Key : Find(k) \/ Erase(k)
  \/ \E i \in DOMAIN order : EraseAt(i)
  \/ \E n \in Capacity : Reserve(n)
  \/ EraseEnd \/ Clear
=============================================================================
