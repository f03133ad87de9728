-------------------------- MODULE UnorderedMapLru --------------------------
(***************************************************************************)
(* unordered_map_lru: a std::list of the pairs, most recent first, and a   *)
(* std::unordered_map from each key to its node of the list.  Each call is *)
(* one action; nothing in the class is synchronised.                       *)
(*                                                                         *)
(* The call that makes a list node may throw (an allocation, the copy of   *)
(* a key or a value), and in emplace and insert_or_assign it does so after *)
(* the index has been changed: EmplaceThrows and AssignThrows.             *)
(***************************************************************************)
EXTENDS Integers, SequencesExt

CONSTANTS
  Key, Value,
  None,      \* no value
  Node,      \* memory for list nodes; freed nodes are used again
  End,       \* M_data.end(), which is no node
  Absent,    \* not a key of M_cache
  Capacity   \* arguments of the constructor and of reserve, and what the
             \* default constructor, which leaves M_max unset, may find in it

ASSUME NodeAssumption     == End \notin Node /\ Absent \notin Node /\ End # Absent
ASSUME CapacityAssumption == Capacity \subseteq Nat
ASSUME NoneAssumption     == None \notin Value

Pair   == [key : Key, val : Value]
NoPair == [key |-> Absent, val |-> None]

VARIABLES
  M_data,    \* the list, as the sequence of its nodes
  M_cache,   \* the index: a node, End or Absent for each key
  M_max,
  pair,      \* what each node holds
  status,    \* "running", or "undefined" after an access to what is no element
  ret,       \* the last call: its answer, and the iterator it returned
  threw      \* a call has thrown since the map was last empty of everything

vars == <<M_data, M_cache, M_max, pair, status, ret, threw>>

Listed      == ToSet(M_data)
Position(n) == CHOOSE i \in DOMAIN M_data : M_data[i] = n

(* begin() of a list. *)
Begin(s) == IF s = <<>> THEN End ELSE Head(s)

NoCall == [ok |-> FALSE, at |-> End]

Init ==
  /\ M_data = <<>>
  /\ M_cache = [k \in Key |-> Absent]
  /\ M_max \in Capacity
  /\ pair = [n \in Node |-> NoPair]
  /\ status = "running"
  /\ ret = NoCall
  /\ threw = FALSE

Returns(ok, at) ==
  /\ ret' = [ok |-> ok, at |-> at]
  /\ UNCHANGED <<status, threw>>

Throws ==
  /\ threw' = TRUE
  /\ ret' = NoCall
  /\ UNCHANGED <<M_max, status>>

Undefined ==
  /\ status' = "undefined"
  /\ UNCHANGED <<M_data, M_cache, M_max, pair, ret, threw>>

(* Mutant of trim: the list is cut and the index is not. *)
TrimListOnly(s, index, pairs) ==
  IF Len(s) > M_max
  THEN M_data' = Front(s) /\ M_cache' = index /\ pair' = [pairs EXCEPT ![Last(s)] = NoPair]
  ELSE M_data' = s /\ M_cache' = index /\ pair' = pairs

(* The list s, its index and its pairs, less the least recent one if that  *)
(* is one too many.                                                        *)
trim(s, index, pairs) ==
  IF Len(s) > M_max
  THEN /\ M_data' = Front(s)
       /\ M_cache' = [index EXCEPT ![pairs[Last(s)].key] = Absent]
       /\ pair' = [pairs EXCEPT ![Last(s)] = NoPair]
  ELSE M_data' = s /\ M_cache' = index /\ pair' = pairs

(* A key that is not in the index: emplace_front makes a node, which the   *)
(* index is then pointed at.  With M_max = 0, trim removes it at once.     *)
Store(k, v) ==
  \E n \in Node \ Listed :
    /\ trim(Cons(n, M_data), [M_cache EXCEPT ![k] = n],
            [pair EXCEPT ![n] = [key |-> k, val |-> v]])
    /\ Returns(TRUE, Begin(M_data'))

(* The index has the key when emplace_front throws, and keeps it. *)
StoreThrows(k) ==
  /\ M_cache' = [M_cache EXCEPT ![k] = End]
  /\ Throws
  /\ UNCHANGED <<M_data, pair>>

-----------------------------------------------------------------------------
(* The calls. *)

Emplace(k, v) ==
  /\ status = "running"
  /\ \/ M_cache[k] = Absent /\ Store(k, v)
     \/ M_cache[k] # Absent /\ Returns(FALSE, M_cache[k]) /\ UNCHANGED <<M_data, M_cache, pair>>
  /\ UNCHANGED M_max

EmplaceThrows(k) ==
  status = "running" /\ M_cache[k] = Absent /\ StoreThrows(k)

(* Mutant of Reassign: the index keeps the node that was erased. *)
ReassignStale(k, v, n) ==
  /\ M_data' = Cons(n, RemoveAt(M_data, Position(M_cache[k])))
  /\ pair' = [pair EXCEPT ![M_cache[k]] = NoPair, ![n] = [key |-> k, val |-> v]]
  /\ Returns(FALSE, n)
  /\ UNCHANGED <<M_cache, M_max>>

(* Mutant of Reassign: the value is changed in place. *)
ReassignInPlace(k, v, n) ==
  /\ pair' = [pair EXCEPT ![M_cache[k]].val = v]
  /\ Returns(FALSE, M_cache[k])
  /\ UNCHANGED <<M_data, M_cache, M_max>>

(* A key whose node is erased and made anew, as n, at the front. *)
Reassign(k, v, n) ==
  /\ M_data' = Cons(n, RemoveAt(M_data, Position(M_cache[k])))
  /\ pair' = [pair EXCEPT ![M_cache[k]] = NoPair, ![n] = [key |-> k, val |-> v]]
  /\ M_cache' = [M_cache EXCEPT ![k] = n]
  /\ Returns(FALSE, n)
  /\ UNCHANGED M_max

InsertOrAssign(k, v) ==
  /\ status = "running"
  /\ \/ M_cache[k] = Absent /\ Store(k, v) /\ UNCHANGED M_max
     \/ /\ M_cache[k] \in Listed
        /\ \E n \in (Node \ Listed) \cup {M_cache[k]} : Reassign(k, v, n)
     \/ M_cache[k] \notin Listed \cup {Absent} /\ Undefined

(* The node is gone and the index still leads to it. *)
AssignThrows(k) ==
  /\ status = "running"
  /\ \/ M_cache[k] = Absent /\ StoreThrows(k)
     \/ /\ M_cache[k] \in Listed
        /\ M_data' = RemoveAt(M_data, Position(M_cache[k]))
        /\ pair' = [pair EXCEPT ![M_cache[k]] = NoPair]
        /\ Throws
        /\ UNCHANGED M_cache

(* Mutant of Find: what the index returned is followed without a test. *)
FindUnchecked(k) ==
  /\ status = "running"
  /\ Returns(M_cache[k] # End, M_cache[k])
  /\ UNCHANGED <<M_data, M_cache, M_max, pair>>

Find(k) ==
  /\ status = "running"
  /\ IF M_cache[k] = Absent THEN Returns(FALSE, End) ELSE Returns(M_cache[k] # End, M_cache[k])
  /\ UNCHANGED <<M_data, M_cache, M_max, pair>>

Erase(k) ==
  /\ status = "running"
  /\ \/ /\ M_cache[k] = Absent
        /\ Returns(FALSE, End)
        /\ UNCHANGED <<M_data, M_cache, M_max, pair>>
     \/ /\ M_cache[k] \in Listed
        /\ M_data' = RemoveAt(M_data, Position(M_cache[k]))
        /\ M_cache' = [M_cache EXCEPT ![k] = Absent]
        /\ pair' = [pair EXCEPT ![M_cache[k]] = NoPair]
        /\ Returns(TRUE, End)
        /\ UNCHANGED M_max
     \/ M_cache[k] \notin Listed \cup {Absent} /\ Undefined

(* erase(iterator) of an iterator to the i-th element. *)
EraseAt(i) ==
  /\ status = "running"
  /\ M_cache' = [M_cache EXCEPT ![pair[M_data[i]].key] = Absent]
  /\ M_data' = RemoveAt(M_data, i)
  /\ pair' = [pair EXCEPT ![M_data[i]] = NoPair]
  /\ Returns(TRUE, IF i = Len(M_data) THEN End ELSE M_data[i + 1])
  /\ UNCHANGED M_max

(* erase(iterator) of end(). *)
EraseEnd ==
  /\ status = "running"
  /\ Returns(FALSE, End)
  /\ UNCHANGED <<M_data, M_cache, M_max, pair>>

(* Mutant of Kept: one element too many stays. *)
KeptOneMore(n) == IF n + 1 < Len(M_data) THEN SubSeq(M_data, 1, n + 1) ELSE M_data

(* reserve removes from the least recent on. *)
Kept(n) == IF n < Len(M_data) THEN SubSeq(M_data, 1, n) ELSE M_data

Reserve(n) ==
  LET dropped == Listed \ ToSet(Kept(n))
  IN  /\ status = "running"
      /\ M_data' = Kept(n)
      /\ M_cache' = [k \in Key |-> IF \E x \in dropped : pair[x].key = k THEN Absent ELSE M_cache[k]]
      /\ pair' = [x \in Node |-> IF x \in dropped THEN NoPair ELSE pair[x]]
      /\ M_max' = n
      /\ Returns(FALSE, End)

Clear ==
  /\ status = "running"
  /\ M_data' = <<>>
  /\ M_cache' = [k \in Key |-> Absent]
  /\ pair' = [n \in Node |-> NoPair]
  /\ ret' = NoCall
  /\ threw' = FALSE
  /\ UNCHANGED <<M_max, status>>

Next ==
  \/ \E k \in Key, v \in Value : Emplace(k, v) \/ InsertOrAssign(k, v)
  \/ \E k \in Key : EmplaceThrows(k) \/ AssignThrows(k) \/ Find(k) \/ Erase(k)
  \/ \E i \in DOMAIN M_data : EraseAt(i)
  \/ \E n \in Capacity : Reserve(n)
  \/ EraseEnd \/ Clear

Spec == Init /\ [][Next]_vars
-----------------------------------------------------------------------------
(* Properties. *)

TypeOK ==
  /\ M_data \in Seq(Node)
  /\ M_cache \in [Key -> Node \cup {End, Absent}]
  /\ M_max \in Capacity
  /\ pair \in [Node -> Pair \cup {NoPair}]
  /\ status \in {"running", "undefined"}
  /\ ret \in [ok : BOOLEAN, at : Node \cup {End}]
  /\ threw \in BOOLEAN

(* Every element of the list is the one the index has for its key,         *)
(* whatever has thrown: so no key is listed twice, and the eviction of     *)
(* trim and reserve takes the right entry out of the index.                *)
ListIndexed ==
  /\ IsInjective(M_data)
  /\ \A n \in Listed : pair[n] \in Pair /\ M_cache[pair[n].key] = n

(* The map never outgrows its maximum, though trim removes one element at  *)
(* most and the maximum may be lowered at any time.                        *)
SizeBounded == Len(M_data) <= M_max

(* While no call has thrown, every entry of the index leads to an element  *)
(* of the list with that key, and no call goes through any other.          *)
IndexExact ==
  threw \/ /\ status = "running"
           /\ \A k \in Key : M_cache[k] # Absent =>
                               M_cache[k] \in Listed /\ pair[M_cache[k]].key = k

(* The list with its index implements the list alone: what is kept, in     *)
(* which order, what is forgotten and every answer, as long as no call     *)
(* throws.                                                                 *)
LR == INSTANCE LeastRecent
        WITH order <- [i \in DOMAIN M_data |-> pair[M_data[i]]],
             max   <- M_max,
             ret   <- [ok  |-> ret.ok,
                       val |-> IF ret.at \in Listed THEN pair[ret.at].val ELSE None]

ImplementsLeastRecent == LR!Init /\ [][threw' \/ LR!Next]_(LR!vars)
=============================================================================
