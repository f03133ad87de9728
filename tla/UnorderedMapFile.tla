-------------------------- MODULE UnorderedMapFile --------------------------
(***************************************************************************)
(* unordered_map_file of unordered_map.h: a hash table with open           *)
(* addressing over an array of slots.  Every public operation that can     *)
(* change the table, but rehash and reserve (module MapRehash), is an      *)
(* action: the whole call, which no other call interleaves.                *)
(*                                                                         *)
(* A slot is Free (its free flag is set) or an element.  The hash value a  *)
(* slot stores is always Hash of its key and is not modelled apart.        *)
(***************************************************************************)
EXTENDS OpenAddress, NextSize

CONSTANTS
  Value,
  Default,         \* Value()
  None,            \* no value
  InitialBuckets,  \* the constructor's argument
  ChoiceSets       \* what bucket_choices may be set to; sets of positive sizes

ASSUME ValueAssumption   == Default \in Value /\ None \notin Value
ASSUME BucketsAssumption == InitialBuckets \in 0 .. MaxSize
ASSUME ChoicesAssumption == ChoiceSets # {} /\ \A c \in ChoiceSets : c # {} /\ c \subseteq 1 .. MaxSize

Element == [key : Key, val : Value]

ASSUME FreeSlotAssumption == Free \notin Element

VARIABLES
  M_file,            \* the slots
  M_buckets,         \* how many there are
  M_elem,            \* how many are taken, as the map counts them
  M_bucket_choices,
  status,            \* "running", or how the program ended: "loops", "crashed"
  ret                \* the last call: its key, its answer, the slot of its iterator

vars == <<M_file, M_buckets, M_elem, M_bucket_choices, status, ret>>

table == <<M_file, M_buckets, M_elem>>

(* What the algorithms see of B slots of a container of elements. *)
KeysOf(t, B) == [i \in Slots(B) |-> IF t[i] = Free THEN Free ELSE t[i].key]

keys == KeysOf(M_file, M_buckets)

NoCall == [key |-> Free, ok |-> FALSE, val |-> None, at |-> 0]

Init ==
  /\ M_bucket_choices \in ChoiceSets
  /\ M_buckets = next_larger(M_bucket_choices, InitialBuckets)
  /\ M_file = [i \in Slots(M_buckets) |-> Free]
  /\ M_elem = 0
  /\ status = "running"
  /\ ret = NoCall

Running == status = "running" /\ UNCHANGED M_bucket_choices

Answer(k, ok, val, at) ==
  /\ ret' = [key |-> k, ok |-> ok, val |-> val, at |-> at]
  /\ UNCHANGED status

(***************************************************************************)
(* The growth at the start of emplace: reserve_choice with realloc.  The   *)
(* old slots keep their content where it is and the new ones are freed;    *)
(* a refused growth goes unnoticed.                                        *)
(***************************************************************************)
reserve_choice(buckets) ==
  LET new_buckets == next_size(M_bucket_choices, buckets, TRUE, M_elem)
  IN  IF new_buckets = Refused THEN M_buckets ELSE new_buckets

Resized(t, B) == [i \in Slots(B) |-> IF i \in DOMAIN t THEN t[i] ELSE Free]

(* Mutant of EmplaceBuckets: growth comes one element too late. *)
GrowWhenOverfull == IF M_elem > M_buckets THEN reserve_choice(M_buckets + 1) ELSE M_buckets

EmplaceBuckets == IF M_elem = M_buckets THEN reserve_choice(M_buckets + 1) ELSE M_buckets

(* emplace on the table grown to B > 0 slots t. *)
PutInto(t, B, k, v) ==
  LET res == open_address_emplace_index(KeysOf(t, B), k, B)
      i   == res.index
  IN  /\ M_buckets' = B
      /\ IF res.inserted
         THEN /\ M_file' = [ShiftUp(t, i, res.hole, B) EXCEPT ![i] = [key |-> k, val |-> v]]
              /\ M_elem' = M_elem + 1
         ELSE /\ M_file' = t
              /\ UNCHANGED M_elem
      /\ Answer(k, res.inserted, M_file'[i].val, i)

(* A hash modulo no slots traps, and so does the access to the slots that  *)
(* a mapping of no slots, which mremap refused, cannot be grown to.         *)
Traps == status' = "crashed" /\ UNCHANGED <<table, ret>>

Loops == status' = "loops" /\ UNCHANGED <<table, ret>>

emplace(k, v) ==
  LET B     == EmplaceBuckets
      t     == Resized(M_file, B)
      loops == EmplaceLoops(KeysOf(t, B), k, B)
  IN  \/ M_buckets = 0 /\ Traps
      \/ M_buckets > 0 /\ loops  /\ Loops
      \/ M_buckets > 0 /\ ~loops /\ PutInto(t, B, k, v)

find(k) == open_address_find(keys, k, M_buckets)

(* Mutant of erase: a miss is counted as well. *)
EraseCountsMisses(k) ==
  LET res == open_address_erase_index(keys, k, M_buckets)
  IN  /\ UNCHANGED M_buckets
      /\ M_elem' = M_elem - 1
      /\ M_file' = IF res.last = M_buckets THEN M_file
                   ELSE [ShiftDown(M_file, res.start, res.last, M_buckets)
                           EXCEPT ![res.last] = Free]

erase(k) ==
  LET res == open_address_erase_index(keys, k, M_buckets)
      hit == res.last # M_buckets
  IN  /\ UNCHANGED M_buckets
      /\ IF hit
         THEN /\ M_file' = [ShiftDown(M_file, res.start, res.last, M_buckets)
                              EXCEPT ![res.last] = Free]
              /\ M_elem' = M_elem - 1
         ELSE UNCHANGED <<M_file, M_elem>>

-----------------------------------------------------------------------------
(* The calls. *)

Emplace(k, v) == Running /\ emplace(k, v)

Find(k) ==
  /\ Running
  /\ \/ M_buckets = 0 /\ Traps
     \/ /\ M_buckets > 0
        /\ IF find(k).found
           THEN Answer(k, TRUE, M_file[find(k).index].val, find(k).index)
           ELSE Answer(k, FALSE, None, M_buckets)
        /\ UNCHANGED table

InsertOrAssign(k, v) ==
  /\ Running
  /\ \/ M_buckets = 0 /\ Traps
     \/ /\ M_buckets > 0 /\ find(k).found
        /\ M_file' = [M_file EXCEPT ![find(k).index].val = v]
        /\ Answer(k, FALSE, v, find(k).index)
        /\ UNCHANGED <<M_buckets, M_elem>>
     \/ M_buckets > 0 /\ ~find(k).found /\ emplace(k, v)

(* operator[] gives out a reference; it is read here. *)
Subscript(k) ==
  /\ Running
  /\ \/ M_buckets = 0 /\ Traps
     \/ /\ M_buckets > 0 /\ find(k).found
        /\ Answer(k, FALSE, M_file[find(k).index].val, find(k).index)
        /\ UNCHANGED table
     \/ M_buckets > 0 /\ ~find(k).found /\ emplace(k, Default)

Erase(k) ==
  /\ Running
  /\ \/ M_buckets = 0 /\ Traps
     \/ /\ M_buckets > 0
        /\ erase(k)
        /\ Answer(k, find(k).found, None, M_buckets)

(* Mutant of EraseAt: the iterator returned is the one after the slot. *)
EraseAtSkips(i) ==
  /\ Running
  /\ i \in Taken(keys, M_buckets)
  /\ erase(M_file[i].key)
  /\ Answer(M_file[i].key, find(M_file[i].key).found, None,
            IF M_elem' = 0 THEN M_buckets ELSE i + 1)

(* erase(iterator) on the element in slot i, an iterator the caller holds.  *)
(* It returns an iterator to the same slot, whatever is there now.         *)
EraseAt(i) ==
  /\ Running
  /\ i \in Taken(keys, M_buckets)
  /\ erase(M_file[i].key)
  /\ Answer(M_file[i].key, find(M_file[i].key).found, None,
            IF M_elem' = 0 THEN M_buckets ELSE i)

Clear ==
  /\ Running
  /\ M_file' = [i \in Slots(M_buckets) |-> Free]
  /\ M_elem' = 0
  /\ ret' = NoCall
  /\ UNCHANGED <<M_buckets, status>>

SetBucketChoices(choices) ==
  /\ status = "running"
  /\ M_bucket_choices' = choices
  /\ ret' = NoCall
  /\ UNCHANGED <<table, status>>

Next ==
  \/ \E k \in Key, v \in Value : Emplace(k, v) \/ InsertOrAssign(k, v)
  \/ \E k \in Key : Find(k) \/ Subscript(k) \/ Erase(k)
  \/ \E i \in Slots(M_buckets) : EraseAt(i)
  \/ Clear
  \/ \E choices \in ChoiceSets : SetBucketChoices(choices)

Spec == Init /\ [][Next]_vars
-----------------------------------------------------------------------------
(* Properties. *)

TypeOK ==
  /\ M_buckets \in Nat
  /\ M_file \in [Slots(M_buckets) -> Element \cup {Free}]
  /\ M_elem \in Nat
  /\ M_bucket_choices \in ChoiceSets
  /\ status \in {"running", "loops", "crashed"}
  /\ ret \in [key : Key \cup {Free}, ok : BOOLEAN, val : Value \cup {None}, at : Nat]

Occupied == Taken(keys, M_buckets)

(* find leads to every element the table holds: no shift of emplace or     *)
(* erase may leave an element out of the reach of the three loops of       *)
(* open_address_find.                                                      *)
Lookup ==
  \A i \in Occupied : find(M_file[i].key) = [index |-> i, found |-> TRUE]

(* size() is the number of taken slots: emplace takes exactly one free     *)
(* slot and erase frees exactly one, however far elements shift.           *)
CountMatches == M_elem = Cardinality(Occupied)

(* The elements of a table t of B slots whose key is not k. *)
OthersThan(k, t, B) == {t[i] : i \in {j \in Slots(B) : t[j] # Free /\ t[j].key # k}}

(* A call about one key neither loses, changes nor invents an element of   *)
(* any other key, though it may move most of the table; only clear may.    *)
BystandersKept ==
  [][Clear \/ OthersThan(ret'.key, M_file', M_buckets') = OthersThan(ret'.key, M_file, M_buckets)]_vars

(* Every call returns, and none hashes modulo zero, until a full table is  *)
(* asked to grow past max_size().                                          *)
NeverStuck ==
  status = "running" \/ (status = "loops" /\ M_elem = M_buckets /\ M_buckets >= MaxSize)

SlotsOf(k) == {i \in Slots(M_buckets) : M_file[i] # Free /\ M_file[i].key = k}

(* The table as a dictionary. *)
Contents ==
  [k \in Key |-> IF SlotsOf(k) = {} THEN None ELSE M_file[CHOOSE i \in SlotsOf(k) : TRUE].val]
=============================================================================
