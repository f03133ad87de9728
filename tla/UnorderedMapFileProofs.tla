----------------------- MODULE UnorderedMapFileProofs -----------------------
(***************************************************************************)
(* What holds of unordered_map_file for every set of keys, every hash      *)
(* function and every choice of sizes.                                     *)
(***************************************************************************)
EXTENDS UnorderedMapFile, OpenAddressProofs

Tables(B) == [Slots(B) -> Element \cup {Free}]

TakenIn(t, B) == {i \in Slots(B) : t[i] # Free}

-----------------------------------------------------------------------------
(* Sizes. *)

LEMMA MaxSizeType == MaxSize \in Nat \ {0}
BY MaxSizeAssumption

LEMMA ThroughFloatNear ==
  ASSUME NEW n \in Nat, n <= MaxSize
  PROVE  /\ ThroughFloat(n) \in Nat
         /\ ThroughFloat(n) >= n - 1
         /\ n = 1 => ThroughFloat(n) = 1
BY MaxSizeAssumption DEF ThroughFloat

LEMMA NextSizeLarger ==
  ASSUME NEW choices \in ChoiceSets, NEW wanted \in Nat,
         NEW n, n = next_larger(choices, wanted)
  PROVE  /\ n \in Nat
         /\ n = Refused \/ n >= wanted - 1
         /\ wanted = 1 => n >= 1
<1> DEFINE least   == ThroughFloat(wanted)
           fitting == {c \in choices : c >= least}
<1>1. CASE wanted > MaxSize
  BY <1>1, MaxSizeType DEF next_larger, Refused
<1>2. CASE wanted <= MaxSize
  <2>1. least \in Nat /\ least >= wanted - 1 /\ (wanted = 1 => least = 1)
    BY <1>2, ThroughFloatNear
  <2>2. fitting \subseteq Nat /\ \A c \in fitting : c >= least
    BY ChoicesAssumption, MaxSizeType
  <2>3. n = IF fitting = {} THEN least ELSE Min(fitting)
    BY <1>2, MaxSizeType DEF next_larger
  <2>4. fitting # {} => Min(fitting) \in fitting
    BY <2>2, MinNat
  <2>5. fitting # {} => Min(fitting) \in Nat /\ Min(fitting) >= least
    BY <2>2, <2>4
  <2> HIDE DEF least, fitting
  <2> QED  BY <2>1, <2>3, <2>5
<1> QED  BY <1>1, <1>2, MaxSizeType

LEMMA NextSizeType ==
  ASSUME NEW choices \in ChoiceSets, NEW wanted \in Nat, NEW larger \in BOOLEAN, NEW elem \in Nat
  PROVE  next_size(choices, wanted, larger, elem) \in Nat
<1>1. next_larger(choices, wanted) \in Nat
  BY NextSizeLarger
<1>2. next_smaller(choices, wanted) \in Nat
  <2> DEFINE least   == ThroughFloat(wanted)
             fitting == {c \in choices : c <= least}
  <2>1. CASE wanted > MaxSize
    BY <2>1, MaxSizeType DEF next_smaller, Refused
  <2>2. CASE wanted <= MaxSize
    <3>1. least \in Nat
      BY <2>2, ThroughFloatNear
    <3>2. fitting \subseteq Nat /\ \A c \in fitting : c <= least
      BY ChoicesAssumption, MaxSizeType
    <3>3. next_smaller(choices, wanted) = IF fitting = {} THEN least ELSE Max(fitting)
      BY <2>2, MaxSizeType DEF next_smaller
    <3>4. fitting # {} => Max(fitting) \in fitting
      BY <3>1, <3>2, MaxNat
    <3> HIDE DEF least, fitting
    <3> QED  BY <3>1, <3>2, <3>3, <3>4
  <2> QED  BY <2>1, <2>2, MaxSizeType
<1> QED  BY <1>1, <1>2, MaxSizeType DEF next_size, Refused

(* emplace never works on fewer slots than there were, and makes a first    *)
(* slot for the first element.                                             *)
LEMMA EmplaceBucketsType ==
  ASSUME TypeOK
  PROVE  /\ EmplaceBuckets \in Nat
         /\ EmplaceBuckets >= M_buckets
<1>1. PICK n : n = next_size(M_bucket_choices, M_buckets + 1, TRUE, M_elem)
  BY Zenon
<1>2. EmplaceBuckets = IF M_elem # M_buckets \/ n = Refused THEN M_buckets ELSE n
  BY <1>1, Zenon DEF EmplaceBuckets, reserve_choice
<1>3. n = Refused \/ n = next_larger(M_bucket_choices, M_buckets + 1)
  BY <1>1, MaxSizeType DEF next_size, TypeOK
<1>4. n \in Nat /\ (n = Refused \/ n >= M_buckets)
  BY <1>3, NextSizeLarger, MaxSizeType DEF TypeOK, Refused
<1> QED  BY <1>2, <1>4 DEF TypeOK

-----------------------------------------------------------------------------
(* Tables and the keys the algorithms see. *)

LEMMA KeysOfType ==
  ASSUME NEW B \in Nat, NEW t \in Tables(B)
  PROVE  /\ KeysOf(t, B) \in KeyTables(B)
         /\ \A i \in Slots(B) : KeysOf(t, B)[i] = Free <=> t[i] = Free
         /\ \A i \in Slots(B) : t[i] # Free => t[i] \in Element /\ KeysOf(t, B)[i] = t[i].key
         /\ Taken(KeysOf(t, B), B) = TakenIn(t, B)
<1>1. \A i \in Slots(B) : t[i] # Free => t[i] \in Element /\ t[i].key \in Key /\ t[i].key # Free
  BY FreeAssumption DEF Tables, Element
<1>2. \A i \in Slots(B) : KeysOf(t, B)[i] = IF t[i] = Free THEN Free ELSE t[i].key
  BY DEF KeysOf
<1>3. KeysOf(t, B) \in KeyTables(B)
  BY <1>1 DEF KeysOf, KeyTables
<1> QED  BY <1>1, <1>2, <1>3 DEF Taken, TakenIn

LEMMA TakenFinite ==
  ASSUME NEW B \in Nat, NEW t
  PROVE  IsFiniteSet(TakenIn(t, B))
<1>1. IsFiniteSet(Slots(B))
  BY FS_Interval DEF Slots
<1> QED  BY <1>1, FS_Subset DEF TakenIn

(* Growth keeps every element in its slot. *)
LEMMA ResizedContents ==
  ASSUME NEW A \in Nat, NEW B \in Nat, B >= A, NEW t \in Tables(A)
  PROVE  /\ Resized(t, B) \in Tables(B)
         /\ TakenIn(Resized(t, B), B) = TakenIn(t, A)
         /\ \A k : OthersThan(k, Resized(t, B), B) = OthersThan(k, t, A)
<1> DEFINE u == Resized(t, B)
<1>1. /\ \A i \in Slots(A) : i \in Slots(B) /\ u[i] = t[i]
      /\ \A i \in Slots(B) \ Slots(A) : u[i] = Free
      /\ u \in Tables(B)
  BY DEF Resized, Tables, Slots
<1> HIDE DEF u
<1>2. TakenIn(u, B) = TakenIn(t, A)
  BY <1>1 DEF TakenIn
<1>3. \A k : OthersThan(k, u, B) = OthersThan(k, t, A)
  BY <1>1 DEF OthersThan
<1> QED  BY <1>1, <1>2, <1>3 DEF u

(* The table after emplace has put an element in. *)
LEMMA PutContents ==
  ASSUME NEW B \in Nat \ {0}, NEW t \in Tables(B), NEW k \in Key, NEW v \in Value,
         ~EmplaceLoops(KeysOf(t, B), k, B),
         NEW res, res = open_address_emplace_index(KeysOf(t, B), k, B), res.inserted,
         NEW e, e = [key |-> k, val |-> v],
         NEW u, u = [ShiftUp(t, res.index, res.hole, B) EXCEPT ![res.index] = e]
  PROVE  /\ u \in Tables(B)
         /\ res.index \in Slots(B) /\ u[res.index] = e
         /\ res.hole \in Slots(B) \ TakenIn(t, B)
         /\ TakenIn(u, B) = TakenIn(t, B) \cup {res.hole}
         /\ OthersThan(k, u, B) = OthersThan(k, t, B)
<1>1. e \in Element /\ e # Free
  BY FreeSlotAssumption DEF Element
<1>2. /\ res.index \in Slots(B) /\ res.hole \in Slots(B)
      /\ t[res.hole] = Free
      /\ \A j \in Slots(B) :
           Distance(res.index, j, B) < Distance(res.index, res.hole, B) => t[j] # Free
  <2>1. KeysOf(t, B) \in KeyTables(B) /\ \A i \in Slots(B) : KeysOf(t, B)[i] = Free <=> t[i] = Free
    BY KeysOfType
  <2> QED  BY <2>1, EmplaceResult
<1>3. /\ DOMAIN u = Slots(B)
      /\ u[res.index] = e
      /\ {i \in Slots(B) : u[i] # Free} = {i \in Slots(B) : t[i] # Free} \cup {res.hole}
      /\ \A i \in Slots(B) \ {res.index} : u[i] # Free => \E j \in Slots(B) : u[i] = t[j]
      /\ \A j \in Slots(B) : t[j] # Free => \E i \in Slots(B) \ {res.index} : u[i] = t[j]
  <2> DEFINE index == res.index
             hole  == res.hole
  <2>1. index \in Slots(B) /\ hole \in Slots(B) /\ t[hole] = Free
    BY <1>2
  <2>2. \A j \in Slots(B) : Distance(index, j, B) < Distance(index, hole, B) => t[j] # Free
    BY <1>2
  <2>3. u = [ShiftUp(t, index, hole, B) EXCEPT ![index] = e]
    OBVIOUS
  <2>4. DOMAIN u = Slots(B) /\ u[index] = e /\ u[index] # Free
    BY <1>1, <2>1, <2>3 DEF ShiftUp
  <2>5. \A i \in Slots(B) \ {index} : u[i] = ShiftUp(t, index, hole, B)[i]
    BY <2>3 DEF ShiftUp
  <2> HIDE DEF index, hole
  <2>6. /\ \A i \in Slots(B) : u[i] # Free <=> t[i] # Free \/ i = hole
        /\ ElementsIn(u, Slots(B) \ {index}) = ElementsIn(t, Slots(B))
    BY ONLY B \in Nat, <2>1, <2>2, <2>4, <2>5, ShiftUpContents
  <2>7. \A i \in Slots(B) \ {index} : u[i] # Free => \E j \in Slots(B) : u[i] = t[j]
    <3>1. ASSUME NEW i \in Slots(B) \ {index}, u[i] # Free PROVE u[i] \in ElementsIn(t, Slots(B))
      BY ONLY <2>6, <3>1 DEF ElementsIn
    <3> QED  BY ONLY <3>1 DEF ElementsIn
  <2>8. \A j \in Slots(B) : t[j] # Free => \E i \in Slots(B) \ {index} : u[i] = t[j]
    <3>1. ASSUME NEW j \in Slots(B), t[j] # Free PROVE t[j] \in ElementsIn(u, Slots(B) \ {index})
      BY ONLY <2>6, <3>1 DEF ElementsIn
    <3> QED  BY ONLY <3>1 DEF ElementsIn
  <2> QED  BY <2>1, <2>4, <2>6, <2>7, <2>8 DEF index, hole
<1>4. u \in Tables(B)
  <2>1. \A i \in Slots(B) : u[i] \in Element \cup {Free}
    BY <1>1, <1>3 DEF Tables
  <2>2. u = [i \in Slots(B) |-> u[i]]
    BY <1>3 DEF ShiftUp
  <2> QED  BY <2>1, <2>2 DEF Tables
<1>5. OthersThan(k, u, B) = OthersThan(k, t, B)
  <2>1. ASSUME NEW x \in OthersThan(k, u, B) PROVE x \in OthersThan(k, t, B)
    <3>1. PICK i \in Slots(B) : u[i] = x /\ u[i] # Free /\ u[i].key # k
      BY <2>1 DEF OthersThan
    <3>2. i # res.index
      BY <3>1, <1>3
    <3> QED  BY <3>1, <3>2, <1>3 DEF OthersThan
  <2>2. ASSUME NEW x \in OthersThan(k, t, B) PROVE x \in OthersThan(k, u, B)
    BY <2>2, <1>3 DEF OthersThan
  <2> QED  BY <2>1, <2>2
<1> QED  BY <1>2, <1>3, <1>4, <1>5 DEF TakenIn

(* The table after erase has taken an element out. *)
LEMMA EraseContents ==
  ASSUME NEW B \in Nat \ {0}, NEW t \in Tables(B), NEW k \in Key,
         NEW res, res = open_address_erase_index(KeysOf(t, B), k, B), res.last # B,
         NEW u, u = [ShiftDown(t, res.start, res.last, B) EXCEPT ![res.last] = Free]
  PROVE  /\ u \in Tables(B)
         /\ res.last \in TakenIn(t, B)
         /\ TakenIn(u, B) = TakenIn(t, B) \ {res.last}
         /\ OthersThan(k, u, B) = OthersThan(k, t, B)
         /\ \A i \in Slots(B) : u[i] # Free => \E j \in Slots(B) \ {res.start} : u[i] = t[j]
<1>1. /\ res.start \in Slots(B) /\ res.last \in Slots(B)
      /\ t[res.start].key = k
      /\ \A j \in Slots(B) :
           Distance(res.start, j, B) <= Distance(res.start, res.last, B) => t[j] # Free
  <2>1. /\ KeysOf(t, B) \in KeyTables(B)
        /\ \A i \in Slots(B) : KeysOf(t, B)[i] = Free <=> t[i] = Free
        /\ \A i \in Slots(B) : t[i] # Free => KeysOf(t, B)[i] = t[i].key
    BY KeysOfType
  <2>2. /\ res.start \in Slots(B) /\ res.last \in Slots(B)
        /\ KeysOf(t, B)[res.start] = k
        /\ \A j \in Slots(B) :
             Distance(res.start, j, B) <= Distance(res.start, res.last, B)
               => KeysOf(t, B)[j] # Free
    BY <2>1, EraseResult
  <2>3. KeysOf(t, B)[res.start] # Free
    BY <2>2, FreeAssumption
  <2> QED  BY <2>1, <2>2, <2>3
<1>2. /\ DOMAIN u = Slots(B)
      /\ {i \in Slots(B) : u[i] # Free} = {i \in Slots(B) : t[i] # Free} \ {res.last}
      /\ t[res.last] # Free
      /\ \A i \in Slots(B) : u[i] # Free => \E j \in Slots(B) \ {res.start} : u[i] = t[j]
      /\ \A j \in Slots(B) \ {res.start} : t[j] # Free => \E i \in Slots(B) : u[i] = t[j]
  BY <1>1, ShiftDownContents
<1>3. u \in Tables(B)
  <2>1. \A i \in Slots(B) : u[i] \in Element \cup {Free}
    BY <1>2 DEF Tables
  <2>2. u = [i \in Slots(B) |-> u[i]]
    BY <1>2 DEF ShiftDown
  <2> QED  BY <2>1, <2>2 DEF Tables
<1>4. OthersThan(k, u, B) = OthersThan(k, t, B)
  <2>1. ASSUME NEW x \in OthersThan(k, u, B) PROVE x \in OthersThan(k, t, B)
    BY <2>1, <1>2 DEF OthersThan
  <2>2. ASSUME NEW x \in OthersThan(k, t, B) PROVE x \in OthersThan(k, u, B)
    <3>1. PICK j \in Slots(B) : t[j] = x /\ t[j] # Free /\ t[j].key # k
      BY <2>2 DEF OthersThan
    <3>2. j # res.start
      BY <3>1, <1>1
    <3> QED  BY <3>1, <3>2, <1>2 DEF OthersThan
  <2> QED  BY <2>1, <2>2
<1> QED  BY <1>1, <1>2, <1>3, <1>4 DEF TakenIn

-----------------------------------------------------------------------------
(* The inductive invariant.  The count is part of it: it is what tells     *)
(* erase that there is something to subtract.  For that it may be too      *)
(* high, as it is after a rehash whose chain closes (module MapFile).      *)

TableOK ==
  /\ M_buckets \in Nat
  /\ M_file \in Tables(M_buckets)
  /\ M_elem \in Nat
  /\ M_elem >= Cardinality(TakenIn(M_file, M_buckets))

Exact == M_elem = Cardinality(TakenIn(M_file, M_buckets))

Answers == [key : Key \cup {Free}, ok : BOOLEAN, val : Value \cup {None}, at : Nat]

RestOK ==
  /\ M_bucket_choices \in ChoiceSets
  /\ status \in {"running", "loops", "crashed"}
  /\ ret \in Answers

IInv == TableOK /\ RestOK

LEMMA TakenCount ==
  ASSUME NEW B \in Nat, NEW t
  PROVE  Cardinality(TakenIn(t, B)) \in Nat
BY TakenFinite, FS_CardinalityType

LEMMA InvariantImplies == IInv => TypeOK /\ (Exact <=> CountMatches)
<1> SUFFICES ASSUME IInv PROVE TypeOK /\ (Exact <=> CountMatches)
  OBVIOUS
<1>1. Occupied = TakenIn(M_file, M_buckets)
  BY KeysOfType DEF IInv, TableOK, Occupied, keys
<1> QED  BY <1>1 DEF IInv, TableOK, RestOK, Answers, Tables, TypeOK, CountMatches, Exact

LEMMA InvariantInit == Init => IInv /\ Exact
<1> SUFFICES ASSUME Init PROVE IInv /\ Exact
  OBVIOUS
<1>1. M_buckets \in Nat
  BY NextSizeLarger, BucketsAssumption, MaxSizeType DEF Init
<1>2. M_file \in Tables(M_buckets) /\ TakenIn(M_file, M_buckets) = {}
  BY DEF Init, Tables, TakenIn
<1>3. TableOK /\ Exact
  BY <1>1, <1>2, FS_EmptySet DEF Init, TableOK, Exact
<1>4. RestOK
  BY DEF Init, RestOK, Answers, NoCall
<1> QED  BY <1>3, <1>4 DEF IInv

(* What a call about key k leaves of the others, and of an exact count.    *)
Kept(k) ==
  /\ OthersThan(k, M_file', M_buckets') = OthersThan(k, M_file, M_buckets)
  /\ Exact => Exact'

LEMMA AnswerType ==
  ASSUME NEW k \in Key, NEW ok \in BOOLEAN, NEW val \in Value \cup {None}, NEW at \in Nat,
         Answer(k, ok, val, at)
  PROVE  ret' \in Answers /\ ret'.key = k /\ status' = status
BY DEF Answer, Answers

LEMMA PutStep ==
  ASSUME IInv, NEW k \in Key, NEW v \in Value,
         NEW B \in Nat \ {0}, B >= M_buckets,
         NEW t, t = Resized(M_file, B),
         ~EmplaceLoops(KeysOf(t, B), k, B),
         PutInto(t, B, k, v), UNCHANGED M_bucket_choices
  PROVE  IInv' /\ ret'.key = k /\ Kept(k)
<1>1. /\ t \in Tables(B)
      /\ TakenIn(t, B) = TakenIn(M_file, M_buckets)
      /\ OthersThan(k, t, B) = OthersThan(k, M_file, M_buckets)
  BY ResizedContents DEF IInv, TableOK
<1>2. PICK res : res = open_address_emplace_index(KeysOf(t, B), k, B)
  OBVIOUS
<1>3. KeysOf(t, B) \in KeyTables(B)
  BY <1>1, KeysOfType
<1>4. res.index \in Slots(B) /\ res.inserted \in BOOLEAN /\ (~res.inserted => KeysOf(t, B)[res.index] = k)
  BY <1>2, <1>3, EmplaceResult
<1>5. /\ M_buckets' = B
      /\ IF res.inserted
         THEN /\ M_file' = [ShiftUp(t, res.index, res.hole, B) EXCEPT ![res.index] = [key |-> k, val |-> v]]
              /\ M_elem' = M_elem + 1
         ELSE /\ M_file' = t
              /\ UNCHANGED M_elem
      /\ Answer(k, res.inserted, M_file'[res.index].val, res.index)
  BY <1>2, Zenon DEF PutInto
<1>6. TableOK' /\ Kept(k) /\ M_file'[res.index] \in Element
  <2>0. Cardinality(TakenIn(M_file, M_buckets)) \in Nat
    BY TakenCount DEF IInv, TableOK
  <2>1. CASE res.inserted
    <3>1. /\ M_file' \in Tables(B)
          /\ M_file'[res.index] = [key |-> k, val |-> v]
          /\ res.hole \notin TakenIn(t, B)
          /\ TakenIn(M_file', B) = TakenIn(t, B) \cup {res.hole}
          /\ OthersThan(k, M_file', B) = OthersThan(k, t, B)
      BY <1>1, <1>2, <1>5, <2>1, PutContents
    <3>2. Cardinality(TakenIn(M_file', B)) = Cardinality(TakenIn(t, B)) + 1
      BY <3>1, TakenFinite, FS_AddElement
    <3>3. M_elem' = M_elem + 1 /\ M_buckets' = B
      BY <1>5, <2>1
    <3>4. [key |-> k, val |-> v] \in Element
      BY DEF Element
    <3>5. Cardinality(TakenIn(M_file', B)) = Cardinality(TakenIn(M_file, M_buckets)) + 1
      BY <1>1, <3>2
    <3>6. TableOK'
      <4>1. M_elem \in Nat /\ M_elem >= Cardinality(TakenIn(M_file, M_buckets))
        BY DEF IInv, TableOK
      <4>2. M_elem' \in Nat /\ M_elem' >= Cardinality(TakenIn(M_file', M_buckets'))
        BY ONLY <2>0, <3>3, <3>5, <4>1
      <4> QED  BY <3>1, <3>3, <4>2 DEF TableOK
    <3> QED  BY <1>1, <3>1, <3>3, <3>4, <3>5, <3>6 DEF Kept, Exact
  <2>2. CASE ~res.inserted
    <3>1. M_file' = t /\ M_elem' = M_elem /\ M_buckets' = B
      BY <1>5, <2>2
    <3>2. KeysOf(t, B)[res.index] # Free
      BY <1>4, <2>2, FreeAssumption
    <3>3. t[res.index] \in Element
      BY <1>1, <1>4, <3>2, KeysOfType
    <3> QED  BY <1>1, <3>1, <3>3 DEF IInv, TableOK, Kept, Exact
  <2> QED  BY <1>4, <2>1, <2>2
<1>7. ret' \in Answers /\ ret'.key = k /\ status' = status
  <2>1. M_file'[res.index].val \in Value \cup {None} /\ res.index \in Nat
    BY <1>4, <1>6 DEF Element, Slots
  <2> QED  BY <1>4, <1>5, <2>1, AnswerType
<1> QED  BY <1>6, <1>7 DEF IInv, RestOK

LEMMA TrapStep ==
  ASSUME IInv, Traps \/ Loops, UNCHANGED M_bucket_choices
  PROVE  IInv' /\ \A k : Kept(k)
BY DEF IInv, TableOK, RestOK, Traps, Loops, table, Kept, Exact, TakenIn

LEMMA EmplaceStep ==
  ASSUME IInv, NEW k \in Key, NEW v \in Value, emplace(k, v), UNCHANGED M_bucket_choices
  PROVE  IInv' /\ Kept(ret'.key)
<1>1. EmplaceBuckets \in Nat /\ EmplaceBuckets >= M_buckets
  BY InvariantImplies, EmplaceBucketsType
<1>2. PICK B, t : B = EmplaceBuckets /\ t = Resized(M_file, B)
  OBVIOUS
<1>3. \/ Traps
      \/ Loops
      \/ M_buckets > 0 /\ ~EmplaceLoops(KeysOf(t, B), k, B) /\ PutInto(t, B, k, v)
  BY <1>2, Zenon DEF emplace
<1>4. CASE Traps \/ Loops
  BY <1>4, TrapStep
<1>5. CASE M_buckets > 0 /\ ~EmplaceLoops(KeysOf(t, B), k, B) /\ PutInto(t, B, k, v)
  <2>1. B \in Nat \ {0} /\ B >= M_buckets
    BY <1>1, <1>2, <1>5 DEF IInv, TableOK
  <2>2. IInv' /\ ret'.key = k /\ Kept(k)
    BY <1>2, <1>5, <2>1, PutStep
  <2> QED  BY <2>2
<1> QED  BY <1>3, <1>4, <1>5

LEMMA EraseStep ==
  ASSUME IInv, M_buckets > 0, NEW k \in Key, erase(k)
  PROVE  TableOK' /\ Kept(k) /\ M_buckets' = M_buckets
<1>1. PICK res : res = open_address_erase_index(keys, k, M_buckets)
  OBVIOUS
<1>2. /\ M_buckets' = M_buckets
      /\ res.last # M_buckets =>
           /\ M_file' = [ShiftDown(M_file, res.start, res.last, M_buckets) EXCEPT ![res.last] = Free]
           /\ M_elem' = M_elem - 1
      /\ res.last = M_buckets => UNCHANGED <<M_file, M_elem>>
  BY <1>1, Zenon DEF erase
<1>3. M_buckets \in Nat \ {0} /\ M_file \in Tables(M_buckets)
  BY DEF IInv, TableOK
<1>4. CASE res.last # M_buckets
  <2>1. /\ M_file' \in Tables(M_buckets)
        /\ res.last \in TakenIn(M_file, M_buckets)
        /\ TakenIn(M_file', M_buckets) = TakenIn(M_file, M_buckets) \ {res.last}
        /\ OthersThan(k, M_file', M_buckets) = OthersThan(k, M_file, M_buckets)
    BY <1>1, <1>2, <1>3, <1>4, EraseContents DEF keys
  <2>2. Cardinality(TakenIn(M_file', M_buckets)) = Cardinality(TakenIn(M_file, M_buckets)) - 1
    <3>1. IsFiniteSet(TakenIn(M_file, M_buckets))
      BY <1>3, TakenFinite
    <3> QED  BY ONLY <2>1, <3>1, FS_RemoveElement
  <2>3. Cardinality(TakenIn(M_file, M_buckets)) \in Nat /\ Cardinality(TakenIn(M_file', M_buckets)) \in Nat
    BY <1>3, TakenCount
  <2> QED  BY <1>2, <1>3, <1>4, <2>1, <2>2, <2>3 DEF IInv, TableOK, Kept, Exact
<1>5. CASE res.last = M_buckets
  BY <1>2, <1>3, <1>5 DEF IInv, TableOK, Kept, Exact, TakenIn
<1> QED  BY <1>4, <1>5

LEMMA FoundElement ==
  ASSUME IInv, M_buckets > 0, NEW k \in Key
  PROVE  /\ find(k).found \in BOOLEAN
         /\ find(k).index \in Slots(M_buckets)
         /\ find(k).found => /\ M_file[find(k).index] \in Element
                             /\ M_file[find(k).index].key = k
<1>1. M_buckets \in Nat \ {0} /\ M_file \in Tables(M_buckets)
  BY DEF IInv, TableOK
<1>2. keys \in KeyTables(M_buckets)
  BY <1>1, KeysOfType DEF keys
<1>3. /\ find(k).found \in BOOLEAN
      /\ find(k).index \in Slots(M_buckets)
      /\ find(k).found => keys[find(k).index] = k
  BY <1>1, <1>2, FindResult DEF find
<1>4. ASSUME find(k).found
      PROVE  M_file[find(k).index] \in Element /\ M_file[find(k).index].key = k
  <2>1. keys[find(k).index] # Free
    BY <1>3, <1>4, FreeAssumption
  <2> QED  BY <1>1, <1>3, <1>4, <2>1, KeysOfType DEF keys
<1> QED  BY <1>3, <1>4

-----------------------------------------------------------------------------
(* Every call preserves the invariant and leaves the other keys alone. *)

LEMMA FindKeeps ==
  ASSUME IInv, NEW k \in Key, Find(k)
  PROVE  IInv' /\ Kept(ret'.key)
<1>1. CASE Traps
  BY <1>1, TrapStep DEF Find, Running
<1>2. CASE /\ M_buckets > 0
           /\ IF find(k).found
              THEN Answer(k, TRUE, M_file[find(k).index].val, find(k).index)
              ELSE Answer(k, FALSE, None, M_buckets)
           /\ UNCHANGED table
  <2>1. find(k).found => /\ M_file[find(k).index].val \in Value \cup {None}
                         /\ find(k).index \in Nat
    BY <1>2, FoundElement DEF Element, Slots
  <2>2. ret' \in Answers /\ status' = status
    BY <1>2, <2>1, AnswerType DEF IInv, TableOK
  <2> QED  BY <1>2, <2>2 DEF Find, Running, IInv, TableOK, RestOK, table, Kept, Exact, TakenIn
<1> QED  BY <1>1, <1>2, Zenon DEF Find

LEMMA SubscriptKeeps ==
  ASSUME IInv, NEW k \in Key, Subscript(k)
  PROVE  IInv' /\ Kept(ret'.key)
<1>1. CASE Traps
  BY <1>1, TrapStep DEF Subscript, Running
<1>2. CASE M_buckets > 0 /\ find(k).found
           /\ Answer(k, FALSE, M_file[find(k).index].val, find(k).index) /\ UNCHANGED table
  <2>1. M_file[find(k).index].val \in Value \cup {None} /\ find(k).index \in Nat
    BY <1>2, FoundElement DEF Element, Slots
  <2>2. ret' \in Answers /\ status' = status
    BY <1>2, <2>1, AnswerType
  <2> QED  BY <1>2, <2>2 DEF Subscript, Running, IInv, TableOK, RestOK, table, Kept, Exact, TakenIn
<1>3. CASE emplace(k, Default)
  BY <1>3, EmplaceStep, ValueAssumption DEF Subscript, Running
<1> QED  BY <1>1, <1>2, <1>3, Zenon DEF Subscript

LEMMA InsertOrAssignKeeps ==
  ASSUME IInv, NEW k \in Key, NEW v \in Value, InsertOrAssign(k, v)
  PROVE  IInv' /\ Kept(ret'.key)
<1>1. CASE Traps
  BY <1>1, TrapStep DEF InsertOrAssign, Running
<1>2. CASE M_buckets > 0 /\ find(k).found
           /\ M_file' = [M_file EXCEPT ![find(k).index].val = v]
           /\ Answer(k, FALSE, v, find(k).index)
           /\ UNCHANGED <<M_buckets, M_elem>>
  <2>1. PICK i \in Slots(M_buckets) : i = find(k).index
    BY <1>2, FoundElement
  <2>2. /\ M_file[i] \in Element /\ M_file[i].key = k
        /\ M_file \in Tables(M_buckets)
        /\ M_file' = [M_file EXCEPT ![i].val = v]
    BY <1>2, <2>1, FoundElement DEF IInv, TableOK
  <2>3. /\ M_file' \in Tables(M_buckets)
        /\ M_file'[i] \in Element /\ M_file'[i].key = k
        /\ \A j \in Slots(M_buckets) \ {i} : M_file'[j] = M_file[j]
    BY <2>2 DEF Tables, Element
  <2>4. TakenIn(M_file', M_buckets) = TakenIn(M_file, M_buckets)
    BY <2>2, <2>3, FreeSlotAssumption DEF TakenIn
  <2>5. TableOK' /\ Kept(k)
    BY <1>2, <2>2, <2>3, <2>4, FreeSlotAssumption DEF IInv, TableOK, Kept, Exact, OthersThan
  <2>6. ret' \in Answers /\ ret'.key = k /\ status' = status
    <3>1. find(k).index \in Nat
      BY <1>2, FoundElement DEF Slots
    <3> QED  BY <1>2, <3>1, AnswerType
  <2> QED  BY <2>5, <2>6 DEF InsertOrAssign, Running, IInv, RestOK
<1>3. CASE emplace(k, v)
  BY <1>3, EmplaceStep DEF InsertOrAssign, Running
<1> QED  BY <1>1, <1>2, <1>3, Zenon DEF InsertOrAssign

LEMMA EraseKeeps ==
  ASSUME IInv, NEW k \in Key, Erase(k)
  PROVE  IInv' /\ Kept(ret'.key)
<1>1. CASE Traps
  BY <1>1, TrapStep DEF Erase, Running
<1>2. CASE M_buckets > 0 /\ erase(k) /\ Answer(k, find(k).found, None, M_buckets)
  <2>1. TableOK' /\ Kept(k)
    BY <1>2, EraseStep
  <2>2. find(k).found \in BOOLEAN /\ M_buckets \in Nat
    BY <1>2, FoundElement DEF IInv, TableOK
  <2>3. ret' \in Answers /\ ret'.key = k /\ status' = status
    BY <1>2, <2>2, AnswerType
  <2> QED  BY <2>1, <2>3 DEF Erase, Running, IInv, RestOK
<1> QED  BY <1>1, <1>2, Zenon DEF Erase

LEMMA EraseAtKeeps ==
  ASSUME IInv, NEW i \in Slots(M_buckets), EraseAt(i)
  PROVE  IInv' /\ Kept(ret'.key)
<1>1. M_buckets \in Nat /\ M_buckets > 0 /\ M_file \in Tables(M_buckets) /\ i \in Nat
  BY DEF IInv, TableOK, Slots
<1>2. PICK k \in Key : k = M_file[i].key
  <2>1. M_file[i] # Free
    BY <1>1, KeysOfType DEF EraseAt, Taken, keys, TakenIn
  <2> QED  BY <1>1, <2>1 DEF Tables, Element
<1>3. PICK at : at = IF M_elem' = 0 THEN M_buckets ELSE i
  OBVIOUS
<1>4. erase(k) /\ Answer(k, find(k).found, None, at)
  BY <1>2, <1>3, Zenon DEF EraseAt
<1>5. TableOK' /\ Kept(k)
  BY <1>1, <1>4, EraseStep
<1>6. find(k).found \in BOOLEAN /\ at \in Nat
  BY <1>1, <1>3, FoundElement
<1>7. ret' \in Answers /\ ret'.key = k /\ status' = status
  BY <1>4, <1>6, AnswerType
<1> QED  BY <1>5, <1>7 DEF EraseAt, Running, IInv, RestOK

LEMMA ClearKeeps == ASSUME IInv, Clear PROVE IInv' /\ Exact'
<1>1. M_file' \in Tables(M_buckets) /\ TakenIn(M_file', M_buckets) = {}
  BY DEF Clear, Tables, TakenIn
<1>2. TableOK' /\ Exact'
  BY <1>1, FS_EmptySet DEF IInv, TableOK, Exact, Clear
<1> QED  BY <1>2 DEF IInv, RestOK, Clear, Running, Answers, NoCall

LEMMA SetBucketChoicesKeeps ==
  ASSUME IInv, NEW choices \in ChoiceSets, SetBucketChoices(choices)
  PROVE  IInv' /\ \A k : Kept(k)
BY DEF SetBucketChoices, table, IInv, TableOK, RestOK, Answers, NoCall, Kept, Exact, TakenIn

LEMMA Invariance ==
  ASSUME IInv, [Next]_vars
  PROVE  IInv' /\ (Exact => Exact') /\ (Clear \/ Kept(ret'.key) \/ UNCHANGED vars)
<1>1. ASSUME NEW k \in Key, NEW v \in Value, Emplace(k, v) PROVE IInv' /\ Kept(ret'.key)
  BY <1>1, EmplaceStep DEF Emplace, Running
<1>2. CASE Clear
  BY <1>2, ClearKeeps
<1>3. CASE UNCHANGED vars
  BY <1>3 DEF vars, IInv, TableOK, RestOK, Exact, TakenIn
<1>4. Next => Clear \/ (IInv' /\ Kept(ret'.key))
  BY <1>1, FindKeeps, SubscriptKeeps, InsertOrAssignKeeps, EraseKeeps,
     EraseAtKeeps, SetBucketChoicesKeeps DEF Next
<1>5. Kept(ret'.key) => (Exact => Exact')
  BY DEF Kept
<1> QED  BY <1>2, <1>3, <1>4, <1>5

-----------------------------------------------------------------------------
(* The theorems. *)

(* Whatever the keys, their hash values, the sizes and the order of the    *)
(* calls, the map never leaves its types.                                  *)
THEOREM TypeCorrect == Spec => []TypeOK
<1>1. IInv /\ [Next]_vars => IInv'
  BY Invariance
<1> QED  BY <1>1, InvariantInit, InvariantImplies, PTL DEF Spec

(* size() counts the taken slots, whatever the shifts did. *)
THEOREM CountCorrect == Spec => []CountMatches
<1>1. IInv /\ Exact /\ [Next]_vars => IInv' /\ Exact'
  BY Invariance
<1> QED  BY <1>1, InvariantInit, InvariantImplies, PTL DEF Spec

(* No call on one key loses, changes or invents an element of another one, *)
(* even where the order of the slots is already broken.                    *)
THEOREM BystandersCorrect == Spec => BystandersKept
<1>1. IInv /\ [Next]_vars => IInv'
  BY Invariance
<1>2. IInv /\ [Next]_vars =>
        [Clear \/ OthersThan(ret'.key, M_file', M_buckets') = OthersThan(ret'.key, M_file, M_buckets)]_vars
  BY Invariance DEF Kept
<1> QED  BY <1>1, <1>2, InvariantInit, PTL DEF Spec, BystandersKept

-----------------------------------------------------------------------------
(* Calls return. *)

(* A growing table is given a size through a float.  Where that is no      *)
(* larger than the present one, or above max_size(), it stays as it is.    *)
Rounded(n) == ThroughFloat(n + 1) \notin n + 1 .. MaxSize

(* A call that never returns puts one element more into a table that is    *)
(* full and has such a size.                                               *)
StuckWhereRounded ==
  status = "running" \/ (status = "loops" /\ M_elem = M_buckets /\ Rounded(M_buckets))

(* Which sizes these are.                                                  *)
LEMMA RoundedSizes ==
  ASSUME NEW n \in Nat, n < MaxSize, Rounded(n)
  PROVE  n >= FloatExact /\ (n % 4 = 0 \/ n + 1 = MaxSize)
<1>1. n + 1 <= FloatExact => ThroughFloat(n + 1) = n + 1
  BY MaxSizeAssumption DEF ThroughFloat
<1>2. (n + 1) % 2 = 0 => ThroughFloat(n + 1) = n + 1
  BY MaxSizeAssumption DEF ThroughFloat
<1>3. n + 1 > FloatExact /\ (n + 1) % 2 # 0 /\ (n + 1) % 4 # 1 => ThroughFloat(n + 1) = n + 2
  BY MaxSizeAssumption DEF ThroughFloat
<1>4. n + 1 > FloatExact
  BY <1>1, MaxSizeAssumption DEF Rounded
<1>5. CASE (n + 1) % 4 = 1
  BY <1>4, <1>5, MaxSizeAssumption
<1>6. CASE (n + 1) % 4 # 1
  BY <1>2, <1>3, <1>4, <1>6, MaxSizeAssumption DEF Rounded
<1> QED  BY <1>5, <1>6

LEMMA NextSizeRounded ==
  ASSUME NEW choices \in ChoiceSets, NEW wanted \in Nat, NEW n, n = next_larger(choices, wanted)
  PROVE  n >= 1 /\ (ThroughFloat(wanted) \in wanted .. MaxSize => n # Refused /\ n >= wanted)
<1> DEFINE least   == ThroughFloat(wanted)
           fitting == {c \in choices : c >= least}
<1>1. CASE wanted > MaxSize
  BY <1>1, MaxSizeType DEF next_larger, Refused
<1>2. CASE wanted <= MaxSize
  <2>1. least \in Nat
    BY <1>2, ThroughFloatNear
  <2>2. n = IF fitting = {} THEN least ELSE Min(fitting)
    BY <1>2, MaxSizeType DEF next_larger
  <2>3. fitting \subseteq Nat /\ \A c \in fitting : 1 <= c /\ least <= c /\ c <= MaxSize
    BY ChoicesAssumption, MaxSizeType
  <2>4. CASE fitting = {}
    <3>1. PICK c \in choices : 1 <= c /\ c \in Nat
      BY ChoicesAssumption
    <3>2. least > c
      BY <2>1, <2>4, <3>1
    <3>3. n = least
      BY <2>2, <2>4
    <3> HIDE DEF least, fitting
    <3> QED  BY <2>1, <3>1, <3>2, <3>3, MaxSizeType DEF Refused, least
  <2>5. CASE fitting # {}
    <3>1. Min(fitting) \in fitting
      BY <2>3, <2>5, MinNat
    <3>2. n \in fitting
      BY <2>2, <2>5, <3>1
    <3> HIDE DEF least, fitting
    <3>3. n \in Nat /\ 1 <= n /\ least <= n /\ n <= MaxSize
      BY <2>3, <3>2
    <3> QED  BY <2>1, <3>3, MaxSizeType DEF Refused, least
  <2> QED  BY <2>4, <2>5
<1> QED  BY <1>1, <1>2, MaxSizeType

LEMMA EmplaceUnstuck ==
  ASSUME IInv, Exact, M_buckets > 0, status = "running",
         NEW k \in Key, NEW v \in Value, emplace(k, v)
  PROVE  M_buckets' > 0 /\ StuckWhereRounded'
<1>1. EmplaceBuckets \in Nat /\ EmplaceBuckets >= M_buckets
  BY InvariantImplies, EmplaceBucketsType
<1>2. PICK B, t : B = EmplaceBuckets /\ t = Resized(M_file, B)
  OBVIOUS
<1>3. \/ M_buckets = 0
      \/ EmplaceLoops(KeysOf(t, B), k, B) /\ Loops
      \/ PutInto(t, B, k, v)
  BY <1>2, Zenon DEF emplace
<1>4. CASE PutInto(t, B, k, v)
  <2>1. M_buckets' = B /\ status' = status
    BY <1>4 DEF PutInto, Answer
  <2> QED  BY <1>1, <1>2, <2>1 DEF StuckWhereRounded, IInv, TableOK
<1>5. CASE EmplaceLoops(KeysOf(t, B), k, B) /\ Loops
  <2>1. t \in Tables(B) /\ TakenIn(t, B) = TakenIn(M_file, M_buckets)
    BY <1>1, <1>2, ResizedContents DEF IInv, TableOK
  <2>2. TakenIn(t, B) = Slots(B)
    BY <1>1, <1>2, <1>5, <2>1, KeysOfType DEF EmplaceLoops, FreeSlots, TakenIn
  <2>3. M_elem = B
    BY <1>1, <1>2, <2>1, <2>2, FS_Interval DEF Exact, Slots
  <2>4. M_elem <= M_buckets
    <3>1. IsFiniteSet(Slots(M_buckets)) /\ Cardinality(Slots(M_buckets)) = M_buckets
      BY FS_Interval DEF IInv, TableOK, Slots
    <3> QED  BY <3>1, FS_Subset DEF Exact, TakenIn
  <2>5. M_elem = M_buckets /\ B = M_buckets
    BY <1>1, <1>2, <2>3, <2>4 DEF IInv, TableOK
  <2>6. PICK n, m : /\ n = next_larger(M_bucket_choices, M_buckets + 1)
                    /\ m = next_size(M_bucket_choices, M_buckets + 1, TRUE, M_elem)
    BY Zenon
  <2>7. B = IF m = Refused THEN M_buckets ELSE m
    BY <1>2, <2>5, <2>6, Zenon DEF EmplaceBuckets, reserve_choice
  <2>8. ASSUME M_buckets <= MaxSize PROVE Rounded(M_buckets)
    <3>1. m = n
      BY <2>5, <2>6, <2>8, MaxSizeType DEF next_size, IInv, TableOK
    <3>2. n = Refused \/ n = M_buckets
      BY <2>5, <2>7, <3>1
    <3> QED  BY <2>6, <3>2, NextSizeRounded DEF Rounded, IInv, TableOK, RestOK
  <2>9. ASSUME M_buckets > MaxSize PROVE Rounded(M_buckets)
    <3>1. M_buckets + 1 .. MaxSize = {}
      BY <2>9, MaxSizeType DEF IInv, TableOK
    <3> QED  BY <3>1 DEF Rounded
  <2>10. Rounded(M_buckets)
    BY <2>8, <2>9, MaxSizeType DEF IInv, TableOK
  <2> QED  BY <1>5, <2>5, <2>10 DEF Loops, table, StuckWhereRounded, IInv, TableOK
<1> QED  BY <1>3, <1>4, <1>5 DEF IInv, TableOK

(* What every call does that returns without growing the table. *)
Returns == M_buckets' = M_buckets /\ status' = "running"

LEMMA OthersReturn ==
  ASSUME IInv, M_buckets > 0
  PROVE  /\ \A k \in Key : Find(k) \/ Erase(k) => Returns
         /\ \A i : EraseAt(i) => Returns
         /\ Clear => Returns
         /\ \A choices : SetBucketChoices(choices) => Returns
         /\ \A k \in Key : Subscript(k) => Returns \/ emplace(k, Default)
         /\ \A k \in Key, v \in Value : InsertOrAssign(k, v) => Returns \/ emplace(k, v)
<1>1. ASSUME NEW k \in Key, Find(k) PROVE Returns
  BY <1>1 DEF Find, Running, Answer, table, IInv, TableOK, Returns
<1>2. ASSUME NEW k \in Key, Erase(k) PROVE Returns
  BY <1>2 DEF Erase, erase, Running, Answer, IInv, TableOK, Returns
<1>3. ASSUME NEW i, EraseAt(i) PROVE Returns
  BY <1>3 DEF EraseAt, erase, Running, Answer, Returns
<1>4. Clear => Returns
  BY DEF Clear, Running, Returns
<1>5. ASSUME NEW choices, SetBucketChoices(choices) PROVE Returns
  BY <1>5 DEF SetBucketChoices, table, Returns
<1>6. ASSUME NEW k \in Key, Subscript(k) PROVE Returns \/ emplace(k, Default)
  BY <1>6 DEF Subscript, Running, Answer, table, IInv, TableOK, Returns
<1>7. ASSUME NEW k \in Key, NEW v \in Value, InsertOrAssign(k, v)
      PROVE  Returns \/ emplace(k, v)
  BY <1>7 DEF InsertOrAssign, Running, Answer, IInv, TableOK, Returns
<1> QED  BY <1>1, <1>2, <1>3, <1>4, <1>5, <1>6, <1>7

LEMMA UnstuckInvariance ==
  ASSUME IInv, Exact, M_buckets > 0, StuckWhereRounded, [Next]_vars
  PROVE  M_buckets' > 0 /\ StuckWhereRounded'
<1>1. CASE UNCHANGED vars
  BY <1>1 DEF vars, StuckWhereRounded
<1>2. CASE Returns
  BY <1>2 DEF Returns, StuckWhereRounded
<1>3. ASSUME status = "running", NEW k \in Key, NEW v \in Value, emplace(k, v)
      PROVE  M_buckets' > 0 /\ StuckWhereRounded'
  BY <1>3, EmplaceUnstuck
<1>4. ASSUME NEW k \in Key, NEW v \in Value, Emplace(k, v) \/ InsertOrAssign(k, v)
      PROVE  M_buckets' > 0 /\ StuckWhereRounded'
  <2>1. status = "running"
    BY <1>4 DEF Emplace, InsertOrAssign, Running
  <2>2. emplace(k, v) \/ Returns
    BY <1>4, OthersReturn DEF Emplace
  <2> QED  BY <1>2, <1>3, <2>1, <2>2
<1>5. ASSUME NEW k \in Key, Subscript(k)
      PROVE  M_buckets' > 0 /\ StuckWhereRounded'
  <2>1. status = "running" /\ Default \in Value
    BY <1>5, ValueAssumption DEF Subscript, Running
  <2>2. emplace(k, Default) \/ Returns
    BY <1>5, OthersReturn
  <2> QED  BY <1>2, <1>3, <2>1, <2>2
<1>6. CASE \E k \in Key : Find(k) \/ Erase(k)
  BY <1>2, <1>6, OthersReturn
<1>7. CASE (\E i \in Slots(M_buckets) : EraseAt(i)) \/ Clear
           \/ \E choices \in ChoiceSets : SetBucketChoices(choices)
  BY <1>2, <1>7, OthersReturn
<1> QED  BY <1>1, <1>4, <1>5, <1>6, <1>7 DEF Next

(* Every call returns, unless it puts an element into a full table whose   *)
(* next size is, through the float load factor, no larger one: it has      *)
(* max_size() slots or one less, or at least 2^24 and a multiple of four   *)
(* (RoundedSizes).                                                         *)
THEOREM CallsStickWhereRounded == Spec => []StuckWhereRounded
<1>1. IInv /\ Exact /\ [Next]_vars => IInv' /\ Exact'
  BY Invariance
<1>2. Init => M_buckets > 0 /\ StuckWhereRounded
  <2>1. Init => M_buckets >= 1 /\ M_buckets \in Nat
    BY NextSizeRounded, NextSizeLarger, BucketsAssumption, MaxSizeType DEF Init
  <2> QED  BY <2>1 DEF Init, StuckWhereRounded
<1>3. IInv /\ Exact /\ M_buckets > 0 /\ StuckWhereRounded /\ [Next]_vars
        => (M_buckets > 0)' /\ StuckWhereRounded'
  BY UnstuckInvariance
<1> QED  BY <1>1, <1>2, <1>3, InvariantInit, PTL DEF Spec

(* So up to 2^24 slots every call returns until a full table is asked to   *)
(* grow past max_size(): above, the rounding may refuse the growth (run    *)
(* MapGrowth).                                                             *)
THEOREM CallsReturn ==
  ASSUME MaxSize <= FloatExact
  PROVE  Spec => []NeverStuck
<1>1. IInv /\ Exact /\ StuckWhereRounded => NeverStuck
  <2> SUFFICES ASSUME IInv, StuckWhereRounded, status # "running" PROVE NeverStuck
    BY DEF NeverStuck
  <2>1. M_buckets \in Nat /\ Rounded(M_buckets)
    BY DEF StuckWhereRounded, IInv, TableOK
  <2>2. M_buckets >= MaxSize
    BY <2>1, RoundedSizes, MaxSizeAssumption
  <2> QED  BY <2>2 DEF StuckWhereRounded, NeverStuck
<1>2. IInv /\ Exact /\ [Next]_vars => IInv' /\ Exact'
  BY Invariance
<1> QED  BY <1>1, <1>2, CallsStickWhereRounded, InvariantInit, PTL DEF Spec
=============================================================================
