------------------------- MODULE OpenAddressProofs -------------------------
(***************************************************************************)
(* Lemmas about the probing algorithms of OpenAddress: where the loops     *)
(* stop, and what the shifts of emplace and erase do to any table.         *)
(***************************************************************************)
EXTENDS OpenAddress, FiniteSetTheorems, TLAPS

-----------------------------------------------------------------------------
(* Least elements of sets of naturals. *)

LEMMA NatOrder ==
  \E R : IsWellFoundedOn(R, Nat) /\ \A x, y \in Nat : x < y => <<x, y>> \in R
<1>1. \A x, y \in Nat : x < y => <<x, y>> \in OpToRel(<, Nat)
  BY DEF OpToRel
<1> WITNESS OpToRel(<, Nat)
<1> QED  BY <1>1, NatLessThanWellFounded

LEMMA LeastNat ==
  ASSUME NEW S, S \subseteq Nat, S # {}
  PROVE  \E x \in S : \A y \in S : x <= y
<1>1. PICK R : IsWellFoundedOn(R, Nat) /\ \A x, y \in Nat : x < y => <<x, y>> \in R
  BY NatOrder
<1>2. PICK x \in S : \A y \in S : ~(<<y, x>> \in R)
  BY ONLY <1>1, S \subseteq Nat, S # {}, WFMin, ZenonT(60)
<1>3. ASSUME NEW y \in S PROVE x <= y
  <2>1. x \in Nat /\ y \in Nat
    OBVIOUS
  <2>2. ~(y < x)
    BY <1>1, <1>2, <2>1, Zenon
  <2> QED  BY <2>1, <2>2
<1> QED  BY <1>3

LEMMA MinNat ==
  ASSUME NEW S, S \subseteq Nat, S # {}
  PROVE  Min(S) \in S /\ \A y \in S : Min(S) <= y
BY LeastNat DEF Min

LEMMA MaxNat ==
  ASSUME NEW S, S # {}, S \subseteq Nat, NEW b \in Nat, \A n \in S : n <= b
  PROVE  Max(S) \in S /\ \A n \in S : n <= Max(S)
<1> DEFINE above == {n \in Nat : \A m \in S : m <= n}
<1>1. above # {} /\ above \subseteq Nat
  OBVIOUS
<1>2. PICK a \in above : \A n \in above : a <= n
  <2> HIDE DEF above
  <2> QED  BY <1>1, LeastNat
<1>3. a \in S
  <2> SUFFICES ASSUME a \notin S PROVE FALSE
    OBVIOUS
  <2>1. PICK m \in S : TRUE
    OBVIOUS
  <2>2. a - 1 \in above
    <3>1. \A n \in S : n <= a /\ n # a /\ n \in Nat
      BY <1>2
    <3> QED  BY <1>2, <2>1, <3>1
  <2> QED  BY <1>2, <2>2
<1>4. \A n \in S : n <= a
  BY <1>2
<1>5. \A x \in S : (\A n \in S : n <= x) => x = a
  BY <1>3, <1>4
<1> QED  BY <1>3, <1>4, <1>5 DEF Max

-----------------------------------------------------------------------------
(* The ring of slots. *)

LEMMA HomeType ==
  ASSUME NEW B \in Nat \ {0}, NEW k \in Key
  PROVE  Home(k, B) \in Slots(B)
BY HashAssumption DEF Home, Slots

LEMMA AdvanceType ==
  ASSUME NEW B \in Nat, NEW i \in Slots(B), NEW d \in 0 .. B
  PROVE  Advance(i, d, B) \in Slots(B)
BY DEF Advance, Slots

LEMMA StepsStop ==
  ASSUME NEW B \in Nat, NEW i \in Slots(B), NEW Stop
  PROVE  /\ Steps(i, Stop, B) \in 0 .. B
         /\ Steps(i, Stop, B) = B \/ FirstIn(i, Stop, B) \in Stop
         /\ \A d \in 0 .. B : d < Steps(i, Stop, B) => Advance(i, d, B) \notin Stop
         /\ FirstIn(i, Stop, B) \in Slots(B)
<1> DEFINE S == {d \in 0 .. B : d = B \/ Advance(i, d, B) \in Stop}
<1>1. S \subseteq Nat /\ B \in S
  OBVIOUS
<1>2. Min(S) \in S /\ \A d \in S : Min(S) <= d
  BY <1>1, MinNat
<1>3. Steps(i, Stop, B) = Min(S)
  BY DEF Steps
<1>4. Min(S) \in 0 .. B /\ (Min(S) = B \/ Advance(i, Min(S), B) \in Stop)
  BY <1>2
<1>5. ASSUME NEW d \in 0 .. B, d < Min(S), Advance(i, d, B) \in Stop
      PROVE  FALSE
  <2>1. d \in S
    BY <1>5
  <2> HIDE DEF S
  <2> QED  BY <2>1, <1>2, <1>4, <1>5
<1>6. Advance(i, Min(S), B) \in Slots(B)
  BY <1>4, AdvanceType
<1> HIDE DEF S
<1> QED  BY <1>3, <1>4, <1>5, <1>6 DEF FirstIn

(* A loop that has a slot to stop at stops at one. *)
LEMMA StepsFind ==
  ASSUME NEW B \in Nat, NEW i \in Slots(B), NEW Stop, NEW j \in Stop \cap Slots(B)
  PROVE  /\ Steps(i, Stop, B) <= Distance(i, j, B)
         /\ Steps(i, Stop, B) < B
         /\ FirstIn(i, Stop, B) \in Stop
<1>1. Distance(i, j, B) \in 0 .. B - 1 /\ Advance(i, Distance(i, j, B), B) = j
  BY DEF Distance, Advance, Slots
<1> QED  BY <1>1, StepsStop

-----------------------------------------------------------------------------
(* What the algorithms return on any table. *)

KeyTables(B) == [Slots(B) -> Key \cup {Free}]

LEMMA FindResult ==
  ASSUME NEW B \in Nat \ {0}, NEW k \in Key, NEW keys \in KeyTables(B)
  PROVE  LET res == open_address_find(keys, k, B)
         IN  /\ res.index \in Slots(B)
             /\ res.found \in BOOLEAN
             /\ res.found => keys[res.index] = k
<1> DEFINE home      == Home(k, B)
           lower     == {i \in Taken(keys, B) : Home(keys[i], B) < home}
           begin     == FirstIn(home, Slots(B) \ Overflowed(keys, B), B)
           lowerRun  == Steps(begin, Slots(B) \ lower, B)
           startSame == Advance(begin, lowerRun, B)
           same      == {i \in Taken(keys, B) : Home(keys[i], B) = home}
           sameRun   == Steps(startSame, {i \in Slots(B) : i \in same => keys[i] = k}, B)
           last      == Advance(startSame, sameRun, B)
<1>1. home \in Slots(B)
  BY HomeType
<1>2. begin \in Slots(B)
  BY <1>1, StepsStop
<1>3. startSame \in Slots(B)
  BY <1>2, StepsStop DEF FirstIn
<1>4. last \in Slots(B)
  BY <1>3, StepsStop DEF FirstIn
<1>5. open_address_find(keys, k, B) \in
        { [index |-> begin, found |-> FALSE],
          [index |-> startSame, found |-> FALSE],
          [index |-> last, found |-> keys[last] = k] }
  <2>1. open_address_find(keys, k, B) =
          CASE keys[begin] = Free
                 -> [index |-> begin, found |-> FALSE]
            [] keys[begin] # Free /\ (lowerRun = B \/ startSame \notin same)
                 -> [index |-> startSame, found |-> FALSE]
            [] OTHER
                 -> [index |-> last, found |-> keys[last] = k]
    BY DEF open_address_find
  <2> QED  BY ONLY <2>1
<1> HIDE DEF begin, startSame, last
<1>6. CASE open_address_find(keys, k, B) = [index |-> begin, found |-> FALSE]
  BY <1>6, <1>2
<1>7. CASE open_address_find(keys, k, B) = [index |-> startSame, found |-> FALSE]
  BY <1>7, <1>3
<1>8. CASE open_address_find(keys, k, B) = [index |-> last, found |-> keys[last] = k]
  <2>1. PICK f \in BOOLEAN : f <=> keys[last] = k
    BY Zenon
  <2>2. f = (keys[last] = k)
    BY <2>1, Zenon
  <2>3. open_address_find(keys, k, B) = [index |-> last, found |-> f]
    BY <1>8, <2>2, Zenon
  <2> QED  BY <2>1, <2>3, <1>4
<1> QED  BY <1>5, <1>6, <1>7, <1>8

(* An insertion has its slots in the table; between them all are taken, and *)
(* the last one is free if the loop for it ends.                           *)
LEMMA EmplaceResult ==
  ASSUME NEW B \in Nat \ {0}, NEW k \in Key, NEW keys \in KeyTables(B)
  PROVE  LET res == open_address_emplace_index(keys, k, B)
         IN  /\ res.index \in Slots(B) /\ res.hole \in Slots(B)
             /\ res.inserted \in BOOLEAN
             /\ ~res.inserted => keys[res.index] = k
             /\ res.inserted /\ ~EmplaceLoops(keys, k, B) =>
                  /\ keys[res.hole] = Free
                  /\ \A j \in Slots(B) :
                       Distance(res.index, j, B) < Distance(res.index, res.hole, B)
                         => keys[j] # Free
<1> DEFINE found == open_address_find(keys, k, B).found
           index == open_address_find(keys, k, B).index
           free  == FreeSlots(keys, B)
           hole  == FirstIn(index, free, B)
           res   == open_address_emplace_index(keys, k, B)
<1>1. index \in Slots(B) /\ found \in BOOLEAN /\ (found => keys[index] = k)
  BY FindResult
<1>2. hole \in Slots(B)
  BY <1>1, StepsStop
<1>3. /\ res.index = index
      /\ res.inserted = ~found
      /\ res.hole = IF found THEN index ELSE hole
  BY DEF open_address_emplace_index
<1>4. ASSUME ~found, ~EmplaceLoops(keys, k, B)
      PROVE  /\ keys[hole] = Free
             /\ \A j \in Slots(B) :
                  Distance(index, j, B) < Distance(index, hole, B) => keys[j] # Free
  <2>1. PICK f \in free : TRUE
    BY <1>4 DEF EmplaceLoops
  <2>2. f \in free \cap Slots(B)
    BY <2>1 DEF FreeSlots
  <2>3. hole \in free
    BY <1>1, <2>2, StepsFind
  <2>4. ASSUME NEW j \in Slots(B), keys[j] = Free,
               Distance(index, j, B) < Distance(index, hole, B)
        PROVE  FALSE
    <3>1. j \in free \cap Slots(B)
      BY <2>4 DEF FreeSlots
    <3>2. Steps(index, free, B) <= Distance(index, j, B) /\ Steps(index, free, B) < B
      BY <1>1, <3>1, StepsFind
    <3>3. Steps(index, free, B) \in 0 .. B /\ hole = Advance(index, Steps(index, free, B), B)
      BY <1>1, StepsStop DEF FirstIn
    <3>4. Distance(index, hole, B) = Steps(index, free, B)
      <4> HIDE DEF index, hole, free
      <4> QED  BY <1>1, <3>2, <3>3 DEF Distance, Advance, Slots
    <3>5. Distance(index, j, B) \in Nat
      <4> HIDE DEF index, hole, free
      <4> QED  BY <1>1 DEF Distance, Slots
    <3> HIDE DEF index, hole, free
    <3> QED  BY <3>2, <3>3, <3>4, <3>5, <2>4
  <2>5. keys[hole] = Free
    BY <2>3 DEF FreeSlots
  <2> QED  BY <2>4, <2>5
<1> HIDE DEF found, index, hole
<1> QED  BY <1>1, <1>2, <1>3, <1>4

(* A hit leads from the slot of the key over taken slots to the last one   *)
(* to move; a miss is told by a result that is no slot.                    *)
LEMMA EraseResult ==
  ASSUME NEW B \in Nat \ {0}, NEW k \in Key, NEW keys \in KeyTables(B)
  PROVE  LET res   == open_address_erase_index(keys, k, B)
             found == open_address_find(keys, k, B).found
         IN  /\ found <=> res.last # B
             /\ found =>
                  /\ res.start \in Slots(B) /\ res.last \in Slots(B)
                  /\ keys[res.start] = k
                  /\ \A j \in Slots(B) :
                       Distance(res.start, j, B) <= Distance(res.start, res.last, B)
                         => keys[j] # Free
<1> DEFINE found == open_address_find(keys, k, B).found
           index == open_address_find(keys, k, B).index
           next  == Advance(index, 1, B)
           stop  == FreeSlots(keys, B) \cup AtHome(keys, B) \cup {index}
           steps == Steps(next, stop, B)
           last  == Advance(index, steps, B)
           res   == open_address_erase_index(keys, k, B)
<1>1. index \in Slots(B) /\ found \in BOOLEAN /\ (found => keys[index] = k)
  BY FindResult
<1>2. res.start = index /\ res.last = IF found THEN last ELSE B
  BY DEF open_address_erase_index
<1>3. next \in Slots(B)
  BY <1>1, AdvanceType
<1>4. steps \in 0 .. B - 1 /\ steps <= Distance(next, index, B)
  <2>1. index \in stop \cap Slots(B)
    BY <1>1
  <2>2. steps \in 0 .. B
    BY <1>3, StepsStop
  <2>3. steps < B /\ steps <= Distance(next, index, B)
    BY <1>3, <2>1, StepsFind
  <2> HIDE DEF steps
  <2> QED  BY <2>2, <2>3
<1>5. \A d \in 0 .. B : d < steps => Advance(next, d, B) \notin FreeSlots(keys, B)
  BY <1>3, StepsStop
<1>6. last \in Slots(B) /\ last # B
  <2>1. last \in Slots(B)
    <3> HIDE DEF steps, index
    <3> QED  BY <1>1, <1>4, AdvanceType
  <2> QED  BY <2>1 DEF Slots
<1>7. ASSUME found, NEW j \in Slots(B),
             Distance(index, j, B) <= Distance(index, last, B)
      PROVE  keys[j] # Free
  <2>1. CASE j = index
    BY <2>1, <1>1, <1>7, FreeAssumption
  <2>2. CASE j # index
    <3> DEFINE d == Distance(index, j, B) - 1
    <3>1. d \in 0 .. B /\ d < steps /\ Advance(next, d, B) = j
      <4> HIDE DEF steps, index, found
      <4> QED  BY <1>1, <1>4, <1>7, <2>2 DEF Distance, Advance, Slots
    <3>2. j \notin FreeSlots(keys, B)
      <4> HIDE DEF steps, next, d
      <4> QED  BY <3>1, <1>5
    <3> QED  BY <3>2 DEF FreeSlots
  <2> QED  BY <2>1, <2>2
<1> HIDE DEF index, last
<1> QED  BY <1>1, <1>2, <1>6, <1>7

-----------------------------------------------------------------------------
(* What the shifts do to the content of a table, whatever it is. *)

ElementsIn(t, S) == {t[i] : i \in {j \in S : t[j] # Free}}

(* Shifting up and filling the gap takes the hole and nothing else;         *)
(* every old element but the one in the gap's way is still there.          *)
LEMMA ShiftUpContents ==
  ASSUME NEW B \in Nat, NEW t,
         NEW index \in Slots(B), NEW hole \in Slots(B),
         t[hole] = Free,
         \A j \in Slots(B) :
           Distance(index, j, B) < Distance(index, hole, B) => t[j] # Free,
         NEW u, DOMAIN u = Slots(B), u[index] # Free,
         \A i \in Slots(B) \ {index} : u[i] = ShiftUp(t, index, hole, B)[i]
  PROVE  /\ \A i \in Slots(B) : u[i] # Free <=> t[i] # Free \/ i = hole
         /\ ElementsIn(u, Slots(B) \ {index}) = ElementsIn(t, Slots(B))
<1> DEFINE D(i) == Distance(index, i, B)
<1>1. \A i \in Slots(B) \ {index} :
           u[i] = IF D(i) <= D(hole) THEN t[Advance(i, B - 1, B)] ELSE t[i]
  BY DEF ShiftUp
<1>2. \A i \in Slots(B) \ {index} :
        /\ Advance(i, B - 1, B) \in Slots(B)
        /\ D(Advance(i, B - 1, B)) = D(i) - 1
  BY DEF Advance, Distance, Slots
<1>3. \A i \in Slots(B) :
        /\ D(i) \in 0 .. B - 1
        /\ (D(i) = 0 <=> i = index)
        /\ (D(i) = D(hole) => i = hole)
        /\ D(i) < B - 1 => /\ Advance(i, 1, B) \in Slots(B) \ {index}
                           /\ D(Advance(i, 1, B)) = D(i) + 1
                           /\ Advance(Advance(i, 1, B), B - 1, B) = i
  BY DEF Advance, Distance, Slots
<1> HIDE DEF D
<1>4. \A j \in Slots(B) : D(j) < D(hole) => t[j] # Free
  BY DEF D
<1>5. ASSUME NEW i \in Slots(B) \ {index}, D(i) <= D(hole)
      PROVE  u[i] = t[Advance(i, B - 1, B)] /\ u[i] # Free
  <2>1. D(Advance(i, B - 1, B)) < D(hole)
    BY <1>2, <1>3, <1>5
  <2> QED  BY <2>1, <1>1, <1>2, <1>4, <1>5
<1>6. ASSUME NEW i \in Slots(B) \ {index}, ~(D(i) <= D(hole))
      PROVE  u[i] = t[i] /\ i # hole
  BY <1>1, <1>3, <1>6
<1>7. ASSUME NEW i \in Slots(B), D(i) <= D(hole)
      PROVE  t[i] # Free \/ i = hole
  BY <1>3, <1>4, <1>7
<1>8. \A i \in Slots(B) : u[i] # Free <=> t[i] # Free \/ i = hole
  <2>1. D(index) <= D(hole)
    BY <1>3
  <2> QED  BY <2>1, <1>1, <1>5, <1>6, <1>7
<1>9. ASSUME NEW j \in Slots(B), t[j] # Free
      PROVE  \E i \in Slots(B) \ {index} : u[i] = t[j]
  <2>1. CASE D(j) < D(hole)
    <3>1. D(j) < B - 1 /\ D(j) + 1 <= D(hole)
      BY <2>1, <1>3
    <3>2. /\ Advance(j, 1, B) \in Slots(B) \ {index}
          /\ D(Advance(j, 1, B)) <= D(hole)
          /\ Advance(Advance(j, 1, B), B - 1, B) = j
      BY <3>1, <1>3
    <3> QED  BY <3>2, <1>1
  <2>2. CASE ~(D(j) < D(hole))
    <3>1. j # index /\ ~(D(j) <= D(hole))
      BY <1>9, <2>2, <1>3
    <3> QED  BY <3>1, <1>6
  <2> QED  BY <2>1, <2>2
<1>10. ASSUME NEW i \in Slots(B) \ {index}, u[i] # Free
       PROVE  \E j \in Slots(B) : u[i] = t[j]
  BY <1>2, <1>5, <1>6, <1>10
<1>11. ElementsIn(u, Slots(B) \ {index}) = ElementsIn(t, Slots(B))
  <2>1. ASSUME NEW x \in ElementsIn(u, Slots(B) \ {index}) PROVE x \in ElementsIn(t, Slots(B))
    BY <2>1, <1>10 DEF ElementsIn
  <2>2. ASSUME NEW x \in ElementsIn(t, Slots(B)) PROVE x \in ElementsIn(u, Slots(B) \ {index})
    BY <2>2, <1>9 DEF ElementsIn
  <2> QED  BY <2>1, <2>2
<1> QED  BY <1>8, <1>11

(* Shifting down over the slot start and freeing the last slot takes out   *)
(* the element of start and nothing else.                                  *)
LEMMA ShiftDownContents ==
  ASSUME NEW B \in Nat, NEW t,
         NEW start \in Slots(B), NEW last \in Slots(B),
         \A j \in Slots(B) :
           Distance(start, j, B) <= Distance(start, last, B) => t[j] # Free,
         NEW u, u = [ShiftDown(t, start, last, B) EXCEPT ![last] = Free]
  PROVE  /\ DOMAIN u = Slots(B)
         /\ {i \in Slots(B) : u[i] # Free} = {i \in Slots(B) : t[i] # Free} \ {last}
         /\ t[last] # Free
         /\ \A i \in Slots(B) : u[i] # Free => \E j \in Slots(B) \ {start} : u[i] = t[j]
         /\ \A j \in Slots(B) \ {start} : t[j] # Free => \E i \in Slots(B) : u[i] = t[j]
<1> DEFINE D(i) == Distance(start, i, B)
<1>1. /\ DOMAIN u = Slots(B)
      /\ u[last] = Free
      /\ \A i \in Slots(B) \ {last} :
           u[i] = IF D(i) < D(last) THEN t[Advance(i, 1, B)] ELSE t[i]
  BY DEF ShiftDown
<1>2. \A i \in Slots(B) :
        /\ D(i) \in 0 .. B - 1
        /\ (D(i) = 0 <=> i = start)
        /\ (D(i) = D(last) => i = last)
        /\ D(i) < B - 1 => /\ Advance(i, 1, B) \in Slots(B) \ {start}
                           /\ D(Advance(i, 1, B)) = D(i) + 1
        /\ i # start => /\ Advance(i, B - 1, B) \in Slots(B)
                        /\ D(Advance(i, B - 1, B)) = D(i) - 1
                        /\ Advance(Advance(i, B - 1, B), 1, B) = i
  BY DEF Advance, Distance, Slots
<1> HIDE DEF D
<1>3. \A j \in Slots(B) : D(j) <= D(last) => t[j] # Free
  BY DEF D
<1>4. ASSUME NEW i \in Slots(B), D(i) < D(last)
      PROVE  /\ Advance(i, 1, B) \in Slots(B) \ {start}
             /\ u[i] = t[Advance(i, 1, B)] /\ u[i] # Free
  <2>1. D(i) < B - 1 /\ i # last
    BY <1>2, <1>4
  <2>2. Advance(i, 1, B) \in Slots(B) \ {start} /\ D(Advance(i, 1, B)) <= D(last)
    BY <2>1, <1>2, <1>4
  <2> QED  BY <2>1, <2>2, <1>1, <1>3, <1>4
<1>5. ASSUME NEW i \in Slots(B) \ {last}, ~(D(i) < D(last))
      PROVE  u[i] = t[i] /\ i # start
  <2>1. i # start
    BY <1>2, <1>5
  <2> QED  BY <2>1, <1>1, <1>5
<1>6. \A i \in Slots(B) : u[i] # Free <=> t[i] # Free /\ i # last
  <2>1. ASSUME NEW i \in Slots(B), D(i) < D(last) PROVE t[i] # Free /\ i # last
    BY <1>2, <1>3, <2>1
  <2> QED  BY <2>1, <1>1, <1>4, <1>5
<1>7. t[last] # Free
  BY <1>2, <1>3
<1>8. ASSUME NEW i \in Slots(B), u[i] # Free
      PROVE  \E j \in Slots(B) \ {start} : u[i] = t[j]
  <2>1. CASE D(i) < D(last)
    BY <2>1, <1>4
  <2>2. CASE ~(D(i) < D(last))
    BY <2>2, <1>1, <1>5, <1>8
  <2> QED  BY <2>1, <2>2
<1>9. ASSUME NEW j \in Slots(B) \ {start}, t[j] # Free
      PROVE  \E i \in Slots(B) : u[i] = t[j]
  <2>1. CASE D(j) <= D(last)
    <3>1. /\ Advance(j, B - 1, B) \in Slots(B)
          /\ D(Advance(j, B - 1, B)) < D(last)
          /\ Advance(Advance(j, B - 1, B), 1, B) = j
      BY <2>1, <1>2
    <3> QED  BY <3>1, <1>4
  <2>2. CASE ~(D(j) <= D(last))
    <3>1. j # last /\ ~(D(j) < D(last))
      BY <2>2, <1>2
    <3> QED  BY <3>1, <1>5
  <2> QED  BY <2>1, <2>2
<1> QED  BY <1>1, <1>6, <1>7, <1>8, <1>9

(* Shifting up gives every slot but index the content of another one, and  *)
(* drops that of the hole.                                                 *)
Shuffles(src, dst, t, u, index, hole, B) ==
  /\ src \in [Slots(B) \ {index} -> Slots(B) \ {hole}]
  /\ dst \in [Slots(B) \ {hole} -> Slots(B) \ {index}]
  /\ \A j \in Slots(B) \ {index} : dst[src[j]] = j /\ u[j] = t[src[j]]
  /\ \A p \in Slots(B) \ {hole} : src[dst[p]] = p

LEMMA ShiftUpMoves ==
  ASSUME NEW B \in Nat, NEW t, NEW index \in Slots(B), NEW hole \in Slots(B)
  PROVE  \E src, dst : Shuffles(src, dst, t, ShiftUp(t, index, hole, B), index, hole, B)
<1> DEFINE D(i) == Distance(index, i, B)
           down(i) == Advance(i, B - 1, B)
           up(i)   == Advance(i, 1, B)
<1>1. \A j \in Slots(B) \ {index} :
        ShiftUp(t, index, hole, B)[j] = IF D(j) <= D(hole) THEN t[down(j)] ELSE t[j]
  BY DEF ShiftUp
<1>2. \A i \in Slots(B) \ {index} :
        down(i) \in Slots(B) /\ D(down(i)) = D(i) - 1 /\ up(down(i)) = i
  BY DEF Advance, Distance, Slots
<1>3. \A i \in Slots(B) :
        /\ D(i) \in 0 .. B - 1
        /\ (D(i) = 0 <=> i = index)
        /\ (D(i) = D(hole) => i = hole)
        /\ D(i) < B - 1 => up(i) \in Slots(B) \ {index} /\ D(up(i)) = D(i) + 1 /\ down(up(i)) = i
  BY DEF Advance, Distance, Slots
<1> HIDE DEF D, down, up
<1> DEFINE src == [j \in Slots(B) \ {index} |-> IF D(j) <= D(hole) THEN down(j) ELSE j]
           dst == [p \in Slots(B) \ {hole} |-> IF D(p) < D(hole) THEN up(p) ELSE p]
<1>4. ASSUME NEW j \in Slots(B) \ {index}
      PROVE  /\ src[j] \in Slots(B) \ {hole} /\ dst[src[j]] = j
             /\ ShiftUp(t, index, hole, B)[j] = t[src[j]]
  <2>1. CASE D(j) <= D(hole)
    <3>1. src[j] = down(j) /\ D(down(j)) < D(hole) /\ down(j) \in Slots(B)
      BY <1>2, <1>3, <2>1
    <3>2. down(j) # hole /\ up(down(j)) = j
      BY <1>2, <1>3, <3>1
    <3> QED  BY <1>1, <2>1, <3>1, <3>2
  <2>2. CASE ~(D(j) <= D(hole))
    <3>1. src[j] = j /\ j # hole /\ ~(D(j) < D(hole))
      BY <1>3, <2>2
    <3> QED  BY <1>1, <2>2, <3>1
  <2> QED  BY <2>1, <2>2
<1>5. ASSUME NEW p \in Slots(B) \ {hole}
      PROVE  dst[p] \in Slots(B) \ {index} /\ src[dst[p]] = p
  <2>1. CASE D(p) < D(hole)
    <3>1. D(p) < B - 1 /\ D(p) + 1 <= D(hole)
      BY <1>3, <2>1
    <3>2. dst[p] = up(p) /\ up(p) \in Slots(B) \ {index} /\ D(up(p)) <= D(hole) /\ down(up(p)) = p
      BY <1>3, <2>1, <3>1
    <3> QED  BY <3>2
  <2>2. CASE ~(D(p) < D(hole))
    <3>1. p # index /\ dst[p] = p /\ ~(D(p) <= D(hole))
      BY <1>3, <2>2
    <3> QED  BY <3>1
  <2> QED  BY <2>1, <2>2
<1> HIDE DEF src, dst
<1>6. /\ src \in [Slots(B) \ {index} -> Slots(B) \ {hole}]
      /\ dst \in [Slots(B) \ {hole} -> Slots(B) \ {index}]
  BY <1>4, <1>5 DEF src, dst
<1> QED  BY <1>4, <1>5, <1>6 DEF Shuffles
=============================================================================
