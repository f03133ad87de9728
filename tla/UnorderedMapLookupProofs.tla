---------------------- MODULE UnorderedMapLookupProofs ----------------------
(***************************************************************************)
(* find reaches every element of the map, for every set of keys, every     *)
(* hash function and every order of the calls, as long as the last slot    *)
(* stays free: then no chain passes the end of the array and no call of    *)
(* emplace grows the table.  (Without that it does not, as TLC shows.)     *)
(*                                                                         *)
(* Lookup is not inductive: that find reaches the element emplace puts in  *)
(* depends on where it puts it, and that on the order of all homes.        *)
(*                                                                         *)
(* On this, the second half proves that the map is then a dictionary: each *)
(* call is a call of Dictionary, with the same answer.                     *)
(***************************************************************************)
EXTENDS UnorderedMapFileProofs

LastSlotFree == M_buckets > 0 => M_file[M_buckets - 1] = Free

(* The order of the slots: an element is at its home or above, over taken  *)
(* slots only, no home is smaller than that of a lower slot, and no key is *)
(* there twice.                                                            *)
Reachable(ks, B) ==
  \A i \in Slots(B) : ks[i] # Free =>
     /\ Home(ks[i], B) <= i
     /\ \A j \in Slots(B) : Home(ks[i], B) <= j /\ j <= i => ks[j] # Free

Sorted(ks, B) ==
  \A i, j \in Slots(B) : ks[i] # Free /\ ks[j] # Free /\ i <= j =>
     Home(ks[i], B) <= Home(ks[j], B)

Unique(ks, B) ==
  \A i, j \in Slots(B) : ks[i] # Free /\ ks[i] = ks[j] => i = j

Ordered(ks, B) == Reachable(ks, B) /\ Sorted(ks, B) /\ Unique(ks, B)

-----------------------------------------------------------------------------
(* find in an ordered table whose last slot is free. *)

(* A loop that starts at slot i and has a slot to stop at above it does    *)
(* not wrap.                                                               *)
LEMMA StepsUp ==
  ASSUME NEW B \in Nat, NEW i \in Slots(B), NEW Stop, NEW j \in Stop \cap Slots(B), i <= j,
         NEW s, s = FirstIn(i, Stop, B)
  PROVE  /\ Steps(i, Stop, B) # B
         /\ s \in Slots(B) /\ s \in Stop /\ i <= s /\ s <= j
         /\ \A m \in Slots(B) : i <= m /\ m < s => m \notin Stop
         /\ Advance(i, Steps(i, Stop, B), B) = s
<1> DEFINE n == Steps(i, Stop, B)
<1>1. n <= j - i /\ n < B /\ FirstIn(i, Stop, B) \in Stop
  BY StepsFind DEF Distance
<1>2. n \in 0 .. B /\ \A d \in 0 .. B : d < n => Advance(i, d, B) \notin Stop
  BY StepsStop
<1>3. s = Advance(i, n, B)
  BY DEF FirstIn
<1> HIDE DEF n
<1>4. s = i + n /\ i \in Nat /\ j \in Nat /\ j < B
  BY <1>1, <1>2, <1>3 DEF Advance, Slots
<1>5. ASSUME NEW m \in Slots(B), i <= m, m < s PROVE m \notin Stop
  <2>1. m - i \in 0 .. B /\ m - i < n /\ Advance(i, m - i, B) = m
    BY <1>2, <1>4, <1>5 DEF Advance, Slots
  <2> QED  BY <2>1, <1>2
<1>6. s \in Slots(B) /\ i <= s /\ s <= j
  BY <1>1, <1>2, <1>4 DEF Slots
<1> QED  BY <1>1, <1>3, <1>5, <1>6 DEF n

(* What the loops of find go over, and where they come out, when the first *)
(* one has nothing to skip.                                                *)
Lower(ks, h, B) == {i \in Taken(ks, B) : Home(ks[i], B) < h}
Same(ks, h, B)  == {i \in Taken(ks, B) : Home(ks[i], B) = h}

AfterLower(ks, h, B)  == FirstIn(h, Slots(B) \ Lower(ks, h, B), B)
NotPassed(ks, k, h, B) == {i \in Slots(B) : i \in Same(ks, h, B) => ks[i] = k}
AfterSame(ks, k, h, B) == FirstIn(AfterLower(ks, h, B), NotPassed(ks, k, h, B), B)

LEMMA NothingWrapped ==
  ASSUME NEW B \in Nat \ {0}, NEW k \in Key, NEW ks \in KeyTables(B), Reachable(ks, B),
         NEW home, home = Home(k, B)
  PROVE  FirstIn(home, Slots(B) \ Overflowed(ks, B), B) = home
<1>1. home \in Slots(B)
  BY HomeType
<1>2. Overflowed(ks, B) = {}
  <2>1. \A i \in Taken(ks, B) : i \in Slots(B) /\ Home(ks[i], B) <= i /\ Home(ks[i], B) \in Slots(B)
    BY HomeType DEF Taken, Reachable, KeyTables
  <2> QED  BY <2>1 DEF Overflowed, Slots
<1>3. home \in (Slots(B) \ Overflowed(ks, B)) \cap Slots(B) /\ home <= home
  BY <1>1, <1>2 DEF Slots
<1>4. PICK s : s = FirstIn(home, Slots(B) \ Overflowed(ks, B), B)
  OBVIOUS
<1>5. s \in Slots(B) /\ home <= s /\ s <= home
  BY <1>1, <1>3, <1>4, StepsUp
<1> QED  BY <1>1, <1>4, <1>5 DEF Slots

LEMMA FindCases ==
  ASSUME NEW B, NEW k, NEW ks, NEW home, home = Home(k, B),
         FirstIn(home, Slots(B) \ Overflowed(ks, B), B) = home,
         NEW r, r = open_address_find(ks, k, B)
  PROVE  /\ ks[home] = Free => r = [index |-> home, found |-> FALSE]
         /\ ks[home] # Free /\ AfterLower(ks, home, B) \notin Same(ks, home, B) =>
              r = [index |-> AfterLower(ks, home, B), found |-> FALSE]
         /\ ks[home] # Free /\ AfterLower(ks, home, B) \in Same(ks, home, B)
            /\ Steps(home, Slots(B) \ Lower(ks, home, B), B) # B =>
              r = [index |-> AfterSame(ks, k, home, B),
                   found |-> ks[AfterSame(ks, k, home, B)] = k]
<1>1. r = CASE ks[home] = Free
                 -> [index |-> home, found |-> FALSE]
            [] ks[home] # Free /\ \/ Steps(home, Slots(B) \ Lower(ks, home, B), B) = B
                                  \/ AfterLower(ks, home, B) \notin Same(ks, home, B)
                 -> [index |-> AfterLower(ks, home, B), found |-> FALSE]
            [] OTHER
                 -> [index |-> AfterSame(ks, k, home, B),
                     found |-> ks[AfterSame(ks, k, home, B)] = k]
  BY Zenon DEF open_address_find, FirstIn, Lower, Same, AfterLower, NotPassed, AfterSame
<1> QED  BY <1>1, Zenon

LEMMA FindFreeHome ==
  ASSUME NEW B \in Nat \ {0}, NEW k \in Key, NEW ks \in KeyTables(B), Reachable(ks, B),
         NEW home, home = Home(k, B), ks[home] = Free,
         NEW r, r = open_address_find(ks, k, B)
  PROVE  r = [index |-> home, found |-> FALSE]
<1>1. FirstIn(home, Slots(B) \ Overflowed(ks, B), B) = home
  BY NothingWrapped
<1> QED  BY <1>1, FindCases, Zenon

LEMMA FindPassesLower ==
  ASSUME NEW B \in Nat \ {0}, NEW k \in Key, NEW ks \in KeyTables(B), Reachable(ks, B),
         NEW home, home = Home(k, B), ks[home] # Free,
         NEW start, start = AfterLower(ks, home, B), start \notin Same(ks, home, B),
         NEW r, r = open_address_find(ks, k, B)
  PROVE  r = [index |-> start, found |-> FALSE]
<1>1. FirstIn(home, Slots(B) \ Overflowed(ks, B), B) = home
  BY NothingWrapped
<1> QED  BY <1>1, FindCases, Zenon

LEMMA FindPassesSame ==
  ASSUME NEW B \in Nat \ {0}, NEW k \in Key, NEW ks \in KeyTables(B), Reachable(ks, B),
         NEW home, home = Home(k, B), ks[home] # Free,
         NEW start, start = AfterLower(ks, home, B), start \in Same(ks, home, B),
         Steps(home, Slots(B) \ Lower(ks, home, B), B) # B,
         NEW last, last = AfterSame(ks, k, home, B),
         NEW r, r = open_address_find(ks, k, B)
  PROVE  \E f \in BOOLEAN : (f <=> ks[last] = k) /\ r = [index |-> last, found |-> f]
<1>1. FirstIn(home, Slots(B) \ Overflowed(ks, B), B) = home
  BY NothingWrapped
<1>2. r = [index |-> last, found |-> ks[last] = k]
  BY <1>1, FindCases
<1>3. PICK f \in BOOLEAN : f <=> ks[last] = k
  BY Zenon
<1>4. f = (ks[last] = k)
  BY <1>3, Zenon
<1>5. r = [index |-> last, found |-> f]
  BY <1>2, <1>4, Zenon
<1> QED  BY <1>3, <1>5, Zenon

(* find leads to the slot of a key that is there. *)
LEMMA FindHit ==
  ASSUME NEW B \in Nat \ {0}, NEW ks \in KeyTables(B), Ordered(ks, B),
         NEW i \in Slots(B), ks[i] # Free
  PROVE  open_address_find(ks, ks[i], B) = [index |-> i, found |-> TRUE]
<1>1. PICK k \in Key : k = ks[i]
  BY DEF KeyTables
<1>2. PICK home \in Slots(B) : home = Home(k, B)
  BY HomeType
<1> DEFINE lower     == Lower(ks, home, B)
           startSame == AfterLower(ks, home, B)
           same      == Same(ks, home, B)
           stop      == NotPassed(ks, k, home, B)
           last      == AfterSame(ks, k, home, B)
<1>3. /\ home <= i
      /\ \A j \in Slots(B) : home <= j /\ j <= i => ks[j] # Free
      /\ \A j \in Slots(B) : ks[j] # Free /\ j <= i => Home(ks[j], B) <= home
      /\ \A j \in Slots(B) : ks[j] # Free => Home(ks[j], B) \in Nat /\ Home(ks[j], B) < B
  <2>1. \A j \in Slots(B) : ks[j] # Free => Home(ks[j], B) \in Slots(B)
    BY HomeType DEF KeyTables
  <2> QED  BY <1>1, <1>2, <2>1 DEF Ordered, Reachable, Sorted, Slots
<1>4. ks[home] # Free
  BY <1>2, <1>3 DEF Slots
<1>5. i \in Slots(B) \ lower
  BY <1>1, <1>2 DEF Slots, Lower
<1>6. /\ Steps(home, Slots(B) \ lower, B) # B
      /\ startSame \in Slots(B) \ lower /\ home <= startSame /\ startSame <= i
  BY <1>2, <1>3, <1>5, StepsUp DEF AfterLower
<1> HIDE DEF startSame
<1>7. startSame \in same
  <2>1. ks[startSame] # Free
    BY <1>3, <1>6
  <2> QED  BY <1>2, <1>3, <1>6, <2>1 DEF Taken, Slots, Lower, Same
<1>8. i \in stop
  BY <1>1 DEF NotPassed
<1>9. last \in Slots(B) /\ last \in stop /\ startSame <= last /\ last <= i
  BY <1>6, <1>8, StepsUp DEF startSame, AfterSame
<1> HIDE DEF last
<1>10. last = i
  <2>1. ks[last] # Free
    BY <1>2, <1>3, <1>6, <1>9 DEF Slots
  <2>2. Home(ks[last], B) <= home /\ home <= Home(ks[last], B)
    BY <1>3, <1>6, <1>7, <1>9, <2>1 DEF Ordered, Sorted, Taken, Same
  <2>3. Home(ks[last], B) = home
    BY <1>2, <1>3, <1>9, <2>1, <2>2 DEF Slots
  <2>4. ks[last] = k
    BY <1>9, <2>1, <2>3 DEF Taken, Same, NotPassed
  <2> QED  BY <1>1, <1>9, <2>1, <2>4 DEF Ordered, Unique
<1>11. Reachable(ks, B)
  BY DEF Ordered
<1>12. PICK r : r = open_address_find(ks, k, B)
  OBVIOUS
<1>13. \E f \in BOOLEAN : (f <=> ks[last] = k) /\ r = [index |-> last, found |-> f]
  BY <1>2, <1>4, <1>6, <1>7, <1>11, <1>12, FindPassesSame DEF startSame, last
<1> QED  BY <1>1, <1>10, <1>12, <1>13

(* A key that is not there is to go to slot p: above the elements of no     *)
(* larger home, below those of larger ones.                                *)
Belongs(ks, home, p, B) ==
  /\ p \in Slots(B) /\ home <= p
  /\ \A j \in Slots(B) : home <= j /\ j < p => ks[j] # Free /\ Home(ks[j], B) <= home
  /\ ks[p] = Free \/ home < Home(ks[p], B)

LEMMA FindMiss ==
  ASSUME NEW B \in Nat \ {0}, NEW ks \in KeyTables(B), Ordered(ks, B), ks[B - 1] = Free,
         NEW k \in Key, \A i \in Slots(B) : ks[i] # k,
         NEW r, r = open_address_find(ks, k, B)
  PROVE  ~r.found /\ Belongs(ks, Home(k, B), r.index, B)
<1>1. PICK home \in Slots(B) : home = Home(k, B)
  BY HomeType
<1> DEFINE lower == Lower(ks, home, B)
           start == AfterLower(ks, home, B)
           same  == Same(ks, home, B)
           stop  == NotPassed(ks, k, home, B)
           last  == AfterSame(ks, k, home, B)
<1>2. /\ \A j \in Slots(B) : ks[j] # Free => Home(ks[j], B) \in Nat
      /\ home \in Nat /\ \A j \in Slots(B) : j \in Nat
      /\ B - 1 \in Slots(B) /\ home <= B - 1
  <2>1. \A j \in Slots(B) : ks[j] # Free => Home(ks[j], B) \in Slots(B)
    BY HomeType DEF KeyTables
  <2> QED  BY <1>1, <2>1 DEF Slots
<1>3. Reachable(ks, B)
  BY DEF Ordered
<1>4. CASE ks[home] = Free
  <2>1. r = [index |-> home, found |-> FALSE]
    BY <1>1, <1>3, <1>4, FindFreeHome
  <2>2. r.index = home /\ ~r.found
    BY <2>1
  <2> QED  BY <1>1, <1>2, <1>4, <2>2 DEF Belongs
<1>5. CASE ks[home] # Free
  <2>1. /\ Steps(home, Slots(B) \ lower, B) # B
        /\ start \in Slots(B) \ lower /\ home <= start
        /\ \A m \in Slots(B) : home <= m /\ m < start => m \in lower
    <3>1. B - 1 \in Slots(B) \ lower
      BY <1>2 DEF Lower, Taken
    <3> QED  BY <1>1, <1>2, <3>1, StepsUp DEF AfterLower
  <2>2. \A m \in lower : ks[m] # Free /\ Home(ks[m], B) <= home
    BY <1>2 DEF Lower, Taken
  <2> HIDE DEF start
  <2>3. CASE start \notin same
    <3>1. r = [index |-> start, found |-> FALSE]
      BY <1>1, <1>3, <1>5, <2>3, FindPassesLower DEF start
    <3>3. r.index = start /\ ~r.found
      BY <3>1
    <3>2. ks[start] = Free \/ home < Home(ks[start], B)
      BY <1>2, <2>1, <2>3 DEF Lower, Same, Taken
    <3> QED  BY <1>1, <2>1, <2>2, <3>2, <3>3 DEF Belongs
  <2>4. CASE start \in same
    <3>1. /\ last \in Slots(B) /\ last \in stop /\ start <= last
          /\ \A m \in Slots(B) : start <= m /\ m < last => m \notin stop
      <4>1. B - 1 \in stop /\ start <= B - 1
        BY <1>2, <2>1 DEF NotPassed, Same, Taken, Slots
      <4>2. last = FirstIn(start, stop, B)
        BY DEF start, AfterSame
      <4> HIDE DEF last, stop
      <4> QED  BY <1>2, <2>1, <4>1, <4>2, StepsUp
    <3>2. \A m \in Slots(B) : m \notin stop => ks[m] # Free /\ Home(ks[m], B) <= home
      BY <1>2 DEF NotPassed, Same, Taken
    <3> HIDE DEF last
    <3>3. \E f \in BOOLEAN : (f <=> ks[last] = k) /\ r = [index |-> last, found |-> f]
      BY <1>1, <1>3, <1>5, <2>1, <2>4, FindPassesSame DEF start, last
    <3>4. ~r.found /\ r.index = last
      BY <3>1, <3>3
    <3>5. ks[last] = Free \/ home < Home(ks[last], B)
      <4>1. last \notin same
        BY <3>1 DEF NotPassed
      <4>2. ks[last] # Free => home <= Home(ks[last], B)
        BY <2>1, <2>4, <3>1 DEF Ordered, Sorted, Same, Taken
      <4> QED  BY <1>2, <3>1, <4>1, <4>2 DEF Same, Taken
    <3>6. ASSUME NEW m \in Slots(B), home <= m, m < last
          PROVE  ks[m] # Free /\ Home(ks[m], B) <= home
      <4>1. m < start \/ start <= m
        BY <1>2, <2>1
      <4> QED  BY <2>1, <2>2, <3>1, <3>2, <3>6, <4>1
    <3>7. home <= last
      BY <1>2, <2>1, <3>1
    <3> QED  BY <1>1, <3>1, <3>4, <3>5, <3>6, <3>7 DEF Belongs
  <2> QED  BY <1>5, <2>3, <2>4
<1> QED  BY <1>4, <1>5

-----------------------------------------------------------------------------
(* The shifts keep the order. *)

(* u is ks with k put into slot p, and what was there and above moved up   *)
(* to the free slot q.                                                     *)
LEMMA PutKeepsOrder ==
  ASSUME NEW B \in Nat \ {0}, NEW ks \in KeyTables(B), Ordered(ks, B),
         NEW k \in Key, \A i \in Slots(B) : ks[i] # k,
         NEW p, Belongs(ks, Home(k, B), p, B),
         NEW q \in Slots(B), p <= q, ks[q] = Free,
         \A j \in Slots(B) : p <= j /\ j < q => ks[j] # Free,
         NEW u, \A i \in Slots(B) : u[i] = IF i = p THEN k
                                           ELSE IF p < i /\ i <= q THEN ks[i - 1] ELSE ks[i]
  PROVE  Ordered(u, B)
<1> DEFINE from(i) == IF p < i /\ i <= q THEN i - 1 ELSE i
<1>1. /\ \A j \in Slots(B) : ks[j] # Free => Home(ks[j], B) \in Nat
      /\ Home(k, B) \in Nat /\ \A j \in Slots(B) : j \in Nat
      /\ p \in Slots(B)
  <2>1. \A j \in Slots(B) : ks[j] # Free => Home(ks[j], B) \in Slots(B)
    BY HomeType DEF KeyTables
  <2>2. Home(k, B) \in Slots(B)
    BY HomeType
  <2> QED  BY <2>1, <2>2 DEF Belongs, Slots
<1>2. u[p] = k /\ k # Free
  BY <1>1, FreeAssumption
<1>3. ASSUME NEW i \in Slots(B), i # p
      PROVE  /\ from(i) \in Slots(B) /\ u[i] = ks[from(i)]
             /\ from(i) <= i /\ (i < p => from(i) = i) /\ (p < i => p <= from(i))
             /\ q < i => from(i) = i
  BY <1>1, <1>3 DEF Slots
<1>4. \A i, j \in Slots(B) : i # p /\ j # p /\ i < j => from(i) < from(j)
  BY <1>1
<1> HIDE DEF from
<1>5. ASSUME NEW j \in Slots(B), ks[j] # Free PROVE u[j] # Free
  <2>1. CASE p < j /\ j <= q
    <3>1. j - 1 \in Slots(B) /\ p <= j - 1 /\ j - 1 < q
      BY <1>1, <2>1 DEF Slots
    <3> QED  BY <1>1, <2>1, <3>1
  <2>2. CASE ~(p < j /\ j <= q)
    BY <1>2, <1>5, <2>2
  <2> QED  BY <2>1, <2>2
<1>6. Reachable(u, B)
  <2> SUFFICES ASSUME NEW i \in Slots(B), u[i] # Free
               PROVE  /\ Home(u[i], B) <= i
                      /\ \A j \in Slots(B) : Home(u[i], B) <= j /\ j <= i => u[j] # Free
    BY DEF Reachable
  <2>1. CASE i = p
    <3>1. Home(k, B) <= p /\ \A j \in Slots(B) : Home(k, B) <= j /\ j < p => u[j] # Free
      BY <1>5 DEF Belongs
    <3> QED  BY <1>1, <1>2, <2>1, <3>1
  <2>2. CASE i # p
    <3>1. from(i) \in Slots(B) /\ u[i] = ks[from(i)] /\ ks[from(i)] # Free /\ from(i) <= i
      BY <1>3, <2>2
    <3>2. /\ Home(u[i], B) <= from(i)
          /\ \A j \in Slots(B) : Home(u[i], B) <= j /\ j <= from(i) => ks[j] # Free
      BY <3>1 DEF Ordered, Reachable
    <3>3. from(i) = i \/ from(i) = i - 1
      BY DEF from
    <3>4. ASSUME NEW j \in Slots(B), Home(u[i], B) <= j, j <= i PROVE u[j] # Free
      <4>1. j <= from(i) \/ j = i
        BY <1>1, <3>3, <3>4
      <4> QED  BY <1>5, <3>2, <3>4, <4>1
    <3>5. Home(u[i], B) \in Nat
      BY <1>1, <3>1
    <3> QED  BY <1>1, <3>1, <3>2, <3>4, <3>5
  <2> QED  BY <2>1, <2>2
<1>7. Sorted(u, B)
  <2> SUFFICES ASSUME NEW i \in Slots(B), NEW j \in Slots(B), u[i] # Free, u[j] # Free, i <= j
               PROVE  Home(u[i], B) <= Home(u[j], B)
    BY DEF Sorted
  <2>1. CASE i = j
    <3>1. Home(u[i], B) \in Nat
      BY <1>1, <1>2, <1>3
    <3> QED  BY <2>1, <3>1
  <2>2. CASE i # p /\ j # p /\ i < j
    <3>1. from(i) \in Slots(B) /\ from(j) \in Slots(B) /\ from(i) <= from(j)
      BY <1>1, <1>3, <1>4, <2>2
    <3> QED  BY <1>3, <2>2, <3>1 DEF Ordered, Sorted
  <2>3. CASE j = p /\ i < p
    <3>1. u[i] = ks[i] /\ ks[i] # Free
      BY <1>1, <1>3, <2>3
    <3>2. CASE Home(k, B) <= i
      BY <1>2, <2>3, <3>1, <3>2 DEF Belongs
    <3>3. CASE i < Home(k, B)
      <4>1. Home(ks[i], B) <= i
        BY <3>1 DEF Ordered, Reachable
      <4> QED  BY <1>1, <1>2, <2>3, <3>1, <3>3, <4>1
    <3> QED  BY <1>1, <3>2, <3>3
  <2>4. CASE i = p /\ p < j
    <3>1. /\ from(j) \in Slots(B) /\ u[j] = ks[from(j)] /\ ks[from(j)] # Free /\ p <= from(j)
          /\ q < j => from(j) = j
      BY <1>1, <1>3, <2>4
    <3>2. CASE ks[p] # Free
      <4>1. Home(k, B) < Home(ks[p], B)
        BY <3>2 DEF Belongs
      <4>2. Home(ks[p], B) <= Home(ks[from(j)], B)
        BY <1>1, <3>1, <3>2 DEF Ordered, Sorted
      <4> QED  BY <1>1, <1>2, <2>4, <3>1, <3>2, <4>1, <4>2
    <3>3. CASE ks[p] = Free
      <4>1. p = q
        BY <1>1, <3>3
      <4>2. from(j) = j
        BY <2>4, <3>1, <4>1
      <4>3. ~(Home(ks[j], B) <= p)
        BY <1>1, <2>4, <3>1, <3>3, <4>2 DEF Ordered, Reachable
      <4>4. Home(k, B) <= p
        BY DEF Belongs
      <4> QED  BY <1>1, <1>2, <2>4, <3>1, <4>2, <4>3, <4>4
    <3> QED  BY <3>2, <3>3
  <2> QED  BY <1>1, <2>1, <2>2, <2>3, <2>4
<1>8. Unique(u, B)
  <2> SUFFICES ASSUME NEW i \in Slots(B), NEW j \in Slots(B), u[i] # Free, u[i] = u[j]
               PROVE  i = j
    BY DEF Unique
  <2>1. CASE i = p \/ j = p
    BY <1>2, <1>3, <2>1
  <2>2. CASE i # p /\ j # p
    <3>1. from(i) = from(j)
      BY <1>3, <2>2 DEF Ordered, Unique
    <3>2. ~(i < j) /\ ~(j < i)
      <4>1. from(i) \in Nat
        BY <1>1, <1>3, <2>2
      <4> QED  BY <1>4, <2>2, <3>1, <4>1
    <3> QED  BY <1>1, <3>2
  <2> QED  BY <2>1, <2>2
<1> QED  BY <1>6, <1>7, <1>8 DEF Ordered

(* u is ks without the key of slot p: what is above it, up to the slot      *)
(* before the first one that is free or taken by an element at its home,   *)
(* has moved down.                                                         *)
LEMMA EraseKeepsOrder ==
  ASSUME NEW B \in Nat \ {0}, NEW ks \in KeyTables(B), Ordered(ks, B),
         NEW p \in Slots(B), NEW q \in Slots(B), p <= q, q + 1 \in Slots(B),
         \A j \in Slots(B) : p < j /\ j <= q => ks[j] # Free /\ Home(ks[j], B) # j,
         ks[q + 1] = Free \/ Home(ks[q + 1], B) = q + 1,
         NEW u, \A i \in Slots(B) : u[i] = IF i = q THEN Free
                                           ELSE IF p <= i /\ i < q THEN ks[i + 1] ELSE ks[i]
  PROVE  Ordered(u, B)
<1> DEFINE from(i) == IF p <= i /\ i < q THEN i + 1 ELSE i
<1>1. /\ \A j \in Slots(B) : ks[j] # Free => Home(ks[j], B) \in Nat
      /\ \A j \in Slots(B) : j \in Nat
  <2>1. \A j \in Slots(B) : ks[j] # Free => Home(ks[j], B) \in Slots(B)
    BY HomeType DEF KeyTables
  <2> QED  BY <2>1 DEF Slots
<1>2. ASSUME NEW i \in Slots(B), u[i] # Free
      PROVE  /\ i # q /\ from(i) \in Slots(B) /\ u[i] = ks[from(i)] /\ ks[from(i)] # Free
             /\ from(i) = i \/ (from(i) = i + 1 /\ p <= i /\ i < q)
  BY <1>1, <1>2 DEF Slots
<1>3. \A i, j \in Slots(B) : i # q /\ j # q /\ i < j => from(i) < from(j)
  BY <1>1
<1>4. \A j \in Slots(B) : j # q /\ ks[j] # Free => u[j] # Free
  <2> SUFFICES ASSUME NEW j \in Slots(B), j # q, ks[j] # Free PROVE u[j] # Free
    OBVIOUS
  <2>1. CASE p <= j /\ j < q
    <3>1. j + 1 \in Slots(B) /\ p < j + 1 /\ j + 1 <= q
      BY <1>1, <2>1 DEF Slots
    <3> QED  BY <2>1, <3>1
  <2>2. CASE ~(p <= j /\ j < q)
    BY <2>2
  <2> QED  BY <2>1, <2>2
<1> HIDE DEF from
<1>5. Reachable(u, B)
  <2> SUFFICES ASSUME NEW i \in Slots(B), u[i] # Free
               PROVE  /\ Home(u[i], B) <= i
                      /\ \A j \in Slots(B) : Home(u[i], B) <= j /\ j <= i => u[j] # Free
    BY DEF Reachable
  <2>1. /\ from(i) \in Slots(B) /\ u[i] = ks[from(i)] /\ ks[from(i)] # Free /\ i # q
        /\ from(i) = i \/ (from(i) = i + 1 /\ p <= i /\ i < q)
    BY <1>2
  <2>2. /\ Home(u[i], B) \in Nat /\ Home(u[i], B) <= from(i)
        /\ \A j \in Slots(B) : Home(u[i], B) <= j /\ j <= from(i) => ks[j] # Free
    BY <1>1, <2>1 DEF Ordered, Reachable
  <2>3. Home(u[i], B) <= i
    <3>1. CASE from(i) = i
      BY <2>2, <3>1
    <3>2. CASE from(i) = i + 1 /\ p <= i /\ i < q
      <4>1. Home(u[i], B) # i + 1
        BY <1>1, <2>1, <3>2
      <4> QED  BY <1>1, <2>2, <3>2, <4>1
    <3> QED  BY <2>1, <3>1, <3>2
  <2>4. ASSUME NEW j \in Slots(B), Home(u[i], B) <= j, j <= i PROVE u[j] # Free
    <3>1. ks[j] # Free
      BY <1>1, <2>1, <2>2, <2>4
    <3>2. ASSUME j = q PROVE FALSE
      <4>1. q + 1 <= i /\ from(i) = i
        BY <1>1, <2>1, <2>4, <3>2
      <4>2. ks[q + 1] # Free
        BY <1>1, <2>2, <2>4, <3>2, <4>1
      <4>3. Home(ks[q + 1], B) = q + 1 /\ Home(ks[q + 1], B) <= Home(u[i], B)
        BY <2>1, <4>1, <4>2 DEF Ordered, Sorted
      <4> QED  BY <1>1, <2>2, <2>4, <3>2, <4>3
    <3> QED  BY <1>4, <3>1, <3>2
  <2> QED  BY <2>3, <2>4
<1>6. Sorted(u, B)
  <2> SUFFICES ASSUME NEW i \in Slots(B), NEW j \in Slots(B), u[i] # Free, u[j] # Free, i <= j
               PROVE  Home(u[i], B) <= Home(u[j], B)
    BY DEF Sorted
  <2>1. /\ from(i) \in Slots(B) /\ u[i] = ks[from(i)] /\ ks[from(i)] # Free /\ i # q
        /\ from(j) \in Slots(B) /\ u[j] = ks[from(j)] /\ ks[from(j)] # Free /\ j # q
    BY <1>2
  <2>2. from(i) <= from(j)
    BY <1>1, <1>3, <2>1
  <2> QED  BY <2>1, <2>2 DEF Ordered, Sorted
<1>7. Unique(u, B)
  <2> SUFFICES ASSUME NEW i \in Slots(B), NEW j \in Slots(B), u[i] # Free, u[i] = u[j]
               PROVE  i = j
    BY DEF Unique
  <2>1. /\ from(i) \in Slots(B) /\ u[i] = ks[from(i)] /\ ks[from(i)] # Free /\ i # q
        /\ from(j) \in Slots(B) /\ u[j] = ks[from(j)] /\ ks[from(j)] # Free /\ j # q
    BY <1>2
  <2>2. from(i) = from(j)
    BY <2>1 DEF Ordered, Unique
  <2> QED  BY <1>1, <1>3, <2>1, <2>2
<1> QED  BY <1>5, <1>6, <1>7 DEF Ordered

-----------------------------------------------------------------------------
(* emplace and erase in an ordered table whose last slot is free. *)

(* An insertion comes from a miss, and its hole lies above its slot.       *)
LEMMA EmplacePlace ==
  ASSUME NEW B \in Nat \ {0}, NEW ks \in KeyTables(B), Ordered(ks, B), ks[B - 1] = Free,
         NEW k \in Key,
         NEW res, res = open_address_emplace_index(ks, k, B), res.inserted
  PROVE  /\ \A i \in Slots(B) : ks[i] # k
         /\ Belongs(ks, Home(k, B), res.index, B)
         /\ res.hole \in Slots(B) /\ res.index <= res.hole /\ ks[res.hole] = Free
         /\ \A j \in Slots(B) : res.index <= j /\ j < res.hole => ks[j] # Free
<1>1. PICK r : r = open_address_find(ks, k, B)
  OBVIOUS
<1>2. r.found \in BOOLEAN /\ r.index \in Slots(B)
  BY <1>1, FindResult
<1>3. /\ res.index = r.index
      /\ res.inserted = ~r.found
      /\ ~r.found => res.hole = FirstIn(r.index, FreeSlots(ks, B), B)
  BY <1>1 DEF open_address_emplace_index
<1>4. ~r.found
  BY <1>2, <1>3
<1>5. \A i \in Slots(B) : ks[i] # k
  <2> SUFFICES ASSUME NEW i \in Slots(B), ks[i] = k PROVE FALSE
    OBVIOUS
  <2>1. r = [index |-> i, found |-> TRUE]
    BY <1>1, FindHit, FreeAssumption
  <2> QED  BY <1>4, <2>1
<1>6. Belongs(ks, Home(k, B), r.index, B)
  BY <1>1, <1>5, FindMiss
<1>7. B - 1 \in FreeSlots(ks, B) \cap Slots(B) /\ r.index <= B - 1
  BY <1>2 DEF FreeSlots, Slots
<1>8. PICK q : q = FirstIn(r.index, FreeSlots(ks, B), B)
  OBVIOUS
<1>9. /\ q \in Slots(B) /\ q \in FreeSlots(ks, B) /\ r.index <= q
      /\ \A m \in Slots(B) : r.index <= m /\ m < q => m \notin FreeSlots(ks, B)
  BY <1>2, <1>7, <1>8, StepsUp
<1> QED  BY <1>3, <1>4, <1>5, <1>6, <1>8, <1>9 DEF FreeSlots

LEMMA PutOrdered ==
  ASSUME NEW B \in Nat \ {0}, NEW t \in Tables(B), t[B - 1] = Free, Ordered(KeysOf(t, B), B),
         NEW k \in Key, NEW e \in Element, e.key = k,
         NEW res, res = open_address_emplace_index(KeysOf(t, B), k, B), res.inserted,
         NEW u, u = [ShiftUp(t, res.index, res.hole, B) EXCEPT ![res.index] = e]
  PROVE  Ordered(KeysOf(u, B), B)
<1>1. PICK ks, p, q : ks = KeysOf(t, B) /\ p = res.index /\ q = res.hole
  OBVIOUS
<1>2. ks \in KeyTables(B) /\ \A i \in Slots(B) : ks[i] = IF t[i] = Free THEN Free ELSE t[i].key
  BY <1>1, KeysOfType DEF KeysOf
<1>3. B - 1 \in Slots(B) /\ ks[B - 1] = Free
  BY <1>2 DEF Slots
<1>4. /\ \A i \in Slots(B) : ks[i] # k
      /\ Belongs(ks, Home(k, B), p, B)
      /\ q \in Slots(B) /\ p <= q /\ ks[q] = Free
      /\ \A j \in Slots(B) : p <= j /\ j < q => ks[j] # Free
  BY <1>1, <1>2, <1>3, EmplacePlace
<1>5. p \in Slots(B)
  BY <1>4 DEF Belongs
<1>6. ASSUME NEW i \in Slots(B)
      PROVE  u[i] = IF i = p THEN e ELSE IF p < i /\ i <= q THEN t[i - 1] ELSE t[i]
  <2>1. Distance(p, i, B) <= Distance(p, q, B) <=> p <= i /\ i <= q
    BY <1>4, <1>5 DEF Distance, Slots
  <2>2. p < i => Advance(i, B - 1, B) = i - 1
    BY <1>5 DEF Advance, Slots
  <2>3. i # p => (p < i /\ i <= q <=> p <= i /\ i <= q)
    BY <1>5 DEF Slots
  <2> QED  BY <1>1, <2>1, <2>2, <2>3 DEF ShiftUp
<1>7. e # Free
  BY FreeSlotAssumption
<1>8. ASSUME NEW i \in Slots(B)
      PROVE  KeysOf(u, B)[i] = IF i = p THEN k ELSE IF p < i /\ i <= q THEN ks[i - 1] ELSE ks[i]
  <2>1. KeysOf(u, B)[i] = IF u[i] = Free THEN Free ELSE u[i].key
    BY DEF KeysOf
  <2>2. p < i => i - 1 \in Slots(B)
    BY <1>5 DEF Slots
  <2> QED  BY <1>2, <1>6, <1>7, <2>1, <2>2
<1> QED  BY <1>1, <1>2, <1>4, <1>8, PutKeepsOrder

(* The slot erase leaves behind is the one before the first one above that *)
(* is free or taken by an element at its home.                             *)
LEMMA ErasePlace ==
  ASSUME NEW B \in Nat \ {0}, NEW ks \in KeyTables(B), ks[B - 1] = Free,
         NEW k \in Key,
         NEW res, res = open_address_erase_index(ks, k, B), res.last # B
  PROVE  /\ res.start \in Slots(B) /\ res.last \in Slots(B) /\ res.start <= res.last
         /\ res.last + 1 \in Slots(B)
         /\ \A j \in Slots(B) : res.start < j /\ j <= res.last => ks[j] # Free /\ Home(ks[j], B) # j
         /\ ks[res.last + 1] = Free \/ Home(ks[res.last + 1], B) = res.last + 1
<1>1. PICK r : r = open_address_find(ks, k, B)
  OBVIOUS
<1>2. r.found /\ r.index \in Slots(B) /\ ks[r.index] = k
  BY <1>1, FindResult, EraseResult
<1> DEFINE s    == r.index
           stop == FreeSlots(ks, B) \cup AtHome(ks, B) \cup {s}
<1>3. B - 1 \in Slots(B) /\ s + 1 \in Slots(B) /\ s + 1 <= B - 1 /\ Advance(s, 1, B) = s + 1
  <2>1. s # B - 1
    BY <1>2, FreeAssumption
  <2> QED  BY <1>2, <2>1 DEF Slots, Advance
<1>4. PICK n, e : n = Steps(s + 1, stop, B) /\ e = FirstIn(s + 1, stop, B)
  OBVIOUS
<1>5. res.start = s /\ res.last = Advance(s, n, B)
  BY <1>1, <1>2, <1>3, <1>4 DEF open_address_erase_index
<1>6. B - 1 \in stop \cap Slots(B)
  BY <1>3 DEF FreeSlots
<1>7. /\ n # B /\ e \in Slots(B) /\ e \in stop /\ s + 1 <= e
      /\ \A m \in Slots(B) : s + 1 <= m /\ m < e => m \notin stop
      /\ Advance(s + 1, n, B) = e
  <2> HIDE DEF stop
  <2> QED  BY <1>3, <1>4, <1>6, StepsUp
<1>8. n \in 0 .. B
  <2> HIDE DEF stop
  <2> QED  BY <1>3, <1>4, StepsStop
<1>9. res.last = e - 1 /\ e \in Nat /\ s \in Nat
  <2> HIDE DEF stop
  <2> QED  BY <1>2, <1>3, <1>5, <1>7, <1>8 DEF Advance, Slots
<1>10. res.last + 1 = e /\ res.last \in Slots(B) /\ s <= res.last
  <2> HIDE DEF stop
  <2> QED  BY <1>2, <1>7, <1>9 DEF Slots
<1>11. ASSUME NEW j \in Slots(B), s < j, j <= res.last PROVE ks[j] # Free /\ Home(ks[j], B) # j
  <2>1. j \notin stop
    <3> HIDE DEF stop
    <3> QED  BY <1>7, <1>9, <1>11 DEF Slots
  <2> QED  BY <2>1 DEF FreeSlots, AtHome, Taken
<1>12. ks[e] = Free \/ Home(ks[e], B) = e
  <2>1. e # s
    BY <1>7, <1>9
  <2> QED  BY <1>7, <2>1 DEF FreeSlots, AtHome
<1> QED  BY <1>2, <1>5, <1>7, <1>10, <1>11, <1>12

LEMMA EraseOrdered ==
  ASSUME NEW B \in Nat \ {0}, NEW t \in Tables(B), t[B - 1] = Free, Ordered(KeysOf(t, B), B),
         NEW k \in Key,
         NEW res, res = open_address_erase_index(KeysOf(t, B), k, B), res.last # B,
         NEW u, u = [ShiftDown(t, res.start, res.last, B) EXCEPT ![res.last] = Free]
  PROVE  Ordered(KeysOf(u, B), B)
<1>1. PICK ks, p, q : ks = KeysOf(t, B) /\ p = res.start /\ q = res.last
  OBVIOUS
<1>2. ks \in KeyTables(B) /\ \A i \in Slots(B) : ks[i] = IF t[i] = Free THEN Free ELSE t[i].key
  BY <1>1, KeysOfType DEF KeysOf
<1>3. B - 1 \in Slots(B) /\ ks[B - 1] = Free
  BY <1>2 DEF Slots
<1>4. /\ p \in Slots(B) /\ q \in Slots(B) /\ p <= q /\ q + 1 \in Slots(B)
      /\ \A j \in Slots(B) : p < j /\ j <= q => ks[j] # Free /\ Home(ks[j], B) # j
      /\ ks[q + 1] = Free \/ Home(ks[q + 1], B) = q + 1
  BY <1>1, <1>2, <1>3, ErasePlace
<1>5. ASSUME NEW i \in Slots(B)
      PROVE  u[i] = IF i = q THEN Free ELSE IF p <= i /\ i < q THEN t[i + 1] ELSE t[i]
  <2>1. Distance(p, i, B) < Distance(p, q, B) <=> p <= i /\ i < q
    BY <1>4 DEF Distance, Slots
  <2>2. i < q => Advance(i, 1, B) = i + 1
    BY <1>4 DEF Advance, Slots
  <2> QED  BY <1>1, <2>1, <2>2 DEF ShiftDown
<1>6. ASSUME NEW i \in Slots(B)
      PROVE  KeysOf(u, B)[i] = IF i = q THEN Free ELSE IF p <= i /\ i < q THEN ks[i + 1] ELSE ks[i]
  <2>1. KeysOf(u, B)[i] = IF u[i] = Free THEN Free ELSE u[i].key
    BY DEF KeysOf
  <2>2. i < q => i + 1 \in Slots(B)
    BY <1>4 DEF Slots
  <2> QED  BY <1>2, <1>5, <2>1, <2>2
<1> QED  BY <1>1, <1>2, <1>4, <1>6, EraseKeepsOrder

-----------------------------------------------------------------------------
(* Every call keeps the order while the last slot is free. *)

TableOrdered == Ordered(keys, M_buckets)

(* emplace does not grow a table with a free slot. *)
LEMMA NoGrowth ==
  ASSUME IInv, Exact, M_buckets > 0, LastSlotFree
  PROVE  EmplaceBuckets = M_buckets /\ Resized(M_file, M_buckets) = M_file
<1>1. M_buckets \in Nat \ {0} /\ M_file \in Tables(M_buckets) /\ M_file[M_buckets - 1] = Free
  BY DEF IInv, TableOK, LastSlotFree
<1>2. Resized(M_file, M_buckets) = M_file
  BY <1>1 DEF Resized, Tables
<1>3. IsFiniteSet(Slots(M_buckets)) /\ Cardinality(Slots(M_buckets)) = M_buckets
  BY <1>1, FS_Interval DEF Slots
<1>4. M_buckets - 1 \in Slots(M_buckets) /\ M_buckets - 1 \notin TakenIn(M_file, M_buckets)
  BY <1>1 DEF Slots, TakenIn
<1>5. TakenIn(M_file, M_buckets) \subseteq Slots(M_buckets) \ {M_buckets - 1}
  BY <1>4 DEF TakenIn
<1>6. /\ IsFiniteSet(Slots(M_buckets) \ {M_buckets - 1})
      /\ Cardinality(Slots(M_buckets) \ {M_buckets - 1}) = M_buckets - 1
  BY <1>3, <1>4, FS_RemoveElement
<1>7. Cardinality(TakenIn(M_file, M_buckets)) <= M_buckets - 1
  BY <1>5, <1>6, FS_Subset
<1>8. M_elem # M_buckets
  BY <1>1, <1>5, <1>6, <1>7, FS_Subset, FS_CardinalityType DEF Exact
<1> QED  BY <1>2, <1>8 DEF EmplaceBuckets

LEMMA EmplaceKeepsOrder ==
  ASSUME IInv, Exact, LastSlotFree, TableOrdered, NEW k \in Key, NEW v \in Value, emplace(k, v)
  PROVE  TableOrdered'
<1>1. CASE Traps \/ Loops
  BY <1>1 DEF Traps, Loops, table, TableOrdered, keys, KeysOf
<1>2. CASE M_buckets > 0 /\ PutInto(Resized(M_file, EmplaceBuckets), EmplaceBuckets, k, v)
  <2>1. PutInto(M_file, M_buckets, k, v)
    BY <1>2, NoGrowth
  <2>2. PICK res : res = open_address_emplace_index(keys, k, M_buckets)
    OBVIOUS
  <2>3. /\ M_buckets' = M_buckets
        /\ IF res.inserted
           THEN M_file' = [ShiftUp(M_file, res.index, res.hole, M_buckets)
                             EXCEPT ![res.index] = [key |-> k, val |-> v]]
           ELSE M_file' = M_file
    BY <2>1, <2>2, Zenon DEF PutInto, keys
  <2>4. /\ M_buckets \in Nat \ {0} /\ M_file \in Tables(M_buckets)
        /\ M_file[M_buckets - 1] = Free
    BY <1>2 DEF IInv, TableOK, LastSlotFree
  <2>5. CASE res.inserted
    <3>1. [key |-> k, val |-> v] \in Element
      BY DEF Element
    <3>2. PICK e \in Element : e = [key |-> k, val |-> v]
      BY <3>1
    <3>3. e.key = k
      BY <3>2
    <3>4. M_file' = [ShiftUp(M_file, res.index, res.hole, M_buckets) EXCEPT ![res.index] = e]
      BY <2>3, <2>5, <3>2
    <3>5. Ordered(KeysOf(M_file', M_buckets), M_buckets)
      BY <2>2, <2>4, <2>5, <3>3, <3>4, PutOrdered DEF TableOrdered, keys
    <3> QED  BY <2>3, <3>5 DEF TableOrdered, keys
  <2>6. CASE ~res.inserted
    BY <2>3, <2>6 DEF TableOrdered, keys
  <2> QED  BY <2>5, <2>6
<1> QED  BY <1>1, <1>2, Zenon DEF emplace

LEMMA EraseKeepsTableOrder ==
  ASSUME IInv, LastSlotFree, TableOrdered, M_buckets > 0, NEW k \in Key, erase(k)
  PROVE  TableOrdered'
<1>1. PICK res : res = open_address_erase_index(keys, k, M_buckets)
  OBVIOUS
<1>2. /\ M_buckets' = M_buckets
      /\ res.last # M_buckets =>
           M_file' = [ShiftDown(M_file, res.start, res.last, M_buckets) EXCEPT ![res.last] = Free]
      /\ res.last = M_buckets => M_file' = M_file
  BY <1>1, Zenon DEF erase
<1>3. /\ M_buckets \in Nat \ {0} /\ M_file \in Tables(M_buckets)
      /\ M_file[M_buckets - 1] = Free
  BY DEF IInv, TableOK, LastSlotFree
<1>4. CASE res.last # M_buckets
  <2>1. Ordered(KeysOf(M_file', M_buckets), M_buckets)
    BY <1>1, <1>2, <1>3, <1>4, EraseOrdered DEF TableOrdered, keys
  <2> QED  BY <1>2, <2>1 DEF TableOrdered, keys
<1>5. CASE res.last = M_buckets
  BY <1>2, <1>5 DEF TableOrdered, keys
<1> QED  BY <1>4, <1>5

(* A new value in the slot of a key leaves the keys as they are. *)
LEMMA AssignKeepsOrder ==
  ASSUME IInv, TableOrdered, M_buckets > 0, NEW k \in Key, find(k).found, NEW v \in Value,
         M_file' = [M_file EXCEPT ![find(k).index].val = v], M_buckets' = M_buckets
  PROVE  TableOrdered'
<1>1. PICK i \in Slots(M_buckets) : i = find(k).index
  BY FoundElement
<1>2. M_file[i] \in Element /\ M_file[i].key = k
  BY <1>1, FoundElement
<1>3. M_file \in Tables(M_buckets) /\ M_file' = [M_file EXCEPT ![i].val = v]
  BY <1>1 DEF IInv, TableOK
<1>4. /\ M_file'[i] \in Element /\ M_file'[i].key = M_file[i].key
      /\ \A j \in Slots(M_buckets) \ {i} : M_file'[j] = M_file[j]
  BY <1>2, <1>3 DEF Tables, Element
<1>5. M_file'[i] # Free /\ M_file[i] # Free
  BY <1>2, <1>4, FreeSlotAssumption
<1>6. KeysOf(M_file', M_buckets) = KeysOf(M_file, M_buckets)
  BY <1>4, <1>5 DEF KeysOf
<1> QED  BY <1>6 DEF TableOrdered, keys

LEMMA EmptyOrdered ==
  ASSUME NEW B, NEW t, \A i \in Slots(B) : t[i] = Free
  PROVE  Ordered(KeysOf(t, B), B)
<1>1. \A i \in Slots(B) : KeysOf(t, B)[i] = Free
  BY DEF KeysOf
<1> QED  BY <1>1 DEF Ordered, Reachable, Sorted, Unique

LEMMA OrderInvariance ==
  ASSUME IInv, Exact, LastSlotFree, TableOrdered, [Next]_vars
  PROVE  TableOrdered'
<1>1. CASE UNCHANGED table
  BY <1>1 DEF table, TableOrdered, keys
<1>2. ASSUME NEW k \in Key, NEW v \in Value, emplace(k, v) PROVE TableOrdered'
  BY <1>2, EmplaceKeepsOrder
<1>3. ASSUME NEW k \in Key, NEW v \in Value, InsertOrAssign(k, v) PROVE TableOrdered'
  <2>1. CASE /\ M_buckets > 0 /\ find(k).found
             /\ M_file' = [M_file EXCEPT ![find(k).index].val = v]
             /\ UNCHANGED <<M_buckets, M_elem>>
    BY <2>1, AssignKeepsOrder
  <2> QED  BY <1>1, <1>2, <1>3, <2>1, Zenon DEF InsertOrAssign, Traps
<1>4. ASSUME NEW k \in Key, Subscript(k) PROVE TableOrdered'
  BY <1>1, <1>2, <1>4, ValueAssumption, Zenon DEF Subscript, Traps
<1>5. ASSUME NEW k \in Key, Find(k) \/ Erase(k) PROVE TableOrdered'
  <2>1. UNCHANGED table \/ (M_buckets > 0 /\ erase(k))
    BY <1>5, Zenon DEF Find, Erase, Traps
  <2> QED  BY <1>1, <2>1, EraseKeepsTableOrder
<1>6. ASSUME NEW i \in Slots(M_buckets), EraseAt(i) PROVE TableOrdered'
  <2>1. M_buckets \in Nat /\ M_buckets > 0 /\ M_file \in Tables(M_buckets)
    BY DEF IInv, TableOK, Slots
  <2>2. M_file[i] # Free
    BY <1>6, <2>1, KeysOfType DEF EraseAt, Taken, keys, TakenIn
  <2>3. M_file[i].key \in Key /\ erase(M_file[i].key)
    BY <1>6, <2>1, <2>2 DEF EraseAt, Tables, Element
  <2> QED  BY <2>1, <2>3, EraseKeepsTableOrder
<1>7. CASE Clear
  <2>1. M_buckets' = M_buckets /\ \A i \in Slots(M_buckets) : M_file'[i] = Free
    BY <1>7 DEF Clear
  <2>2. Ordered(KeysOf(M_file', M_buckets), M_buckets)
    BY <2>1, EmptyOrdered
  <2> QED  BY <2>1, <2>2 DEF TableOrdered, keys
<1>8. ASSUME NEW choices \in ChoiceSets, SetBucketChoices(choices) PROVE TableOrdered'
  BY <1>1, <1>8 DEF SetBucketChoices
<1>9. CASE UNCHANGED vars
  BY <1>1, <1>9 DEF vars, table
<1> QED  BY <1>2, <1>3, <1>4, <1>5, <1>6, <1>7, <1>8, <1>9 DEF Next, Emplace

-----------------------------------------------------------------------------
(* The theorem. *)

LEMMA OrderFinds ==
  ASSUME M_buckets \in Nat, M_file \in Tables(M_buckets), TableOrdered
  PROVE  Lookup
<1> SUFFICES ASSUME NEW i \in Occupied
             PROVE  find(M_file[i].key) = [index |-> i, found |-> TRUE]
  BY DEF Lookup
<1>1. i \in Slots(M_buckets) /\ keys[i] # Free
  BY DEF Occupied, Taken
<1>2. M_buckets \in Nat \ {0} /\ M_file \in Tables(M_buckets)
  BY <1>1 DEF Slots
<1>3. keys \in KeyTables(M_buckets) /\ keys[i] = M_file[i].key
  BY <1>1, <1>2, KeysOfType DEF keys
<1>4. open_address_find(keys, keys[i], M_buckets) = [index |-> i, found |-> TRUE]
  BY <1>1, <1>2, <1>3, FindHit DEF TableOrdered
<1> QED  BY <1>3, <1>4 DEF find

LEMMA InitOrdered == Init => TableOrdered
<1> SUFFICES ASSUME Init PROVE TableOrdered
  OBVIOUS
<1>1. \A i \in Slots(M_buckets) : M_file[i] = Free
  BY DEF Init
<1> QED  BY <1>1, EmptyOrdered DEF TableOrdered, keys

(* While the last slot has stayed free, so that no chain wraps, the three  *)
(* loops of find lead to every element of the map, whatever the keys,      *)
(* their hash values and the order of the calls.  (Lookup holds even after *)
(* the call that takes the last slot.)                                     *)
THEOREM LookupCorrect == Spec /\ []LastSlotFree => []Lookup
<1>1. Init => TableOrdered
  BY InitOrdered
<1>2. IInv /\ Exact /\ [Next]_vars => IInv' /\ Exact'
  BY Invariance
<1>3. IInv /\ Exact /\ LastSlotFree /\ TableOrdered /\ [Next]_vars => TableOrdered'
  BY OrderInvariance
<1>4. IInv /\ TableOrdered => Lookup
  BY OrderFinds DEF IInv, TableOK
<1> QED  BY <1>1, <1>2, <1>3, <1>4, InvariantInit, PTL DEF Spec

-----------------------------------------------------------------------------
(* While the order holds, the calls are those of a dictionary. *)

Dict == INSTANCE Dictionary WITH dict <- Contents, ret <- [ok |-> ret.ok, val |-> ret.val]

(* Contents, of a table t of B slots. *)
HoldersIn(k, t, B) == {i \in Slots(B) : t[i] # Free /\ t[i].key = k}

ValueIn(k, t, B) ==
  IF HoldersIn(k, t, B) = {} THEN None ELSE t[CHOOSE i \in HoldersIn(k, t, B) : TRUE].val

LEMMA ContentsValue ==
  /\ \A k \in Key : Contents[k] = ValueIn(k, M_file, M_buckets)
  /\ DOMAIN Contents = Key /\ Contents = [k \in Key |-> Contents[k]]
BY DEF Contents, SlotsOf, ValueIn, HoldersIn

LEMMA ContentsValueNext ==
  /\ \A k \in Key : Contents'[k] = ValueIn(k, M_file', M_buckets')
  /\ DOMAIN Contents' = Key /\ Contents' = [k \in Key |-> Contents'[k]]
BY DEF Contents, SlotsOf, ValueIn, HoldersIn

(* A key that is there once has the value of its slot. *)
LEMMA ValueOfSlot ==
  ASSUME NEW B \in Nat, NEW t \in Tables(B), Unique(KeysOf(t, B), B),
         NEW i \in Slots(B), t[i] # Free
  PROVE  ValueIn(t[i].key, t, B) = t[i].val /\ t[i].key \in Key /\ t[i].val \in Value
<1> DEFINE S == HoldersIn(t[i].key, t, B)
<1>1. t[i] \in Element
  BY DEF Tables
<1>2. i \in S
  BY DEF HoldersIn
<1>3. \A j \in S : j = i
  BY KeysOfType DEF HoldersIn, Unique
<1>4. (CHOOSE j \in S : TRUE) = i
  BY <1>2, <1>3
<1> QED  BY <1>1, <1>2, <1>4 DEF ValueIn, Element

LEMMA ValueOfNone ==
  ASSUME NEW B, NEW t, NEW k, \A i \in Slots(B) : t[i] # Free => t[i].key # k
  PROVE  ValueIn(k, t, B) = None
<1>1. HoldersIn(k, t, B) = {}
  BY DEF HoldersIn
<1> QED  BY <1>1 DEF ValueIn

(* Tables with the same elements of other keys agree on those keys. *)
LEMMA OthersValues ==
  ASSUME NEW B \in Nat, NEW t \in Tables(B), Unique(KeysOf(t, B), B),
         NEW B2 \in Nat, NEW t2 \in Tables(B2), Unique(KeysOf(t2, B2), B2),
         NEW k, OthersThan(k, t2, B2) = OthersThan(k, t, B),
         NEW o, o # k
  PROVE  ValueIn(o, t2, B2) = ValueIn(o, t, B)
<1>1. CASE HoldersIn(o, t, B) = {}
  <2>1. \A i \in Slots(B2) : t2[i] # Free => t2[i].key # o
    <3> SUFFICES ASSUME NEW i \in Slots(B2), t2[i] # Free, t2[i].key = o PROVE FALSE
      OBVIOUS
    <3>1. t2[i] \in OthersThan(k, t, B)
      BY DEF OthersThan
    <3>2. PICK j \in Slots(B) : t[j] # Free /\ t[j] = t2[i]
      BY <3>1 DEF OthersThan
    <3> QED  BY <1>1, <3>2 DEF HoldersIn
  <2> QED  BY <1>1, <2>1, ValueOfNone DEF ValueIn
<1>2. CASE HoldersIn(o, t, B) # {}
  <2>1. PICK i \in Slots(B) : t[i] # Free /\ t[i].key = o
    BY <1>2 DEF HoldersIn
  <2>2. t[i] \in OthersThan(k, t2, B2)
    BY <2>1 DEF OthersThan
  <2>3. PICK j \in Slots(B2) : t2[j] # Free /\ t2[j] = t[i]
    BY <2>2 DEF OthersThan
  <2>4. ValueIn(o, t, B) = t[i].val
    BY <2>1, ValueOfSlot
  <2>5. ValueIn(o, t2, B2) = t2[j].val
    BY <2>1, <2>3, ValueOfSlot
  <2> QED  BY <2>3, <2>4, <2>5
<1> QED  BY <1>1, <1>2

(* What is needed of the table, before and after a call. *)
InOrder == TableOK /\ Unique(keys, M_buckets)

LEMMA OrderUnique == ASSUME TableOK, TableOrdered PROVE InOrder
BY DEF TableOrdered, Ordered, InOrder

LEMMA ContentsOfSlot ==
  ASSUME InOrder, NEW i \in Slots(M_buckets), M_file[i] # Free
  PROVE  /\ Contents[M_file[i].key] = M_file[i].val
         /\ M_file[i].key \in Key /\ M_file[i].val \in Value /\ M_file[i].val # None
BY ContentsValue, ValueOfSlot, ValueAssumption DEF InOrder, TableOK, keys

LEMMA ContentsSame ==
  ASSUME M_file' = M_file, M_buckets' = M_buckets
  PROVE  Contents' = Contents
<1>1. \A k \in Key : Contents'[k] = Contents[k]
  BY ContentsValue, ContentsValueNext
<1> QED  BY <1>1, ContentsValue, ContentsValueNext

LEMMA ContentsOfSlotNext ==
  ASSUME InOrder', NEW i \in Slots(M_buckets'), M_file'[i] # Free
  PROVE  Contents'[M_file'[i].key] = M_file'[i].val
BY ContentsValueNext, ValueOfSlot DEF InOrder, TableOK, keys

LEMMA ContentsKept ==
  ASSUME InOrder, InOrder', NEW k, Kept(k), NEW o \in Key, o # k
  PROVE  Contents'[o] = Contents[o]
<1>1. ValueIn(o, M_file', M_buckets') = ValueIn(o, M_file, M_buckets)
  BY OthersValues DEF InOrder, TableOK, keys, Kept
<1>2. Contents'[o] = ValueIn(o, M_file', M_buckets')
  BY ContentsValueNext
<1> QED  BY <1>1, <1>2, ContentsValue

LEMMA ContentsExcept ==
  ASSUME InOrder, InOrder', NEW k \in Key, Kept(k)
  PROVE  Contents' = [Contents EXCEPT ![k] = Contents'[k]]
<1>1. Contents' = [o \in Key |-> Contents'[o]]
  BY ContentsValueNext
<1>2. \A o \in Key : o # k => Contents'[o] = Contents[o]
  BY ContentsKept
<1>3. DOMAIN Contents = Key
  BY ContentsValue
<1> QED  BY <1>1, <1>2, <1>3

(* find answers whether a key is there. *)
LEMMA FindPresent ==
  ASSUME IInv, TableOrdered, M_buckets > 0, NEW k \in Key
  PROVE  /\ find(k).found \in BOOLEAN
         /\ find(k).found <=> Contents[k] # None
         /\ find(k).found => Contents[k] = M_file[find(k).index].val
<1>1. /\ find(k).found \in BOOLEAN /\ find(k).index \in Slots(M_buckets)
      /\ find(k).found => M_file[find(k).index] \in Element /\ M_file[find(k).index].key = k
  BY FoundElement
<1>2. InOrder
  BY OrderUnique DEF IInv
<1>3. ASSUME find(k).found PROVE Contents[k] = M_file[find(k).index].val /\ Contents[k] # None
  BY <1>1, <1>2, <1>3, ContentsOfSlot, FreeSlotAssumption
<1>4. ASSUME Contents[k] # None PROVE find(k).found
  <2>1. HoldersIn(k, M_file, M_buckets) # {}
    BY <1>4, ContentsValue DEF ValueIn
  <2>2. PICK i \in Slots(M_buckets) : M_file[i] # Free /\ M_file[i].key = k
    BY <2>1 DEF HoldersIn
  <2>3. i \in Occupied
    BY <2>2, KeysOfType DEF IInv, TableOK, Occupied, Taken, keys
  <2>4. find(k) = [index |-> i, found |-> TRUE]
    BY <2>2, <2>3, OrderFinds DEF Lookup, IInv, TableOK
  <2> QED  BY <2>4
<1> QED  BY <1>1, <1>3, <1>4

-----------------------------------------------------------------------------
(* The calls. *)

Told == [ok |-> ret.ok, val |-> ret.val]

LEMMA ToldNext ==
  ASSUME NEW k, NEW ok \in BOOLEAN, NEW val, NEW at, Answer(k, ok, val, at)
  PROVE  Told' = [ok |-> ok, val |-> val] /\ ret'.key = k
<1>1. ret' = [key |-> k, ok |-> ok, val |-> val, at |-> at]
  BY DEF Answer
<1>2. ret'.ok = ok /\ ret'.val = val /\ ret'.key = k
  BY <1>1
<1>3. Told' = [ok |-> ret'.ok, val |-> ret'.val]
  BY DEF Told
<1> QED  BY <1>2, <1>3

(* What emplace, insert and operator[] do when the key is not there, and   *)
(* what the last two do and answer when it is.                             *)
LEMMA EmplaceRefines ==
  ASSUME IInv, Exact, TableOrdered, LastSlotFree, InOrder',
         NEW k \in Key, NEW v \in Value, emplace(k, v), UNCHANGED M_bucket_choices
  PROVE  \/ UNCHANGED <<table, ret>>
         \/ \E b \in BOOLEAN :
              /\ b <=> Contents[k] = None
              /\ Told' = [ok |-> b, val |-> Contents'[k]]
              /\ Contents' = IF b THEN [Contents EXCEPT ![k] = v] ELSE Contents
<1>1. CASE Traps \/ Loops
  BY <1>1 DEF Traps, Loops
<1>2. CASE M_buckets > 0 /\ ~EmplaceLoops(KeysOf(Resized(M_file, EmplaceBuckets), EmplaceBuckets), k, EmplaceBuckets)
           /\ PutInto(Resized(M_file, EmplaceBuckets), EmplaceBuckets, k, v)
  <2>1. /\ PutInto(M_file, M_buckets, k, v)
        /\ ~EmplaceLoops(KeysOf(M_file, M_buckets), k, M_buckets)
    BY <1>2, NoGrowth
  <2>2. PICK res : res = open_address_emplace_index(keys, k, M_buckets)
    OBVIOUS
  <2>3. /\ M_buckets' = M_buckets
        /\ res.inserted =>
             M_file' = [ShiftUp(M_file, res.index, res.hole, M_buckets)
                          EXCEPT ![res.index] = [key |-> k, val |-> v]]
        /\ ~res.inserted => M_file' = M_file
        /\ Answer(k, res.inserted, M_file'[res.index].val, res.index)
    BY <2>1, <2>2, Zenon DEF PutInto, keys
  <2>4. M_buckets \in Nat \ {0} /\ M_file \in Tables(M_buckets) /\ keys \in KeyTables(M_buckets)
    BY <1>2, KeysOfType DEF IInv, TableOK, keys
  <2>5. /\ res.inserted \in BOOLEAN /\ res.index \in Slots(M_buckets)
        /\ ~res.inserted => keys[res.index] = k
    BY <2>2, <2>4, EmplaceResult
  <2>6. res.inserted <=> Contents[k] = None
    <3>1. /\ find(k).found \in BOOLEAN /\ find(k).found <=> Contents[k] # None
      BY <1>2, FindPresent
    <3>2. res.inserted = ~find(k).found
      BY <2>2, Zenon DEF open_address_emplace_index, find
    <3> QED  BY <3>1, <3>2
  <2>7. M_file'[res.index].key = k /\ M_file'[res.index] # Free
    <3>1. CASE res.inserted
      <4>1. M_file'[res.index] = [key |-> k, val |-> v]
        BY <2>3, <2>5, <3>1 DEF ShiftUp
      <4> QED  BY <4>1, FreeSlotAssumption DEF Element
    <3>2. CASE ~res.inserted
      <4>1. keys[res.index] # Free
        BY <2>5, <3>2, FreeAssumption
      <4> QED  BY <2>3, <2>4, <2>5, <3>2, <4>1, KeysOfType DEF keys
    <3> QED  BY <2>5, <3>1, <3>2
  <2>8. Contents'[k] = M_file'[res.index].val
    BY <2>3, <2>5, <2>7, ContentsOfSlotNext
  <2>9. Told' = [ok |-> res.inserted, val |-> Contents'[k]]
    BY <2>3, <2>5, <2>8, ToldNext
  <2>10. ASSUME res.inserted PROVE Contents' = [Contents EXCEPT ![k] = v]
    <3>1. Contents'[k] = v
      BY <2>3, <2>5, <2>8, <2>10 DEF ShiftUp
    <3>2. Kept(k)
      <4>1. ret'.key = k
        BY <2>3, <2>5, ToldNext
      <4> QED  BY <4>1, EmplaceStep
    <3> QED  BY <3>1, <3>2, ContentsExcept, OrderUnique DEF IInv
  <2>11. ~res.inserted => Contents' = Contents
    BY <2>3, ContentsSame
  <2> QED  BY <2>5, <2>6, <2>9, <2>10, <2>11
<1> QED  BY <1>1, <1>2, Zenon DEF emplace

(* An element that is taken out was the only one of its key. *)
LEMMA EraseRefines ==
  ASSUME IInv, TableOrdered, InOrder', M_buckets > 0, NEW k \in Key, erase(k),
         NEW at, Answer(k, find(k).found, None, at)
  PROVE  \E b \in BOOLEAN : /\ b <=> Contents[k] # None
                            /\ Told' = [ok |-> b, val |-> None]
                            /\ Contents' = [Contents EXCEPT ![k] = None]
<1>1. PICK res : res = open_address_erase_index(keys, k, M_buckets)
  OBVIOUS
<1>2. /\ M_buckets' = M_buckets
      /\ res.last # M_buckets =>
           M_file' = [ShiftDown(M_file, res.start, res.last, M_buckets) EXCEPT ![res.last] = Free]
      /\ res.last = M_buckets => M_file' = M_file
  BY <1>1, Zenon DEF erase
<1>3. M_buckets \in Nat \ {0} /\ M_file \in Tables(M_buckets) /\ keys \in KeyTables(M_buckets)
  BY KeysOfType DEF IInv, TableOK, keys
<1>4. /\ find(k).found \in BOOLEAN
      /\ find(k).found <=> Contents[k] # None
      /\ Told' = [ok |-> find(k).found, val |-> None]
  BY FindPresent, ToldNext
<1>5. /\ find(k).found <=> res.last # M_buckets
      /\ find(k).found =>
           /\ res.start \in Slots(M_buckets) /\ res.last \in Slots(M_buckets)
           /\ keys[res.start] = k
           /\ \A j \in Slots(M_buckets) :
                Distance(res.start, j, M_buckets) <= Distance(res.start, res.last, M_buckets)
                  => keys[j] # Free
  BY <1>1, <1>3, EraseResult DEF find
<1>6. Contents'[k] = None
  <2>1. CASE find(k).found
    <3>2. \A i \in Slots(M_buckets) : M_file'[i] # Free =>
             \E j \in Slots(M_buckets) \ {res.start} : M_file'[i] = M_file[j]
      BY <1>1, <1>2, <1>3, <1>5, <2>1, EraseContents DEF keys
    <3>3. \A i \in Slots(M_buckets) : M_file'[i] # Free => M_file'[i].key # k
      <4> SUFFICES ASSUME NEW i \in Slots(M_buckets), M_file'[i] # Free, M_file'[i].key = k
                   PROVE  FALSE
        OBVIOUS
      <4>1. PICK j \in Slots(M_buckets) \ {res.start} : M_file'[i] = M_file[j]
        BY <3>2
      <4>2. keys[j] = k /\ keys[j] # Free
        BY <1>3, <4>1, KeysOfType, FreeAssumption DEF keys
      <4> QED  BY <1>5, <2>1, <4>1, <4>2 DEF TableOrdered, Ordered, Unique
    <3> QED  BY <1>2, <3>3, ValueOfNone, ContentsValueNext
  <2>2. CASE ~find(k).found
    <3>1. Contents' = Contents
      BY <1>2, <1>5, <2>2, ContentsSame
    <3> QED  BY <1>4, <2>2, <3>1
  <2> QED  BY <1>4, <2>1, <2>2
<1>7. Contents' = [Contents EXCEPT ![k] = None]
  <2>1. Kept(k)
    BY EraseStep
  <2> QED  BY <1>6, <2>1, ContentsExcept, OrderUnique DEF IInv
<1> QED  BY <1>4, <1>7

(* A new value in the slot of a key. *)
LEMMA AssignRefines ==
  ASSUME IInv, TableOrdered, InOrder', NEW k \in Key, NEW v \in Value, M_buckets > 0, find(k).found,
         M_file' = [M_file EXCEPT ![find(k).index].val = v], M_buckets' = M_buckets, Kept(k)
  PROVE  Contents[k] # None /\ Contents' = [Contents EXCEPT ![k] = v]
<1>1. PICK i \in Slots(M_buckets) : i = find(k).index
  BY FoundElement
<1>2. M_file[i] \in Element /\ M_file[i].key = k /\ M_file \in Tables(M_buckets)
  BY <1>1, FoundElement DEF IInv, TableOK
<1>3. M_file'[i].key = k /\ M_file'[i].val = v /\ M_file'[i] \in Element
  BY <1>1, <1>2 DEF Tables, Element
<1>4. Contents'[k] = v
  BY <1>3, ContentsOfSlotNext, FreeSlotAssumption
<1> QED  BY <1>4, FindPresent, ContentsExcept, OrderUnique DEF IInv

-----------------------------------------------------------------------------
(* The calls of the dictionary, in terms of what they leave and tell. *)

LEMMA IsPut ==
  ASSUME NEW k \in Key, NEW v \in Value, NEW b \in BOOLEAN, b <=> Contents[k] = None,
         Told' = [ok |-> b, val |-> Contents'[k]],
         Contents' = IF b THEN [Contents EXCEPT ![k] = v] ELSE Contents
  PROVE  Dict!Emplace(k, v) /\ (v = Default => Dict!Subscript(k))
<1>1. b = ~Dict!Present(k)
  BY Zenon DEF Dict!Present
<1>2. Told' = [ok |-> ~Dict!Present(k), val |-> Contents'[k]]
  BY <1>1, Zenon
<1>3. Contents' = IF Dict!Present(k) THEN Contents ELSE [Contents EXCEPT ![k] = v]
  BY <1>1, Zenon
<1> QED  BY <1>2, <1>3, Zenon DEF Dict!Emplace, Dict!Subscript, Told

LEMMA IsAssign ==
  ASSUME NEW k \in Key, NEW v \in Value, NEW b \in BOOLEAN, b <=> Contents[k] = None,
         Told' = [ok |-> b, val |-> v], Contents' = [Contents EXCEPT ![k] = v]
  PROVE  Dict!InsertOrAssign(k, v)
<1>1. b = ~Dict!Present(k)
  BY Zenon DEF Dict!Present
<1>2. Told' = [ok |-> ~Dict!Present(k), val |-> v]
  BY <1>1, Zenon
<1> QED  BY <1>2, Zenon DEF Dict!InsertOrAssign, Told

LEMMA IsFind ==
  ASSUME NEW k \in Key, NEW b \in BOOLEAN, b <=> Contents[k] # None,
         Told' = [ok |-> b, val |-> Contents[k]], Contents' = Contents
  PROVE  Dict!Find(k)
<1>1. b = Dict!Present(k)
  BY Zenon DEF Dict!Present
<1>2. Told' = [ok |-> Dict!Present(k), val |-> Contents[k]]
  BY <1>1, Zenon
<1> QED  BY <1>2, Zenon DEF Dict!Find, Told

LEMMA IsErase ==
  ASSUME NEW k \in Key, NEW b \in BOOLEAN, b <=> Contents[k] # None,
         Told' = [ok |-> b, val |-> None], Contents' = [Contents EXCEPT ![k] = None]
  PROVE  Dict!Erase(k)
<1>1. b = Dict!Present(k)
  BY Zenon DEF Dict!Present
<1>2. Told' = [ok |-> Dict!Present(k), val |-> None]
  BY <1>1, Zenon
<1> QED  BY <1>2, Zenon DEF Dict!Erase, Told

LEMMA IsQuiet ==
  ASSUME ret' = NoCall, Contents' = Contents
  PROVE  Dict!Reorganise
<1>1. Told' = [ok |-> FALSE, val |-> None]
  BY DEF Told, NoCall
<1> QED  BY <1>1, Zenon DEF Dict!Reorganise, Dict!NoAnswer, Told

LEMMA IsStutter == ASSUME UNCHANGED <<table, ret>> PROVE UNCHANGED Dict!vars
<1>1. Contents' = Contents
  BY ContentsSame DEF table
<1>2. ret' = ret
  OBVIOUS
<1> QED  BY <1>1, <1>2, Zenon DEF Dict!vars

(* A call on a map in order, that stays in order. *)
OrderlyCall == IInv /\ Exact /\ TableOrdered /\ LastSlotFree /\ InOrder'

LEMMA PutCall ==
  ASSUME OrderlyCall, NEW k \in Key, NEW v \in Value, emplace(k, v), UNCHANGED M_bucket_choices
  PROVE  \/ UNCHANGED Dict!vars
         \/ Dict!Emplace(k, v) /\ (v = Default => Dict!Subscript(k))
<1>1. CASE UNCHANGED <<table, ret>>
  BY <1>1, IsStutter
<1>2. CASE \E b \in BOOLEAN :
              /\ b <=> Contents[k] = None
              /\ Told' = [ok |-> b, val |-> Contents'[k]]
              /\ Contents' = IF b THEN [Contents EXCEPT ![k] = v] ELSE Contents
  BY <1>2, IsPut
<1> QED  BY <1>1, <1>2, EmplaceRefines DEF OrderlyCall

LEMMA FindCall ==
  ASSUME OrderlyCall, NEW k \in Key, Find(k)
  PROVE  [Dict!Find(k)]_(Dict!vars)
<1>1. CASE Traps
  BY <1>1, IsStutter DEF Traps
<1>2. CASE /\ M_buckets > 0
           /\ IF find(k).found
              THEN Answer(k, TRUE, M_file[find(k).index].val, find(k).index)
              ELSE Answer(k, FALSE, None, M_buckets)
           /\ UNCHANGED table
  <2>1. Contents' = Contents
    BY <1>2, ContentsSame DEF table
  <2>2. CASE find(k).found
    <3>1. Told' = [ok |-> TRUE, val |-> Contents[k]] /\ Contents[k] # None
      BY <1>2, <2>2, FindPresent, ToldNext DEF OrderlyCall
    <3> QED  BY <2>1, <3>1, IsFind
  <2>3. CASE ~find(k).found
    <3>1. Told' = [ok |-> FALSE, val |-> Contents[k]] /\ Contents[k] = None
      BY <1>2, <2>3, FindPresent, ToldNext DEF OrderlyCall
    <3> QED  BY <2>1, <3>1, IsFind
  <2> QED  BY <2>2, <2>3
<1> QED  BY <1>1, <1>2, Zenon DEF Find

LEMMA SubscriptCall ==
  ASSUME OrderlyCall, NEW k \in Key, Subscript(k)
  PROVE  [Dict!Subscript(k)]_(Dict!vars)
<1>1. CASE Traps
  BY <1>1, IsStutter DEF Traps
<1>2. CASE M_buckets > 0 /\ find(k).found
           /\ Answer(k, FALSE, M_file[find(k).index].val, find(k).index) /\ UNCHANGED table
  <2>1. Contents' = Contents
    BY <1>2, ContentsSame DEF table
  <2>2. Told' = [ok |-> FALSE, val |-> Contents'[k]] /\ Contents[k] # None
    BY <1>2, <2>1, FindPresent, ToldNext DEF OrderlyCall
  <2> QED  BY <2>1, <2>2, IsPut, ValueAssumption
<1>3. CASE emplace(k, Default)
  BY <1>3, PutCall, ValueAssumption DEF Subscript, Running
<1> QED  BY <1>1, <1>2, <1>3, Zenon DEF Subscript

LEMMA InsertOrAssignCall ==
  ASSUME OrderlyCall, NEW k \in Key, NEW v \in Value, InsertOrAssign(k, v)
  PROVE  [Dict!InsertOrAssign(k, v)]_(Dict!vars)
<1>1. CASE Traps
  BY <1>1, IsStutter DEF Traps
<1>2. CASE M_buckets > 0 /\ find(k).found
           /\ M_file' = [M_file EXCEPT ![find(k).index].val = v]
           /\ Answer(k, FALSE, v, find(k).index)
           /\ UNCHANGED <<M_buckets, M_elem>>
  <2>1. Told' = [ok |-> FALSE, val |-> v] /\ ret'.key = k
    BY <1>2, ToldNext
  <2>2. Kept(k)
    BY <2>1, InsertOrAssignKeeps DEF OrderlyCall
  <2>3. Contents[k] # None /\ Contents' = [Contents EXCEPT ![k] = v]
    BY <1>2, <2>2, AssignRefines DEF OrderlyCall
  <2> QED  BY <2>1, <2>3, IsAssign
<1>3. CASE ~find(k).found /\ M_buckets > 0 /\ emplace(k, v)
  <2>1. Contents[k] = None
    BY <1>3, FindPresent DEF OrderlyCall
  <2>2. CASE UNCHANGED <<table, ret>>
    BY <2>2, IsStutter
  <2>3. ASSUME NEW b \in BOOLEAN, b <=> Contents[k] = None,
               Told' = [ok |-> b, val |-> Contents'[k]],
               Contents' = IF b THEN [Contents EXCEPT ![k] = v] ELSE Contents
        PROVE  Dict!InsertOrAssign(k, v)
    <3>1. b /\ Contents' = [Contents EXCEPT ![k] = v]
      BY <2>1, <2>3
    <3>2. Contents'[k] = v
      BY <3>1, ContentsValue
    <3>3. Told' = [ok |-> b, val |-> v]
      BY <2>3, <3>2
    <3> QED  BY <2>3, <3>1, <3>3, IsAssign
  <2> QED  BY <1>3, <2>2, <2>3, EmplaceRefines DEF OrderlyCall, InsertOrAssign, Running
<1> QED  BY <1>1, <1>2, <1>3, Zenon DEF InsertOrAssign

LEMMA EraseCall ==
  ASSUME OrderlyCall, NEW k \in Key, M_buckets > 0, erase(k),
         NEW at, Answer(k, find(k).found, None, at)
  PROVE  Dict!Erase(k)
BY EraseRefines, IsErase DEF OrderlyCall

LEMMA EraseAtCall ==
  ASSUME OrderlyCall, NEW i \in Slots(M_buckets), EraseAt(i)
  PROVE  \E k \in Key : Dict!Erase(k)
<1>1. M_buckets > 0 /\ M_buckets \in Nat /\ M_file \in Tables(M_buckets)
  BY DEF OrderlyCall, IInv, TableOK, Slots
<1>2. PICK k \in Key : k = M_file[i].key
  <2>1. M_file[i] # Free
    BY <1>1, KeysOfType DEF EraseAt, Taken, keys, TakenIn
  <2> QED  BY <1>1, <2>1 DEF Tables, Element
<1>3. PICK at : at = IF M_elem' = 0 THEN M_buckets ELSE i
  OBVIOUS
<1>4. erase(k) /\ Answer(k, find(k).found, None, at)
  BY <1>2, <1>3, Zenon DEF EraseAt
<1> QED  BY <1>1, <1>4, EraseCall

LEMMA ClearCall == ASSUME Clear PROVE Dict!Clear
<1>1. M_buckets' = M_buckets /\ M_file' = [i \in Slots(M_buckets) |-> Free] /\ ret' = NoCall
  BY DEF Clear
<1>2. \A k \in Key : Contents'[k] = None
  BY <1>1, ValueOfNone, ContentsValueNext
<1>3. Contents' = [k \in Key |-> None]
  BY <1>2, ContentsValueNext
<1>4. Told' = [ok |-> FALSE, val |-> None]
  BY <1>1 DEF Told, NoCall
<1> QED  BY <1>3, <1>4, Zenon DEF Dict!Clear, Dict!NoAnswer, Told

LEMMA CallsAreDictionary ==
  ASSUME OrderlyCall, [Next]_vars
  PROVE  [Dict!Next]_(Dict!vars)
<1>1. CASE UNCHANGED vars
  BY <1>1, IsStutter DEF vars, table
<1>2. ASSUME NEW k \in Key, NEW v \in Value, Emplace(k, v) PROVE [Dict!Next]_(Dict!vars)
  <2>1. UNCHANGED Dict!vars \/ Dict!Emplace(k, v)
    BY <1>2, PutCall DEF Emplace, Running
  <2> QED  BY <2>1, Zenon DEF Dict!Next
<1>3. ASSUME NEW k \in Key, NEW v \in Value, InsertOrAssign(k, v) PROVE [Dict!Next]_(Dict!vars)
  BY <1>3, InsertOrAssignCall, Zenon DEF Dict!Next
<1>4. ASSUME NEW k \in Key, Find(k) \/ Subscript(k) PROVE [Dict!Next]_(Dict!vars)
  BY <1>4, FindCall, SubscriptCall, Zenon DEF Dict!Next
<1>5. ASSUME NEW k \in Key, Erase(k) PROVE [Dict!Next]_(Dict!vars)
  <2>1. CASE Traps
    BY <2>1, IsStutter DEF Traps
  <2>2. CASE M_buckets > 0 /\ erase(k) /\ Answer(k, find(k).found, None, M_buckets)
    BY <2>2, EraseCall, Zenon DEF Dict!Next
  <2> QED  BY <1>5, <2>1, <2>2, Zenon DEF Erase
<1>6. ASSUME NEW i \in Slots(M_buckets), EraseAt(i) PROVE [Dict!Next]_(Dict!vars)
  BY <1>6, EraseAtCall, Zenon DEF Dict!Next
<1>7. CASE Clear
  BY <1>7, ClearCall, Zenon DEF Dict!Next
<1>8. ASSUME NEW choices \in ChoiceSets, SetBucketChoices(choices) PROVE [Dict!Next]_(Dict!vars)
  <2>1. ret' = NoCall /\ Contents' = Contents
    BY <1>8, ContentsSame DEF SetBucketChoices, table
  <2> QED  BY <2>1, IsQuiet, Zenon DEF Dict!Next
<1> QED  BY <1>1, <1>2, <1>3, <1>4, <1>5, <1>6, <1>7, <1>8, Zenon DEF Next

LEMMA EmptyDictionary == Init => Dict!Init
<1> SUFFICES ASSUME Init PROVE Dict!Init
  OBVIOUS
<1>1. M_file = [i \in Slots(M_buckets) |-> Free] /\ ret = NoCall
  BY DEF Init
<1>2. \A k \in Key : Contents[k] = None
  BY <1>1, ValueOfNone, ContentsValue
<1>3. Contents = [k \in Key |-> None]
  BY <1>2, ContentsValue
<1>4. Told = [ok |-> FALSE, val |-> None]
  BY <1>1 DEF Told, NoCall
<1> QED  BY <1>3, <1>4, Zenon DEF Dict!Init, Dict!NoAnswer, Told

(* While the last slot stays free, the slots, their order and every move   *)
(* of emplace and erase are invisible: each call of the map is that of a   *)
(* dictionary, with its answer and its effect on every key.  A call that   *)
(* traps or never returns is no step of it.                                *)
THEOREM MapIsDictionary == Spec /\ []LastSlotFree => Dict!Spec
<1>1. Init => TableOrdered
  BY InitOrdered
<1>2. IInv /\ Exact /\ [Next]_vars => IInv' /\ Exact'
  BY Invariance
<1>3. IInv /\ Exact /\ LastSlotFree /\ TableOrdered /\ [Next]_vars => TableOrdered'
  BY OrderInvariance
<1>4. IInv /\ Exact /\ IInv' /\ LastSlotFree /\ TableOrdered /\ TableOrdered' /\ [Next]_vars
        => [Dict!Next]_(Dict!vars)
  <2> SUFFICES ASSUME IInv, Exact, IInv', LastSlotFree, TableOrdered, TableOrdered', [Next]_vars
               PROVE  [Dict!Next]_(Dict!vars)
    OBVIOUS
  <2>1. InOrder'
    BY DEF IInv, TableOrdered, Ordered, InOrder
  <2> QED  BY <2>1, CallsAreDictionary DEF OrderlyCall
<1> QED  BY <1>1, <1>2, <1>3, <1>4, InvariantInit, EmptyDictionary, PTL DEF Spec, Dict!Spec
=============================================================================
