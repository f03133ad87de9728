----------------------- MODULE UnorderedMapLruProofs -----------------------
(***************************************************************************)
(* Theorems about UnorderedMapLru, for any keys, values, nodes and         *)
(* capacities, with calls that throw at any time.                          *)
(***************************************************************************)
EXTENDS UnorderedMapLru, SequenceTheorems, TLAPS

-----------------------------------------------------------------------------
(* What the calls do to a list of distinct nodes: its length, its set.     *)

(* emplace_front. *)
LEMMA ConsElements ==
  ASSUME NEW S, NEW s \in Seq(S), NEW x \in S
  PROVE  /\ Cons(x, s) \in Seq(S)
         /\ Len(Cons(x, s)) = Len(s) + 1 /\ DOMAIN Cons(x, s) = 1 .. Len(s) + 1
         /\ \A i \in 1 .. Len(s) + 1 : Cons(x, s)[i] = IF i = 1 THEN x ELSE s[i - 1]
<1>1. Cons(x, s) \in Seq(S) /\ Len(Cons(x, s)) = Len(s) + 1
  BY DEF Cons
<1>2. Cons(x, s)[1] = x /\ \A i \in 1 .. Len(s) : Cons(x, s)[i + 1] = s[i]
  BY DEF Cons
<1> DEFINE t == Cons(x, s)
           n == Len(s)
<1>3. n \in Nat
  OBVIOUS
<1>4. ASSUME NEW i \in 1 .. n + 1, i # 1 PROVE t[i] = s[i - 1]
  <2>1. i - 1 \in 1 .. n /\ (i - 1) + 1 = i
    <3> HIDE DEF n
    <3> QED  BY <1>3, <1>4
  <2> HIDE DEF t
  <2> QED  BY <1>2, <2>1 DEF t
<1> QED  BY <1>1, <1>2, <1>4

LEMMA ConsResult ==
  ASSUME NEW S, NEW s \in Seq(S), NEW x \in S, IsInjective(s), x \notin ToSet(s)
  PROVE  /\ Cons(x, s) \in Seq(S)
         /\ Len(Cons(x, s)) = Len(s) + 1
         /\ \A i \in 1 .. Len(s) : Cons(x, s)[i + 1] = s[i]
         /\ Cons(x, s)[1] = x
         /\ IsInjective(Cons(x, s))
         /\ ToSet(Cons(x, s)) = {x} \cup ToSet(s)
<1> DEFINE t == Cons(x, s)
<1>1. Len(s) \in Nat /\ DOMAIN s = 1 .. Len(s)
  OBVIOUS
<1>2. t \in Seq(S) /\ Len(t) = Len(s) + 1 /\ DOMAIN t = 1 .. Len(s) + 1
  BY ConsElements
<1>3. \A i \in 1 .. Len(s) + 1 : t[i] = IF i = 1 THEN x ELSE s[i - 1]
  BY ConsElements
<1> HIDE DEF t
<1>4. t[1] = x /\ \A i \in 1 .. Len(s) : t[i + 1] = s[i]
  BY <1>1, <1>3
<1>5. IsInjective(t)
  <2> SUFFICES ASSUME NEW i \in DOMAIN t, NEW j \in DOMAIN t, t[i] = t[j] PROVE i = j
    BY DEF IsInjective
  <2>1. \A m \in DOMAIN t : m # 1 => m - 1 \in DOMAIN s
    BY <1>1, <1>2
  <2>2. \A m \in DOMAIN s : s[m] # x
    BY DEF ToSet
  <2> QED BY <1>1, <1>2, <1>3, <2>1, <2>2 DEF IsInjective
<1>6. ToSet(t) = {x} \cup ToSet(s)
  <2>1. ASSUME NEW e \in ToSet(t) PROVE e \in {x} \cup ToSet(s)
    BY <2>1, <1>1, <1>2, <1>3 DEF ToSet
  <2>2. ASSUME NEW e \in {x} \cup ToSet(s) PROVE e \in ToSet(t)
    <3>1. CASE e = x
      BY <3>1, <1>1, <1>2, <1>4 DEF ToSet
    <3>2. CASE e \in ToSet(s)
      <4>1. PICK i \in DOMAIN s : e = s[i]
        BY <3>2 DEF ToSet
      <4>2. i + 1 \in DOMAIN t /\ t[i + 1] = e
        BY <4>1, <1>1, <1>2, <1>4
      <4> QED BY <4>2 DEF ToSet
    <3> QED BY <2>2, <3>1, <3>2
  <2> QED BY <2>1, <2>2
<1> QED BY <1>2, <1>4, <1>5, <1>6 DEF t

(* erase of the i-th element. *)
LEMMA RemoveElements ==
  ASSUME NEW S, NEW s \in Seq(S), NEW i \in DOMAIN s
  PROVE  /\ RemoveAt(s, i) \in Seq(S)
         /\ Len(RemoveAt(s, i)) = Len(s) - 1 /\ DOMAIN RemoveAt(s, i) = 1 .. Len(s) - 1
         /\ \A j \in 1 .. Len(s) - 1 : RemoveAt(s, i)[j] = IF j < i THEN s[j] ELSE s[j + 1]
<1> DEFINE t == RemoveAt(s, i)
           l == SubSeq(s, 1, i - 1)
           r == SubSeq(s, i + 1, Len(s))
<1>1. Len(s) \in Nat /\ DOMAIN s = 1 .. Len(s) /\ i \in 1 .. Len(s)
  OBVIOUS
<1>2. l \in Seq(S) /\ Len(l) = i - 1 /\ \A j \in 1 .. i - 1 : l[j] = s[j]
  BY <1>1, SubSeqProperties
<1>3. r \in Seq(S) /\ Len(r) = Len(s) - i /\ \A j \in 1 .. Len(s) - i : r[j] = s[i + j]
  BY <1>1, SubSeqProperties
<1>4. t = l \o r
  BY DEF RemoveAt
<1> HIDE DEF l, r, t
<1>5. t \in Seq(S) /\ Len(t) = Len(s) - 1
  <2>1. t \in Seq(S) /\ Len(t) = Len(l) + Len(r)
    BY <1>2, <1>3, <1>4, ConcatProperties
  <2> QED BY <2>1, <1>1, <1>2, <1>3
<1>6. \A j \in 1 .. Len(s) - 1 : t[j] = IF j < i THEN s[j] ELSE s[j + 1]
  <2> SUFFICES ASSUME NEW j \in 1 .. Len(s) - 1 PROVE t[j] = IF j < i THEN s[j] ELSE s[j + 1]
    OBVIOUS
  <2>1. CASE j < i
    BY <2>1, <1>1, <1>2, <1>3, <1>4
  <2>2. CASE j >= i
    <3>1. j - (i - 1) \in 1 .. Len(s) - i /\ i + (j - (i - 1)) = j + 1
      BY <2>2, <1>1
    <3>2. t[j] = r[j - (i - 1)]
      BY <2>2, <1>1, <1>2, <1>3, <1>4
    <3>3. r[j - (i - 1)] = s[j + 1]
      BY <3>1, <1>3
    <3>4. ~(j < i)
      BY <2>2, <1>1
    <3> QED BY <3>2, <3>3, <3>4
  <2> QED BY <2>1, <2>2, <1>1
<1> QED  BY <1>5, <1>6 DEF t

LEMMA RemoveResult ==
  ASSUME NEW S, NEW s \in Seq(S), NEW i \in DOMAIN s, IsInjective(s)
  PROVE  /\ RemoveAt(s, i) \in Seq(S)
         /\ Len(RemoveAt(s, i)) = Len(s) - 1
         /\ \A j \in 1 .. Len(s) - 1 : RemoveAt(s, i)[j] = IF j < i THEN s[j] ELSE s[j + 1]
         /\ IsInjective(RemoveAt(s, i))
         /\ ToSet(RemoveAt(s, i)) = ToSet(s) \ {s[i]}
<1> DEFINE t == RemoveAt(s, i)
<1>1. Len(s) \in Nat /\ DOMAIN s = 1 .. Len(s) /\ i \in 1 .. Len(s)
  OBVIOUS
<1>5. t \in Seq(S) /\ DOMAIN t = 1 .. Len(s) - 1 /\ Len(t) = Len(s) - 1
  BY RemoveElements
<1>6. \A j \in 1 .. Len(s) - 1 : t[j] = IF j < i THEN s[j] ELSE s[j + 1]
  BY RemoveElements
<1> HIDE DEF t
<1>7. DOMAIN t = 1 .. Len(s) - 1
  BY <1>5
<1>8. IsInjective(t)
  <2> SUFFICES ASSUME NEW j \in DOMAIN t, NEW m \in DOMAIN t, t[j] = t[m] PROVE j = m
    BY DEF IsInjective
  <2> DEFINE up(n) == IF n < i THEN n ELSE n + 1
  <2>1. up(j) \in DOMAIN s /\ up(m) \in DOMAIN s /\ s[up(j)] = s[up(m)]
    BY <1>1, <1>6, <1>7
  <2>2. up(j) = up(m)
    BY <2>1 DEF IsInjective
  <2> QED BY <2>2, <1>1, <1>7
<1>9. ToSet(t) = ToSet(s) \ {s[i]}
  <2>1. ASSUME NEW e \in ToSet(t) PROVE e \in ToSet(s) \ {s[i]}
    <3>1. PICK j \in DOMAIN t : e = t[j]
      BY <2>1 DEF ToSet
    <3> DEFINE u == IF j < i THEN j ELSE j + 1
    <3>2. u \in DOMAIN s /\ e = s[u] /\ u # i
      BY <3>1, <1>1, <1>6, <1>7
    <3> HIDE DEF u
    <3> QED BY <3>2, <1>1 DEF ToSet, IsInjective
  <2>2. ASSUME NEW e \in ToSet(s), e # s[i] PROVE e \in ToSet(t)
    <3>1. PICK u \in DOMAIN s : e = s[u]
      BY <2>2 DEF ToSet
    <3> DEFINE j == IF u < i THEN u ELSE u - 1
    <3>2. j \in DOMAIN t /\ e = t[j]
      BY <3>1, <2>2, <1>1, <1>6, <1>7
    <3> QED BY <3>2 DEF ToSet
  <2> QED BY <2>1, <2>2
<1> QED BY <1>5, <1>6, <1>8, <1>9 DEF t

(* What is left at the front. *)
LEMMA PrefixResult ==
  ASSUME NEW S, NEW s \in Seq(S), IsInjective(s), NEW n \in 0 .. Len(s)
  PROVE  /\ SubSeq(s, 1, n) \in Seq(S)
         /\ Len(SubSeq(s, 1, n)) = n
         /\ \A j \in 1 .. n : SubSeq(s, 1, n)[j] = s[j]
         /\ IsInjective(SubSeq(s, 1, n))
         /\ ToSet(SubSeq(s, 1, n)) = {s[j] : j \in 1 .. n}
<1> DEFINE t == SubSeq(s, 1, n)
<1>1. /\ t \in Seq(S) /\ Len(t) = n /\ DOMAIN t = 1 .. n /\ n \in Nat
      /\ \A j \in 1 .. n : t[j] = s[j]
      /\ 1 .. n \subseteq DOMAIN s
  BY SubSeqProperties
<1> HIDE DEF t
<1>2. IsInjective(t) /\ ToSet(t) = {s[j] : j \in 1 .. n}
  BY <1>1 DEF IsInjective, ToSet
<1> QED BY <1>1, <1>2 DEF t

-----------------------------------------------------------------------------
(* List and index, as they agree on a set L of nodes.                      *)
Agrees(L, index, pairs) == \A n \in L : pairs[n] \in Pair /\ index[pairs[n].key] = n

(* No entry but that of key k leads elsewhere. *)
ExactBut(k, L, index, pairs) ==
  \A j \in Key : j # k /\ index[j] # Absent => index[j] \in L /\ pairs[index[j]].key = j

Exact(L, index, pairs) ==
  \A j \in Key : index[j] # Absent => index[j] \in L /\ pairs[index[j]].key = j

Index == [Key -> Node \cup {End, Absent}]
Pairs == [Node -> Pair \cup {NoPair}]

(* A node leaves the list and the index, whatever key its entry is under.  *)
LEMMA RemoveNode ==
  ASSUME NEW L \in SUBSET Node, NEW index \in Index, NEW pairs \in Pairs, Agrees(L, index, pairs),
         NEW x \in L, NEW k \in Key, index[k] = x
  PROVE  /\ [index EXCEPT ![k] = Absent] \in Index
         /\ [pairs EXCEPT ![x] = NoPair] \in Pairs
         /\ Agrees(L \ {x}, [index EXCEPT ![k] = Absent], [pairs EXCEPT ![x] = NoPair])
         /\ Exact(L, index, pairs) =>
              Exact(L \ {x}, [index EXCEPT ![k] = Absent], [pairs EXCEPT ![x] = NoPair])
<1> DEFINE index2 == [index EXCEPT ![k] = Absent]
           pairs2 == [pairs EXCEPT ![x] = NoPair]
<1>1. /\ index2 \in Index /\ pairs2 \in Pairs
      /\ \A j \in Key : index2[j] = IF j = k THEN Absent ELSE index[j]
      /\ \A n \in Node : n # x => pairs2[n] = pairs[n]
  BY DEF Index, Pairs
<1> HIDE DEF index2, pairs2
<1>2. Agrees(L \ {x}, index2, pairs2)
  BY <1>1 DEF Agrees, Pair
<1>3. Exact(L, index, pairs) => Exact(L \ {x}, index2, pairs2)
  <2> SUFFICES ASSUME Exact(L, index, pairs), NEW j \in Key, index2[j] # Absent
               PROVE  index2[j] \in L \ {x} /\ pairs2[index2[j]].key = j
    BY DEF Exact
  <2>1. j # k /\ index2[j] = index[j] /\ index[j] \in L /\ pairs[index[j]].key = j
    BY <1>1 DEF Exact
  <2>2. index[j] # x
    BY <2>1 DEF Exact
  <2> QED BY <2>1, <2>2, <1>1
<1> QED BY <1>1, <1>2, <1>3 DEF index2, pairs2

(* A node joins them. *)
LEMMA AddNode ==
  ASSUME NEW L \in SUBSET Node, NEW index \in Index, NEW pairs \in Pairs, Agrees(L, index, pairs),
         NEW x \in Node \ L, NEW k \in Key, NEW v \in Value, index[k] \notin L
  PROVE  /\ [index EXCEPT ![k] = x] \in Index
         /\ [pairs EXCEPT ![x] = [key |-> k, val |-> v]] \in Pairs
         /\ Agrees({x} \cup L, [index EXCEPT ![k] = x], [pairs EXCEPT ![x] = [key |-> k, val |-> v]])
         /\ ExactBut(k, L, index, pairs) =>
              Exact({x} \cup L, [index EXCEPT ![k] = x], [pairs EXCEPT ![x] = [key |-> k, val |-> v]])
<1> DEFINE p      == [key |-> k, val |-> v]
           index2 == [index EXCEPT ![k] = x]
           pairs2 == [pairs EXCEPT ![x] = p]
<1>1. /\ p \in Pair /\ p.key = k
      /\ index2 \in Index /\ pairs2 \in Pairs
      /\ \A j \in Key : index2[j] = IF j = k THEN x ELSE index[j]
      /\ \A n \in Node : pairs2[n] = IF n = x THEN p ELSE pairs[n]
  BY DEF Index, Pairs, Pair
<1> HIDE DEF index2, pairs2, p
<1>2. Agrees({x} \cup L, index2, pairs2)
  <2> SUFFICES ASSUME NEW n \in {x} \cup L PROVE pairs2[n] \in Pair /\ index2[pairs2[n].key] = n
    BY DEF Agrees
  <2>1. CASE n = x
    BY <2>1, <1>1
  <2>2. CASE n \in L
    <3>1. n # x /\ n \in Node /\ pairs[n] \in Pair /\ index[pairs[n].key] = n
      BY <2>2 DEF Agrees
    <3>2. pairs[n].key \in Key /\ pairs[n].key # k
      BY <3>1, <2>2 DEF Pair
    <3> QED BY <3>1, <3>2, <1>1
  <2> QED BY <2>1, <2>2
<1>3. ExactBut(k, L, index, pairs) => Exact({x} \cup L, index2, pairs2)
  BY <1>1 DEF Exact, ExactBut
<1> QED BY <1>1, <1>2, <1>3 DEF index2, pairs2, p

-----------------------------------------------------------------------------
(* The inductive invariant: none of the four is inductive alone.  That     *)
(* trim takes the right key out of the index needs ListIndexed; that no    *)
(* call strays, IndexExact; that one removal is enough, SizeBounded.       *)
IInv == TypeOK /\ ListIndexed /\ SizeBounded /\ IndexExact

(* The invariant of a state, over the sets the lemmas speak of. *)
Kernel(s, index, pairs, max) ==
  /\ s \in Seq(Node) /\ index \in Index /\ pairs \in Pairs
  /\ IsInjective(s)
  /\ Agrees(ToSet(s), index, pairs)
  /\ Len(s) <= max

LEMMA KernelOfIInv ==
  ASSUME IInv
  PROVE  /\ Kernel(M_data, M_cache, pair, M_max)
         /\ threw \/ (status = "running" /\ Exact(Listed, M_cache, pair))
         /\ Listed \in SUBSET Node /\ Len(M_data) \in Nat /\ M_max \in Nat /\ M_max \in Capacity
         /\ ret \in [ok : BOOLEAN, at : Node \cup {End}] /\ threw \in BOOLEAN
<1>1. /\ M_data \in Seq(Node) /\ M_cache \in Index /\ pair \in Pairs /\ M_max \in Capacity
      /\ ret \in [ok : BOOLEAN, at : Node \cup {End}] /\ threw \in BOOLEAN
  BY DEF IInv, TypeOK, Index, Pairs
<1>2. M_max \in Nat /\ Len(M_data) \in Nat /\ Listed \in SUBSET Node
  BY <1>1, CapacityAssumption DEF Listed, ToSet
<1>3. Kernel(M_data, M_cache, pair, M_max)
  BY <1>1 DEF IInv, Kernel, ListIndexed, SizeBounded, Agrees, Listed
<1>4. threw \/ (status = "running" /\ Exact(Listed, M_cache, pair))
  BY DEF IInv, IndexExact, Exact
<1> QED BY <1>1, <1>2, <1>3, <1>4

LEMMA IInvOfKernel ==
  ASSUME Kernel(M_data', M_cache', pair', M_max'),
         threw' \/ (status' = "running" /\ Exact(Listed', M_cache', pair')),
         M_max' \in Capacity, status' \in {"running", "undefined"},
         ret' \in [ok : BOOLEAN, at : Node \cup {End}], threw' \in BOOLEAN
  PROVE  IInv'
BY DEF IInv, TypeOK, Index, Pairs, Kernel, ListIndexed, SizeBounded, IndexExact, Agrees, Exact, Listed

-----------------------------------------------------------------------------
(* The pieces the calls are made of. *)

(* trim restores the bound and keeps the agreement. *)
LEMMA TrimResult ==
  ASSUME NEW s, NEW index, NEW pairs, M_max \in Nat,
         Kernel(s, index, pairs, M_max + 1), trim(s, index, pairs)
  PROVE  /\ Kernel(M_data', M_cache', pair', M_max)
         /\ Exact(ToSet(s), index, pairs) => Exact(Listed', M_cache', pair')
<1>1. /\ s \in Seq(Node) /\ index \in Index /\ pairs \in Pairs /\ IsInjective(s)
      /\ Agrees(ToSet(s), index, pairs) /\ Len(s) <= M_max + 1 /\ Len(s) \in Nat
      /\ ToSet(s) \in SUBSET Node
  BY DEF Kernel, ToSet
<1>2. CASE ~(Len(s) > M_max)
  <2>1. M_data' = s /\ M_cache' = index /\ pair' = pairs
    BY <1>2 DEF trim
  <2>2. Len(s) <= M_max
    BY <1>2, <1>1
  <2> QED BY <2>1, <2>2, <1>1 DEF Kernel, Listed
<1>3. CASE Len(s) > M_max
  <2> DEFINE x == Last(s)
             k == pairs[x].key
  <2>1. /\ M_data' = Front(s)
        /\ M_cache' = [index EXCEPT ![k] = Absent] /\ pair' = [pairs EXCEPT ![x] = NoPair]
    BY <1>3 DEF trim
  <2>2. Len(s) \in DOMAIN s /\ Len(s) - 1 \in 0 .. Len(s) /\ x = s[Len(s)]
    BY <1>1, <1>3 DEF Last
  <2>3. x \in ToSet(s)
    BY <2>2 DEF ToSet
  <2>4. k \in Key /\ index[k] = x
    BY <2>3, <1>1 DEF Agrees, Pair
  <2> HIDE DEF x, k
  <2>5. /\ Front(s) \in Seq(Node) /\ Len(Front(s)) = Len(s) - 1 /\ IsInjective(Front(s))
        /\ ToSet(Front(s)) = {s[j] : j \in 1 .. Len(s) - 1}
    BY <2>2, <1>1, PrefixResult DEF Front
  <2>6. ToSet(Front(s)) = ToSet(s) \ {x}
    <3>0. Len(s) \in Nat
      BY <1>1
    <3>1. DOMAIN s = 1 .. Len(s) /\ Len(s) \in Nat
      BY <1>1
    <3>2. ASSUME NEW e \in ToSet(s), e # x PROVE e \in {s[j] : j \in 1 .. Len(s) - 1}
      <4>1. PICK j \in DOMAIN s : e = s[j]
        BY <3>2 DEF ToSet
      <4>2. j # Len(s) /\ j \in 1 .. Len(s)
        BY <4>1, <3>1, <3>2, <2>2
      <4>3. j \in 1 .. Len(s) - 1
        BY ONLY <3>0, <4>2, SMTT(30)
      <4> QED BY <4>1, <4>3
    <3>3. ASSUME NEW j \in 1 .. Len(s) - 1 PROVE s[j] \in ToSet(s) /\ s[j] # x
      <4> DEFINE n == Len(s)
      <4>0. n \in Nat /\ j \in 1 .. n - 1
        BY <3>1
      <4> HIDE DEF n
      <4>1. j \in 1 .. n /\ j # n
        BY <4>0
      <4> QED BY <4>1, <3>1, <2>2, <1>1 DEF n, ToSet, IsInjective
    <3> QED BY <3>2, <3>3, <2>5
  <2>7. /\ M_cache' \in Index /\ pair' \in Pairs
        /\ Agrees(ToSet(s) \ {x}, M_cache', pair')
        /\ Exact(ToSet(s), index, pairs) => Exact(ToSet(s) \ {x}, M_cache', pair')
    BY <2>1, <2>3, <2>4, <1>1, RemoveNode
  <2>8. Len(s) - 1 <= M_max
    BY <1>1
  <2> QED BY <2>1, <2>5, <2>6, <2>7, <2>8 DEF Kernel, Listed
<1> QED BY <1>2, <1>3

(* The node an entry leads to is removed from the list at its position. *)
LEMMA PositionResult ==
  ASSUME NEW n \in Listed
  PROVE  Position(n) \in DOMAIN M_data /\ M_data[Position(n)] = n
<1>1. \E i \in DOMAIN M_data : M_data[i] = n
  BY DEF Listed, ToSet
<1> QED BY <1>1 DEF Position

LEMMA ReturnsResult ==
  ASSUME NEW ok \in BOOLEAN, NEW at \in Node \cup {End}, Returns(ok, at)
  PROVE  /\ ret' \in [ok : BOOLEAN, at : Node \cup {End}]
         /\ status' = status /\ threw' = threw
BY DEF Returns

LEMMA ThrowsResult ==
  ASSUME Throws
  PROVE  /\ ret' \in [ok : BOOLEAN, at : Node \cup {End}]
         /\ status' = status /\ threw' = TRUE /\ M_max' = M_max
BY DEF Throws, NoCall

LEMMA StoreKeeps ==
  ASSUME IInv, status = "running", UNCHANGED M_max,
         NEW k \in Key, NEW v \in Value, M_cache[k] = Absent, Store(k, v)
  PROVE  IInv'
<1>1. /\ Kernel(M_data, M_cache, pair, M_max) /\ threw \in BOOLEAN
      /\ threw \/ (status = "running" /\ Exact(Listed, M_cache, pair))
      /\ Listed \in SUBSET Node /\ Len(M_data) \in Nat /\ M_max \in Nat /\ M_max \in Capacity
  BY KernelOfIInv
<1>2. PICK n \in Node \ Listed :
         /\ trim(Cons(n, M_data), [M_cache EXCEPT ![k] = n],
                 [pair EXCEPT ![n] = [key |-> k, val |-> v]])
         /\ Returns(TRUE, Begin(M_data'))
  BY DEF Store
<1> DEFINE s     == Cons(n, M_data)
           index == [M_cache EXCEPT ![k] = n]
           pairs == [pair EXCEPT ![n] = [key |-> k, val |-> v]]
<1>3. /\ s \in Seq(Node) /\ Len(s) = Len(M_data) + 1 /\ IsInjective(s) /\ ToSet(s) = {n} \cup Listed
  BY <1>1, ConsResult DEF Kernel, Listed
<1>4. M_cache[k] \notin Listed
  BY <1>1, NodeAssumption
<1>5. /\ index \in Index /\ pairs \in Pairs /\ Agrees({n} \cup Listed, index, pairs)
      /\ ExactBut(k, Listed, M_cache, pair) => Exact({n} \cup Listed, index, pairs)
  BY <1>1, <1>4, AddNode DEF Kernel, Listed
<1>6. Exact(Listed, M_cache, pair) => ExactBut(k, Listed, M_cache, pair)
  BY DEF Exact, ExactBut
<1>7. trim(s, index, pairs)
  BY <1>2
<1> HIDE DEF s, index, pairs
<1>8. Kernel(s, index, pairs, M_max + 1)
  <2>1. Len(s) <= M_max + 1
    BY <1>1, <1>3 DEF Kernel
  <2> QED BY <2>1, <1>3, <1>5 DEF Kernel
<1>9. /\ Kernel(M_data', M_cache', pair', M_max)
      /\ Exact(ToSet(s), index, pairs) => Exact(Listed', M_cache', pair')
  BY <1>1, <1>7, <1>8, TrimResult
<1>10. Begin(M_data') \in Node \cup {End}
  BY <1>9 DEF Begin, Kernel
<1>11. ret' \in [ok : BOOLEAN, at : Node \cup {End}] /\ status' = status /\ threw' = threw
  BY <1>2, <1>10, ReturnsResult
<1> QED BY <1>1, <1>3, <1>5, <1>6, <1>9, <1>11, IInvOfKernel

(* The index gets an entry that leads nowhere; the list is as it was. *)
LEMMA StoreThrowsKeeps ==
  ASSUME IInv, status = "running", NEW k \in Key, M_cache[k] = Absent, StoreThrows(k)
  PROVE  IInv'
<1>1. /\ Kernel(M_data, M_cache, pair, M_max) /\ M_max \in Capacity /\ Listed \in SUBSET Node
  BY KernelOfIInv
<1>2. /\ M_data' = M_data /\ pair' = pair /\ M_cache' = [M_cache EXCEPT ![k] = End] /\ Throws
  BY DEF StoreThrows
<1>3. M_cache' \in Index /\ Agrees(ToSet(M_data), M_cache', pair)
  BY <1>1, <1>2, NodeAssumption DEF Kernel, Agrees, Index, Listed, Pair
<1>4. Kernel(M_data', M_cache', pair', M_max)
  BY <1>1, <1>2, <1>3 DEF Kernel
<1>5. /\ ret' \in [ok : BOOLEAN, at : Node \cup {End}]
      /\ status' = status /\ threw' = TRUE /\ M_max' = M_max
  BY <1>2, ThrowsResult
<1> QED BY <1>1, <1>4, <1>5, IInvOfKernel

(* A node that is listed is erased from the list. *)
LEMMA ErasedResult ==
  ASSUME IInv, NEW n \in Listed
  PROVE  /\ RemoveAt(M_data, Position(n)) \in Seq(Node)
         /\ IsInjective(RemoveAt(M_data, Position(n)))
         /\ Len(RemoveAt(M_data, Position(n))) = Len(M_data) - 1
         /\ ToSet(RemoveAt(M_data, Position(n))) = Listed \ {n}
         /\ [pair EXCEPT ![n] = NoPair] \in Pairs
         /\ Agrees(Listed \ {n}, M_cache, [pair EXCEPT ![n] = NoPair])
         /\ n \in Node /\ Listed \in SUBSET Node
<1>1. /\ Kernel(M_data, M_cache, pair, M_max) /\ Listed \in SUBSET Node
  BY KernelOfIInv
<1>2. Position(n) \in DOMAIN M_data /\ M_data[Position(n)] = n
  BY PositionResult
<1>3. /\ RemoveAt(M_data, Position(n)) \in Seq(Node)
      /\ IsInjective(RemoveAt(M_data, Position(n)))
      /\ Len(RemoveAt(M_data, Position(n))) = Len(M_data) - 1
      /\ ToSet(RemoveAt(M_data, Position(n))) = Listed \ {n}
  BY <1>1, <1>2, RemoveResult DEF Kernel, Listed
<1>4. /\ [pair EXCEPT ![n] = NoPair] \in Pairs
      /\ Agrees(Listed \ {n}, M_cache, [pair EXCEPT ![n] = NoPair])
  BY <1>1 DEF Kernel, Agrees, Pairs, Listed
<1> QED BY <1>1, <1>3, <1>4

LEMMA EmplaceKeeps ==
  ASSUME IInv, NEW k \in Key, NEW v \in Value, Emplace(k, v)
  PROVE  IInv'
<1>1. /\ Kernel(M_data, M_cache, pair, M_max) /\ M_max \in Capacity
      /\ threw \/ (status = "running" /\ Exact(Listed, M_cache, pair))
      /\ threw \in BOOLEAN
  BY KernelOfIInv
<1>2. status = "running" /\ UNCHANGED M_max
  BY DEF Emplace
<1>3. CASE M_cache[k] = Absent /\ Store(k, v)
  BY <1>2, <1>3, StoreKeeps
<1>4. CASE M_cache[k] # Absent /\ Returns(FALSE, M_cache[k]) /\ UNCHANGED <<M_data, M_cache, pair>>
  <2>1. M_cache[k] \in Node \cup {End}
    BY <1>1, <1>4 DEF Kernel, Index
  <2>2. ret' \in [ok : BOOLEAN, at : Node \cup {End}] /\ status' = status /\ threw' = threw
    BY <1>4, <2>1, ReturnsResult
  <2> QED BY <1>1, <1>2, <1>4, <2>2, IInvOfKernel DEF Listed
<1> QED BY <1>3, <1>4 DEF Emplace

(* The node made anew is the only one the entry of its key leads to. *)
LEMMA ReassignKeeps ==
  ASSUME IInv, status = "running", NEW k \in Key, NEW v \in Value, M_cache[k] \in Listed,
         NEW n \in (Node \ Listed) \cup {M_cache[k]}, Reassign(k, v, n)
  PROVE  IInv'
<1> DEFINE old   == M_cache[k]
           s     == RemoveAt(M_data, Position(old))
           pairs == [pair EXCEPT ![old] = NoPair]
<1>1. /\ Kernel(M_data, M_cache, pair, M_max) /\ threw \in BOOLEAN
      /\ threw \/ (status = "running" /\ Exact(Listed, M_cache, pair))
      /\ Len(M_data) \in Nat /\ M_max \in Nat /\ M_max \in Capacity
  BY KernelOfIInv
<1>2. /\ s \in Seq(Node) /\ IsInjective(s) /\ Len(s) = Len(M_data) - 1 /\ ToSet(s) = Listed \ {old}
      /\ pairs \in Pairs /\ Agrees(Listed \ {old}, M_cache, pairs) /\ Listed \in SUBSET Node
  BY ErasedResult
<1>3. /\ M_data' = Cons(n, s)
      /\ pair' = [pairs EXCEPT ![n] = [key |-> k, val |-> v]]
      /\ M_cache' = [M_cache EXCEPT ![k] = n]
      /\ Returns(FALSE, n) /\ M_max' = M_max
  BY DEF Reassign
<1>4. n \in Node \ (Listed \ {old}) /\ M_cache[k] \notin Listed \ {old} /\ Listed \ {old} \in SUBSET Node
  BY <1>2
<1>5. Exact(Listed, M_cache, pair) => ExactBut(k, Listed \ {old}, M_cache, pairs)
  <2> SUFFICES ASSUME Exact(Listed, M_cache, pair), NEW j \in Key, j # k, M_cache[j] # Absent
               PROVE  M_cache[j] \in Listed \ {old} /\ pairs[M_cache[j]].key = j
    BY DEF ExactBut
  <2>1. M_cache[j] \in Listed /\ pair[M_cache[j]].key = j /\ pair[old].key = k
    BY NodeAssumption, <1>2 DEF Exact
  <2>2. M_cache[j] # old
    BY <2>1
  <2>3. pairs[M_cache[j]] = pair[M_cache[j]]
    BY <2>1, <2>2, <1>1, <1>2 DEF Kernel, Pairs
  <2> QED BY <2>1, <2>2, <2>3
<1> HIDE DEF old, s, pairs
<1>6. /\ M_data' \in Seq(Node) /\ IsInjective(M_data') /\ Len(M_data') = Len(s) + 1
      /\ ToSet(M_data') = {n} \cup (Listed \ {old})
  BY <1>2, <1>3, <1>4, ConsResult
<1>7. /\ M_cache' \in Index /\ pair' \in Pairs
      /\ Agrees({n} \cup (Listed \ {old}), M_cache', pair')
      /\ ExactBut(k, Listed \ {old}, M_cache, pairs) => Exact({n} \cup (Listed \ {old}), M_cache', pair')
  BY <1>1, <1>2, <1>3, <1>4, AddNode DEF Kernel
<1>8. Len(M_data') <= M_max'
  BY <1>1, <1>2, <1>3, <1>6 DEF Kernel
<1>9. Kernel(M_data', M_cache', pair', M_max')
  BY <1>6, <1>7, <1>8 DEF Kernel
<1>10. ret' \in [ok : BOOLEAN, at : Node \cup {End}] /\ status' = status /\ threw' = threw
  BY <1>3, <1>4, ReturnsResult
<1> QED BY <1>1, <1>3, <1>5, <1>6, <1>7, <1>9, <1>10, IInvOfKernel DEF Listed

LEMMA UndefinedKeeps ==
  ASSUME IInv, NEW k \in Key, M_cache[k] \notin Listed \cup {Absent}, Undefined
  PROVE  IInv'
<1>1. /\ Kernel(M_data, M_cache, pair, M_max) /\ M_max \in Capacity
      /\ threw \/ (status = "running" /\ Exact(Listed, M_cache, pair))
      /\ threw \in BOOLEAN
      /\ ret \in [ok : BOOLEAN, at : Node \cup {End}]
  BY KernelOfIInv
<1>2. threw
  BY <1>1 DEF Exact
<1>3. /\ status' = "undefined"
      /\ UNCHANGED <<M_data, M_cache, M_max, pair, ret, threw>>
  BY DEF Undefined
<1> QED BY <1>1, <1>2, <1>3, IInvOfKernel

LEMMA InsertOrAssignKeeps ==
  ASSUME IInv, NEW k \in Key, NEW v \in Value, InsertOrAssign(k, v)
  PROVE  IInv'
<1>1. CASE M_cache[k] = Absent /\ Store(k, v) /\ UNCHANGED M_max
  BY <1>1, StoreKeeps DEF InsertOrAssign
<1>2. CASE /\ M_cache[k] \in Listed
           /\ \E n \in (Node \ Listed) \cup {M_cache[k]} : Reassign(k, v, n)
  BY <1>2, ReassignKeeps DEF InsertOrAssign
<1>3. CASE M_cache[k] \notin Listed \cup {Absent} /\ Undefined
  BY <1>3, UndefinedKeeps
<1> QED BY <1>1, <1>2, <1>3 DEF InsertOrAssign

LEMMA AssignThrowsKeeps ==
  ASSUME IInv, NEW k \in Key, AssignThrows(k)
  PROVE  IInv'
<1>1. CASE M_cache[k] = Absent /\ StoreThrows(k)
  BY <1>1, StoreThrowsKeeps DEF AssignThrows
<1>2. CASE /\ M_cache[k] \in Listed
           /\ M_data' = RemoveAt(M_data, Position(M_cache[k]))
           /\ pair' = [pair EXCEPT ![M_cache[k]] = NoPair]
           /\ Throws
           /\ UNCHANGED M_cache
  <2>1. /\ Kernel(M_data, M_cache, pair, M_max) /\ Len(M_data) \in Nat /\ M_max \in Nat /\ M_max \in Capacity
    BY KernelOfIInv
  <2>2. /\ ret' \in [ok : BOOLEAN, at : Node \cup {End}]
        /\ status' = status /\ threw' = TRUE /\ M_max' = M_max /\ status = "running"
    BY <1>2, ThrowsResult DEF AssignThrows
  <2> DEFINE n == M_cache[k]
             s == RemoveAt(M_data, Position(n))
             p == [pair EXCEPT ![n] = NoPair]
  <2>4. /\ s \in Seq(Node) /\ IsInjective(s) /\ Len(s) = Len(M_data) - 1 /\ ToSet(s) = Listed \ {n}
        /\ p \in Pairs /\ Agrees(Listed \ {n}, M_cache, p)
    BY <1>2, ErasedResult
  <2>5. M_data' = s /\ pair' = p /\ M_cache' = M_cache
    BY <1>2
  <2> HIDE DEF n, s, p
  <2>6. Len(s) <= M_max
    BY <2>1, <2>4 DEF Kernel
  <2>3. Kernel(M_data', M_cache', pair', M_max')
    BY <2>1, <2>2, <2>4, <2>5, <2>6 DEF Kernel
  <2> QED BY <2>1, <2>2, <2>3, IInvOfKernel
<1> QED BY <1>1, <1>2 DEF AssignThrows

LEMMA FindKeeps ==
  ASSUME IInv, NEW k \in Key, Find(k)
  PROVE  IInv'
<1>1. /\ Kernel(M_data, M_cache, pair, M_max) /\ M_max \in Capacity
      /\ threw \/ (status = "running" /\ Exact(Listed, M_cache, pair))
      /\ threw \in BOOLEAN
  BY KernelOfIInv
<1>2. PICK ok \in BOOLEAN, at \in Node \cup {End} : Returns(ok, at)
  <2>1. CASE M_cache[k] = Absent
    BY <2>1 DEF Find
  <2>2. CASE M_cache[k] # Absent
    <3>1. M_cache[k] \in Node \cup {End}
      BY <1>1, <2>2 DEF Kernel, Index
    <3>2. PICK b \in BOOLEAN : b = (M_cache[k] # End)
      BY Zenon
    <3>3. Returns(M_cache[k] # End, M_cache[k])
      BY <2>2 DEF Find
    <3>4. Returns(b, M_cache[k])
      BY <3>2, <3>3, Zenon
    <3> QED BY <3>1, <3>4
  <2> QED BY <2>1, <2>2
<1>3. ret' \in [ok : BOOLEAN, at : Node \cup {End}] /\ status' = status /\ threw' = threw
  BY <1>2, ReturnsResult
<1>4. status = "running" /\ UNCHANGED <<M_data, M_cache, M_max, pair>>
  BY DEF Find
<1> QED BY <1>1, <1>3, <1>4, IInvOfKernel DEF Listed

(* Both erase: the node and the entry that leads to it. *)
LEMMA EraseNodeKeeps ==
  ASSUME IInv, status = "running", UNCHANGED M_max,
         NEW k \in Key, M_cache[k] \in Listed,
         NEW i \in DOMAIN M_data, M_data[i] = M_cache[k],
         M_data' = RemoveAt(M_data, i),
         M_cache' = [M_cache EXCEPT ![k] = Absent],
         pair' = [pair EXCEPT ![M_cache[k]] = NoPair],
         NEW at \in Node \cup {End}, Returns(TRUE, at)
  PROVE  IInv'
<1> DEFINE n == M_cache[k]
<1>1. /\ Kernel(M_data, M_cache, pair, M_max) /\ threw \in BOOLEAN
      /\ threw \/ (status = "running" /\ Exact(Listed, M_cache, pair))
      /\ Listed \in SUBSET Node /\ Len(M_data) \in Nat /\ M_max \in Nat /\ M_max \in Capacity
  BY KernelOfIInv
<1>2. /\ M_data' \in Seq(Node) /\ Len(M_data') = Len(M_data) - 1 /\ IsInjective(M_data')
      /\ ToSet(M_data') = Listed \ {n}
  BY <1>1, RemoveResult DEF Kernel, Listed
<1>3. /\ M_cache' \in Index /\ pair' \in Pairs /\ Agrees(Listed \ {n}, M_cache', pair')
      /\ Exact(Listed, M_cache, pair) => Exact(Listed \ {n}, M_cache', pair')
  BY <1>1, RemoveNode DEF Kernel, Listed
<1> HIDE DEF n
<1>4. Len(M_data') <= M_max'
  BY <1>1, <1>2 DEF Kernel
<1>5. Kernel(M_data', M_cache', pair', M_max')
  BY <1>2, <1>3, <1>4 DEF Kernel
<1>6. ret' \in [ok : BOOLEAN, at : Node \cup {End}] /\ status' = status /\ threw' = threw
  BY ReturnsResult
<1> QED BY <1>1, <1>2, <1>3, <1>5, <1>6, IInvOfKernel DEF Listed

LEMMA EraseKeeps ==
  ASSUME IInv, NEW k \in Key, Erase(k)
  PROVE  IInv'
<1>1. CASE M_cache[k] = Absent /\ Returns(FALSE, End) /\ UNCHANGED <<M_data, M_cache, M_max, pair>>
  <2>1. /\ Kernel(M_data, M_cache, pair, M_max) /\ M_max \in Capacity
        /\ threw \/ (status = "running" /\ Exact(Listed, M_cache, pair))
      /\ threw \in BOOLEAN
    BY KernelOfIInv
  <2>2. ret' \in [ok : BOOLEAN, at : Node \cup {End}] /\ status' = status /\ threw' = threw
    BY <1>1, ReturnsResult
  <2>3. status = "running"
    BY DEF Erase
  <2> QED BY <1>1, <2>1, <2>2, <2>3, IInvOfKernel DEF Listed
<1>2. CASE /\ M_cache[k] \in Listed
           /\ M_data' = RemoveAt(M_data, Position(M_cache[k]))
           /\ M_cache' = [M_cache EXCEPT ![k] = Absent]
           /\ pair' = [pair EXCEPT ![M_cache[k]] = NoPair]
           /\ Returns(TRUE, End)
           /\ UNCHANGED M_max
  <2>1. Position(M_cache[k]) \in DOMAIN M_data /\ M_data[Position(M_cache[k])] = M_cache[k]
    BY <1>2, PositionResult
  <2>2. status = "running"
    BY DEF Erase
  <2> QED BY <1>2, <2>1, <2>2, EraseNodeKeeps
<1>3. CASE M_cache[k] \notin Listed \cup {Absent} /\ Undefined
  BY <1>3, UndefinedKeeps
<1> QED BY <1>1, <1>2, <1>3 DEF Erase

LEMMA EraseAtKeeps ==
  ASSUME IInv, NEW i \in DOMAIN M_data, EraseAt(i)
  PROVE  IInv'
<1> DEFINE k == pair[M_data[i]].key
<1>1. /\ Kernel(M_data, M_cache, pair, M_max) /\ Listed \in SUBSET Node
  BY KernelOfIInv
<1>2. M_data[i] \in Listed
  BY DEF Listed, ToSet
<1>3. k \in Key /\ M_cache[k] = M_data[i]
  BY <1>1, <1>2 DEF Kernel, Agrees, Listed, Pair
<1>4. PICK at \in Node \cup {End} : Returns(TRUE, at)
  <2>1. CASE i = Len(M_data)
    BY <2>1 DEF EraseAt
  <2>2. CASE i # Len(M_data)
    <3>1. M_data[i + 1] \in Node
      BY <2>2, <1>1 DEF Kernel
    <3> QED BY <3>1, <2>2 DEF EraseAt
  <2> QED BY <2>1, <2>2
<1>5. /\ status = "running" /\ UNCHANGED M_max /\ M_data' = RemoveAt(M_data, i)
      /\ M_cache' = [M_cache EXCEPT ![k] = Absent] /\ pair' = [pair EXCEPT ![M_data[i]] = NoPair]
  BY DEF EraseAt
<1> HIDE DEF k
<1> QED BY <1>2, <1>3, <1>4, <1>5, EraseNodeKeeps

LEMMA ReserveKeeps ==
  ASSUME IInv, NEW n \in Capacity, Reserve(n)
  PROVE  IInv'
<1> DEFINE dropped == Listed \ ToSet(Kept(n))
<1>1. /\ Kernel(M_data, M_cache, pair, M_max) /\ threw \in BOOLEAN
      /\ threw \/ (status = "running" /\ Exact(Listed, M_cache, pair))
      /\ Listed \in SUBSET Node /\ Len(M_data) \in Nat
  BY KernelOfIInv
<1>2. /\ status = "running" /\ M_data' = Kept(n) /\ M_max' = n /\ Returns(FALSE, End)
      /\ M_cache' = [k \in Key |-> IF \E x \in dropped : pair[x].key = k THEN Absent ELSE M_cache[k]]
      /\ pair' = [x \in Node |-> IF x \in dropped THEN NoPair ELSE pair[x]]
  BY DEF Reserve
<1>3. n \in Nat
  BY CapacityAssumption
<1>4. /\ Kept(n) \in Seq(Node) /\ IsInjective(Kept(n)) /\ Len(Kept(n)) <= n /\ ToSet(Kept(n)) \subseteq Listed
  <2>1. CASE n < Len(M_data)
    <3>1. n \in 0 .. Len(M_data)
      BY <2>1, <1>1, <1>3
    <3>2. /\ Kept(n) \in Seq(Node) /\ Len(Kept(n)) = n /\ IsInjective(Kept(n))
          /\ ToSet(Kept(n)) = {M_data[j] : j \in 1 .. n}
      BY <2>1, <3>1, <1>1, PrefixResult DEF Kept, Kernel
    <3>3. 1 .. n \subseteq DOMAIN M_data
      BY <2>1, <1>1, <1>3 DEF Kernel
    <3>4. ToSet(Kept(n)) \subseteq Listed
      BY <3>2, <3>3 DEF Listed, ToSet
    <3> QED BY <3>2, <3>4, <1>3
  <2>2. CASE ~(n < Len(M_data))
    BY <2>2, <1>1, <1>3 DEF Kept, Kernel, Listed
  <2> QED BY <2>1, <2>2
<1> DEFINE kept == ToSet(Kept(n))
<1>5. M_cache' \in Index /\ pair' \in Pairs
  BY <1>1, <1>2 DEF Index, Pairs, Kernel
<1>6. Agrees(kept, M_cache', pair')
  <2> SUFFICES ASSUME NEW x \in kept PROVE pair'[x] \in Pair /\ M_cache'[pair'[x].key] = x
    BY DEF Agrees
  <2>1. x \in Listed /\ x \in Node /\ x \notin dropped
    BY <1>1, <1>4
  <2>2. pair'[x] = pair[x] /\ pair[x] \in Pair /\ M_cache[pair[x].key] = x
    BY <1>1, <1>2, <2>1 DEF Kernel, Agrees, Listed
  <2>3. ~ \E y \in dropped : pair[y].key = pair[x].key
    BY <1>1, <2>1, <2>2 DEF Kernel, Agrees, Listed
  <2>4. pair[x].key \in Key
    BY <2>2 DEF Pair
  <2> QED BY <1>2, <2>2, <2>3, <2>4
<1>7. Exact(Listed, M_cache, pair) => Exact(kept, M_cache', pair')
  <2> SUFFICES ASSUME Exact(Listed, M_cache, pair), NEW j \in Key, M_cache'[j] # Absent
               PROVE  M_cache'[j] \in kept /\ pair'[M_cache'[j]].key = j
    BY DEF Exact
  <2>1. M_cache'[j] = M_cache[j] /\ ~ \E x \in dropped : pair[x].key = j
    BY <1>2
  <2>2. M_cache[j] \in Listed /\ pair[M_cache[j]].key = j
    BY <2>1 DEF Exact
  <2>3. M_cache[j] \notin dropped
    BY <2>1, <2>2
  <2> QED BY <2>1, <2>2, <2>3, <1>1, <1>2
<1>8. Kernel(M_data', M_cache', pair', M_max')
  BY <1>2, <1>4, <1>5, <1>6 DEF Kernel
<1>9. ret' \in [ok : BOOLEAN, at : Node \cup {End}] /\ status' = status /\ threw' = threw
  BY <1>2, ReturnsResult
<1> QED BY <1>1, <1>2, <1>7, <1>8, <1>9, IInvOfKernel DEF Listed

(* No node, no entry. *)
LEMMA EmptyKernel ==
  ASSUME NEW max \in Nat
  PROVE  /\ Kernel(<<>>, [k \in Key |-> Absent], [n \in Node |-> NoPair], max)
         /\ Exact(ToSet(<<>>), [k \in Key |-> Absent], [n \in Node |-> NoPair])
<1>1. /\ [k \in Key |-> Absent] \in Index /\ [n \in Node |-> NoPair] \in Pairs
      /\ Exact(ToSet(<<>>), [k \in Key |-> Absent], [n \in Node |-> NoPair])
  BY DEF Index, Pairs, Exact
<1>2. <<>> \in Seq(Node) /\ Len(<<>>) = 0 /\ DOMAIN <<>> = {}
  BY EmptySeq
<1>3. IsInjective(<<>>) /\ ToSet(<<>>) = {}
  BY <1>2 DEF IsInjective, ToSet
<1>4. Len(<<>>) <= max
  BY <1>2
<1> QED BY <1>1, <1>2, <1>3, <1>4 DEF Kernel, Agrees

LEMMA EraseEndKeeps ==
  ASSUME IInv, EraseEnd
  PROVE  IInv'
BY DEF EraseEnd, Returns, IInv, TypeOK, ListIndexed, SizeBounded, IndexExact, Listed

LEMMA ClearKeeps ==
  ASSUME IInv, Clear
  PROVE  IInv'
<1>1. M_max \in Nat /\ M_max \in Capacity
  BY KernelOfIInv
<1>2. /\ status' = "running" /\ M_max' = M_max /\ M_data' = <<>> /\ threw' = FALSE
      /\ M_cache' = [k \in Key |-> Absent] /\ pair' = [n \in Node |-> NoPair]
      /\ ret' \in [ok : BOOLEAN, at : Node \cup {End}]
  BY DEF Clear, NoCall
<1>3. /\ Kernel(M_data', M_cache', pair', M_max')
      /\ Exact(Listed', M_cache', pair')
  BY <1>1, <1>2, EmptyKernel DEF Listed
<1> QED BY <1>1, <1>2, <1>3, IInvOfKernel

LEMMA InitIInv == Init => IInv
<1> SUFFICES ASSUME Init PROVE IInv
  OBVIOUS
<1>1. /\ status = "running" /\ M_max \in Capacity /\ M_max \in Nat /\ M_data = <<>> /\ threw = FALSE
      /\ M_cache = [k \in Key |-> Absent] /\ pair = [n \in Node |-> NoPair]
      /\ ret \in [ok : BOOLEAN, at : Node \cup {End}]
  BY CapacityAssumption DEF Init, NoCall
<1>2. Kernel(M_data, M_cache, pair, M_max) /\ Exact(Listed, M_cache, pair)
  BY <1>1, EmptyKernel DEF Listed
<1> QED BY <1>1, <1>2 DEF IInv, TypeOK, Index, Pairs, Kernel, ListIndexed, SizeBounded, IndexExact,
                          Agrees, Exact, Listed

(* Every call, thrown out of or not, keeps the invariant. *)
LEMMA NextIInv == IInv /\ [Next]_vars => IInv'
<1> SUFFICES ASSUME IInv, [Next]_vars PROVE IInv'
  OBVIOUS
<1>1. ASSUME NEW k \in Key, NEW v \in Value, Emplace(k, v) PROVE IInv'
  BY <1>1, EmplaceKeeps
<1>2. ASSUME NEW k \in Key, NEW v \in Value, InsertOrAssign(k, v) PROVE IInv'
  BY <1>2, InsertOrAssignKeeps
<1>3. ASSUME NEW k \in Key, EmplaceThrows(k) PROVE IInv'
  BY <1>3, StoreThrowsKeeps DEF EmplaceThrows
<1>4. ASSUME NEW k \in Key, AssignThrows(k) PROVE IInv'
  BY <1>4, AssignThrowsKeeps
<1>5. ASSUME NEW k \in Key, Find(k) PROVE IInv'
  BY <1>5, FindKeeps
<1>6. ASSUME NEW k \in Key, Erase(k) PROVE IInv'
  BY <1>6, EraseKeeps
<1>7. ASSUME NEW i \in DOMAIN M_data, EraseAt(i) PROVE IInv'
  BY <1>7, EraseAtKeeps
<1>8. ASSUME NEW n \in Capacity, Reserve(n) PROVE IInv'
  BY <1>8, ReserveKeeps
<1>9. CASE Clear
  BY <1>9, ClearKeeps
<1>10. CASE UNCHANGED vars
  BY <1>10 DEF vars, IInv, TypeOK, ListIndexed, SizeBounded, IndexExact, Listed
<1>11. CASE EraseEnd
  BY <1>11, EraseEndKeeps
<1> QED BY <1>1, <1>2, <1>3, <1>4, <1>5, <1>6, <1>7, <1>8, <1>9, <1>10, <1>11 DEF Next

LEMMA Invariance == Spec => []IInv
BY InitIInv, NextIInv, PTL DEF Spec

-----------------------------------------------------------------------------
(* List, index and maximum have their types after every call. *)
THEOREM LruTypeCorrect == Spec => []TypeOK
<1>1. IInv => TypeOK
  BY DEF IInv
<1> QED BY <1>1, Invariance, PTL

(* insert, insert_or_assign, erase, trim and reserve keep every element of *)
(* the list indexed under its key, even when emplace_front throws between  *)
(* the change of the index and that of the list.                           *)
THEOREM ListAndIndexAgree == Spec => []ListIndexed
<1>1. IInv => ListIndexed
  BY DEF IInv
<1> QED BY <1>1, Invariance, PTL

(* The one removal of trim and the loop of reserve keep the map within its *)
(* maximum.                                                                *)
THEOREM NeverTooLarge == Spec => []SizeBounded
<1>1. IInv => SizeBounded
  BY DEF IInv
<1> QED BY <1>1, Invariance, PTL

(* Without an exception the index has no entry that leads nowhere, and so  *)
(* no call accesses what is no element.                                    *)
THEOREM IndexLeadsToList == Spec => []IndexExact
<1>1. IInv => IndexExact
  BY DEF IInv
<1> QED BY <1>1, Invariance, PTL

-----------------------------------------------------------------------------
(* The list with its index implements the list alone: every call that does *)
(* not throw is a call of LeastRecent.  The refinement mapping reads the   *)
(* pairs off the nodes of the list; it is UnorderedMapLru that has LR.     *)

(* The pairs the nodes of list s hold. *)
OrderOf(s, pairs) == [i \in DOMAIN s |-> pairs[s[i]]]

Shown == OrderOf(M_data, pair)

Said == [ok |-> ret.ok, val |-> IF ret.at \in Listed THEN pair[ret.at].val ELSE None]

-----------------------------------------------------------------------------
(* What the calls do to the list of pairs. *)

LEMMA OrderType ==
  ASSUME NEW s \in Seq(Node), NEW pairs, \A n \in ToSet(s) : pairs[n] \in Pair
  PROVE  /\ OrderOf(s, pairs) \in Seq(Pair) /\ Len(OrderOf(s, pairs)) = Len(s)
         /\ DOMAIN OrderOf(s, pairs) = 1 .. Len(s)
         /\ \A i \in 1 .. Len(s) : OrderOf(s, pairs)[i] = pairs[s[i]]
<1>1. DOMAIN s = 1 .. Len(s) /\ Len(s) \in Nat
  OBVIOUS
<1>2. \A i \in DOMAIN s : pairs[s[i]] \in Pair
  BY DEF ToSet
<1> QED  BY <1>1, <1>2 DEF OrderOf

LEMMA OrderCons ==
  ASSUME NEW s \in Seq(Node), NEW pairs \in Pairs, \A n \in ToSet(s) : pairs[n] \in Pair,
         NEW x \in Node, x \notin ToSet(s), NEW p \in Pair
  PROVE  OrderOf(Cons(x, s), [pairs EXCEPT ![x] = p]) = Cons(p, OrderOf(s, pairs))
<1> DEFINE o == OrderOf(s, pairs)
           q == [pairs EXCEPT ![x] = p]
<1>1. /\ o \in Seq(Pair) /\ Len(o) = Len(s)
      /\ \A i \in 1 .. Len(s) : o[i] = pairs[s[i]]
  BY OrderType
<1>2. q[x] = p /\ \A n \in ToSet(s) : q[n] = pairs[n]
  <2>1. ToSet(s) \subseteq Node
    BY DEF ToSet
  <2> QED  BY <2>1 DEF Pairs
<1> HIDE DEF o, q
<1>3. /\ DOMAIN Cons(x, s) = 1 .. Len(s) + 1
      /\ \A i \in 1 .. Len(s) + 1 : Cons(x, s)[i] = IF i = 1 THEN x ELSE s[i - 1]
  BY ONLY s \in Seq(Node), x \in Node, ConsElements
<1>4. /\ Cons(p, o) \in Seq(Pair)
      /\ DOMAIN Cons(p, o) = 1 .. Len(s) + 1
      /\ \A i \in 1 .. Len(s) + 1 : Cons(p, o)[i] = IF i = 1 THEN p ELSE o[i - 1]
  BY ONLY <1>1, p \in Pair, ConsElements
<1>5. ASSUME NEW i \in 1 .. Len(s) + 1, i # 1 PROVE i - 1 \in 1 .. Len(s) /\ s[i - 1] \in ToSet(s)
  <2>1. Len(s) \in Nat /\ DOMAIN s = 1 .. Len(s)
    OBVIOUS
  <2>2. i - 1 \in 1 .. Len(s)
    BY <1>5, <2>1
  <2> QED  BY <2>1, <2>2 DEF ToSet
<1>6. ASSUME NEW i \in 1 .. Len(s) + 1 PROVE q[Cons(x, s)[i]] = Cons(p, o)[i]
  <2>1. CASE i = 1
    BY <1>2, <1>3, <1>4, <2>1
  <2>2. CASE i # 1
    <3>1. Cons(x, s)[i] = s[i - 1] /\ Cons(p, o)[i] = o[i - 1]
      BY <1>3, <1>4, <2>2
    <3>2. q[s[i - 1]] = pairs[s[i - 1]] /\ o[i - 1] = pairs[s[i - 1]]
      BY <1>1, <1>2, <1>5, <2>2
    <3> QED  BY <3>1, <3>2
  <2> QED  BY <2>1, <2>2
<1>7. Cons(p, o) = [i \in 1 .. Len(s) + 1 |-> Cons(p, o)[i]]
  BY <1>4
<1>8. OrderOf(Cons(x, s), q) = [i \in 1 .. Len(s) + 1 |-> q[Cons(x, s)[i]]]
  BY <1>3 DEF OrderOf
<1> QED  BY <1>6, <1>7, <1>8 DEF o, q

LEMMA OrderRemove ==
  ASSUME NEW s \in Seq(Node), IsInjective(s),
         NEW pairs \in Pairs, \A n \in ToSet(s) : pairs[n] \in Pair,
         NEW i \in DOMAIN s
  PROVE  OrderOf(RemoveAt(s, i), [pairs EXCEPT ![s[i]] = NoPair]) = RemoveAt(OrderOf(s, pairs), i)
<1> DEFINE o == OrderOf(s, pairs)
           q == [pairs EXCEPT ![s[i]] = NoPair]
           r == RemoveAt(s, i)
<1>1. /\ o \in Seq(Pair) /\ Len(o) = Len(s) /\ DOMAIN o = DOMAIN s
      /\ \A j \in 1 .. Len(s) : o[j] = pairs[s[j]]
  BY OrderType
<1>2. \A j \in DOMAIN s : j # i => q[s[j]] = pairs[s[j]]
  <2>1. \A j \in DOMAIN s : s[j] \in Node /\ (s[j] = s[i] => j = i)
    BY DEF IsInjective
  <2> QED  BY <2>1 DEF Pairs
<1> HIDE DEF o, q
<1>3. /\ DOMAIN r = 1 .. Len(s) - 1
      /\ \A j \in 1 .. Len(s) - 1 : r[j] = IF j < i THEN s[j] ELSE s[j + 1]
  BY RemoveElements
<1> HIDE DEF r
<1>4. /\ RemoveAt(o, i) \in Seq(Pair)
      /\ DOMAIN RemoveAt(o, i) = 1 .. Len(s) - 1
      /\ \A j \in 1 .. Len(s) - 1 : RemoveAt(o, i)[j] = IF j < i THEN o[j] ELSE o[j + 1]
  <2>1. o \in Seq(Pair) /\ i \in DOMAIN o
    BY <1>1
  <2>2. /\ RemoveAt(o, i) \in Seq(Pair)
        /\ DOMAIN RemoveAt(o, i) = 1 .. Len(o) - 1
        /\ \A j \in 1 .. Len(o) - 1 : RemoveAt(o, i)[j] = IF j < i THEN o[j] ELSE o[j + 1]
    BY ONLY <2>1, RemoveElements
  <2> QED  BY <1>1, <2>2
<1>5. DOMAIN s = 1 .. Len(s) /\ Len(s) \in Nat
  OBVIOUS
<1>6. ASSUME NEW j \in 1 .. Len(s) - 1
      PROVE  q[r[j]] = RemoveAt(o, i)[j]
  <2>1. j \in DOMAIN s /\ j + 1 \in DOMAIN s /\ (j < i => j # i) /\ (~(j < i) => j + 1 # i)
    BY <1>5
  <2> QED  BY <1>1, <1>2, <1>3, <1>4, <1>5, <2>1
<1>7. RemoveAt(o, i) = [j \in 1 .. Len(s) - 1 |-> RemoveAt(o, i)[j]]
  BY <1>4
<1>8. OrderOf(r, q) = [j \in 1 .. Len(s) - 1 |-> q[r[j]]]
  BY <1>3 DEF OrderOf
<1> QED  BY <1>6, <1>7, <1>8 DEF o, q, r

LEMMA OrderPrefix ==
  ASSUME NEW s \in Seq(Node), NEW pairs, \A n \in ToSet(s) : pairs[n] \in Pair,
         NEW n \in Nat, n <= Len(s),
         NEW others, \A j \in DOMAIN s : j <= n => others[s[j]] = pairs[s[j]]
  PROVE  OrderOf(SubSeq(s, 1, n), others) = SubSeq(OrderOf(s, pairs), 1, n)
<1> DEFINE o == OrderOf(s, pairs)
<1>1. /\ o \in Seq(Pair) /\ Len(o) = Len(s)
      /\ \A j \in 1 .. Len(s) : o[j] = pairs[s[j]]
  BY OrderType
<1> HIDE DEF o
<1>2. 1 .. n \subseteq 1 .. Len(s) /\ n \in Nat /\ Len(s) \in Nat /\ DOMAIN s = 1 .. Len(s)
  OBVIOUS
<1>3. DOMAIN SubSeq(s, 1, n) = 1 .. n /\ \A j \in 1 .. n : SubSeq(s, 1, n)[j] = s[j]
  BY <1>2, SubSeqProperties
<1>4. /\ SubSeq(o, 1, n) \in Seq(Pair)
      /\ DOMAIN SubSeq(o, 1, n) = 1 .. n /\ \A j \in 1 .. n : SubSeq(o, 1, n)[j] = o[j]
  <2>1. DOMAIN o = 1 .. Len(s)
    BY <1>1
  <2> QED  BY <1>1, <1>2, <2>1, SubSeqProperties
<1>5. \A j \in 1 .. n : others[SubSeq(s, 1, n)[j]] = SubSeq(o, 1, n)[j]
  BY <1>1, <1>2, <1>3, <1>4
<1>6. SubSeq(o, 1, n) = [j \in 1 .. n |-> SubSeq(o, 1, n)[j]]
  BY <1>4
<1> QED  BY <1>3, <1>5, <1>6 DEF OrderOf, o

LEMMA OrderFront ==
  ASSUME NEW s \in Seq(Node), IsInjective(s), Len(s) > 0,
         NEW pairs \in Pairs, \A n \in ToSet(s) : pairs[n] \in Pair
  PROVE  OrderOf(Front(s), [pairs EXCEPT ![Last(s)] = NoPair])
           = SubSeq(OrderOf(s, pairs), 1, Len(s) - 1)
<1> DEFINE n      == Len(s) - 1
           others == [pairs EXCEPT ![Last(s)] = NoPair]
<1>1. n \in Nat /\ n <= Len(s) /\ DOMAIN s = 1 .. n + 1 /\ Len(s) = n + 1
  OBVIOUS
<1>2. Front(s) = SubSeq(s, 1, n) /\ Last(s) = s[n + 1]
  BY <1>1 DEF Front, Last
<1>3. \A x \in Node : x # Last(s) => others[x] = pairs[x]
  BY DEF Pairs
<1> HIDE DEF n, others
<1>4. ASSUME NEW j \in DOMAIN s, j <= n PROVE others[s[j]] = pairs[s[j]]
  <2>1. j # n + 1 /\ n + 1 \in DOMAIN s
    BY <1>1, <1>4
  <2>2. s[j] \in Node /\ s[j] # s[n + 1]
    BY <2>1 DEF IsInjective
  <2> QED  BY <1>2, <1>3, <2>2
<1>5. OrderOf(SubSeq(s, 1, n), others) = SubSeq(OrderOf(s, pairs), 1, n)
  BY <1>1, <1>4, OrderPrefix
<1> QED  BY <1>2, <1>5 DEF n, others

-----------------------------------------------------------------------------
(* Where the index leads is where LeastRecent finds a key. *)

LEMMA Basics ==
  ASSUME IInv
  PROVE  /\ M_data \in Seq(Node) /\ IsInjective(M_data) /\ pair \in Pairs
         /\ Listed = ToSet(M_data) /\ Listed \in SUBSET Node
         /\ \A n \in Listed : pair[n] \in Pair /\ M_cache[pair[n].key] = n
         /\ Len(M_data) \in Nat /\ M_max \in Nat /\ Len(M_data) <= M_max
         /\ threw \/ Exact(Listed, M_cache, pair)
         /\ threw \in BOOLEAN
BY KernelOfIInv DEF Kernel, Agrees, Listed

LEMMA ShownType ==
  ASSUME IInv
  PROVE  /\ Shown \in Seq(Pair) /\ Len(Shown) = Len(M_data) /\ DOMAIN Shown = DOMAIN M_data
         /\ \A i \in DOMAIN M_data : Shown[i] = pair[M_data[i]]
BY Basics, OrderType DEF Shown

LEMMA PlaceOf ==
  ASSUME IInv, NEW k \in Key, M_cache[k] \in Listed, pair[M_cache[k]].key = k
  PROVE  /\ LR!Present(k)
         /\ LR!Place(k) = Position(M_cache[k])
         /\ LR!Lookup(k) = pair[M_cache[k]].val
<1> DEFINE i == Position(M_cache[k])
<1>1. i \in DOMAIN M_data /\ M_data[i] = M_cache[k]
  BY PositionResult
<1> HIDE DEF i
<1>2. ASSUME NEW j \in DOMAIN M_data, pair[M_data[j]].key = k PROVE j = i
  <2>1. M_data[j] \in Listed
    BY DEF Listed, ToSet
  <2>2. M_cache[k] = M_data[j]
    BY <1>2, <2>1, Basics
  <2> QED  BY <1>1, <2>2, Basics DEF IsInjective
<1>3. LR!Places(k) = {i}
  BY <1>1, <1>2 DEF LR!Places
<1>4. LR!Present(k) /\ LR!Place(k) = i
  BY <1>3 DEF LR!Present, LR!Place
<1>5. LR!Lookup(k) = pair[M_cache[k]].val
  BY <1>1, <1>4 DEF LR!Lookup
<1> QED  BY <1>4, <1>5 DEF i

LEMMA NoPlaceOf ==
  ASSUME IInv, NEW k \in Key, M_cache[k] = Absent
  PROVE  ~LR!Present(k) /\ LR!Lookup(k) = None
<1>1. ASSUME NEW j \in DOMAIN M_data, pair[M_data[j]].key = k PROVE FALSE
  <2>1. M_data[j] \in Listed
    BY DEF Listed, ToSet
  <2>2. M_cache[k] = M_data[j] /\ M_data[j] \in Node
    BY <1>1, <2>1, Basics
  <2> QED  BY <2>2, NodeAssumption
<1>2. LR!Places(k) = {}
  BY <1>1 DEF LR!Places
<1> QED  BY <1>2 DEF LR!Present, LR!Lookup

(* What a call that returns has said. *)
LEMMA SaidNext ==
  ASSUME NEW ok \in BOOLEAN, NEW at, Returns(ok, at)
  PROVE  /\ at \in Listed' => Said' = [ok |-> ok, val |-> pair'[at].val]
         /\ at \notin Listed' => Said' = [ok |-> ok, val |-> None]
         /\ threw' = threw
<1>1. ret' = [ok |-> ok, at |-> at] /\ threw' = threw
  BY DEF Returns
<1>2. ret'.ok = ok /\ ret'.at = at
  BY <1>1
<1>3. Said' = [ok |-> ret'.ok, val |-> IF ret'.at \in Listed' THEN pair'[ret'.at].val ELSE None]
  BY DEF Said
<1> QED  BY <1>1, <1>2, <1>3

-----------------------------------------------------------------------------
(* The calls of LeastRecent, in terms of what is shown and said. *)

LEMMA IsFind ==
  ASSUME NEW k, NEW b \in BOOLEAN, b <=> LR!Present(k),
         Said' = [ok |-> b, val |-> LR!Lookup(k)], Shown' = Shown, M_max' = M_max
  PROVE  LR!Find(k)
<1>1. b = LR!Present(k)
  BY Zenon DEF LR!Present
<1>2. Said' = [ok |-> LR!Present(k), val |-> LR!Lookup(k)]
  BY <1>1, Zenon
<1> QED  BY <1>2, Zenon DEF LR!Find, Said, Shown, OrderOf

LEMMA IsErase ==
  ASSUME NEW k, NEW b \in BOOLEAN, b <=> LR!Present(k),
         Said' = [ok |-> b, val |-> None], M_max' = M_max,
         b => Shown' = RemoveAt(Shown, LR!Place(k)), ~b => Shown' = Shown
  PROVE  LR!Erase(k)
<1>1. b = LR!Present(k)
  BY Zenon DEF LR!Present
<1>2. Said' = [ok |-> LR!Present(k), val |-> None]
  BY <1>1, Zenon
<1>3. Shown' = IF LR!Present(k) THEN RemoveAt(Shown, LR!Place(k)) ELSE Shown
  BY Zenon
<1> QED  BY <1>2, <1>3, Zenon DEF LR!Erase, RemoveAt, LR!RemoveAt, Said, Shown, OrderOf

LEMMA IsEraseAt ==
  ASSUME NEW i, M_max' = M_max, Shown' = RemoveAt(Shown, i),
         Said' = [ok |-> TRUE, val |-> LR!ValueAt(Shown', i)]
  PROVE  LR!EraseAt(i)
BY Zenon DEF LR!EraseAt, RemoveAt, LR!RemoveAt, Said, Shown, OrderOf

LEMMA IsStore ==
  ASSUME NEW k, NEW v, Shown' = LR!Cut(Cons(LR!Pair(k, v), Shown)),
         Said' = [ok |-> TRUE, val |-> LR!ValueAt(Shown', 1)]
  PROVE  LR!Store(k, v)
BY Zenon DEF LR!Store, Cons, LR!Cons, Said, Shown, OrderOf

LEMMA IsPresent ==
  ASSUME NEW k, NEW v, LR!Present(k), Said' = [ok |-> FALSE, val |-> LR!Lookup(k)],
         Shown' = Shown, M_max' = M_max
  PROVE  LR!Emplace(k, v)
BY Zenon DEF LR!Emplace, Said, Shown, OrderOf

LEMMA IsReassign ==
  ASSUME NEW k, NEW v, LR!Present(k), Said' = [ok |-> FALSE, val |-> v], M_max' = M_max,
         Shown' = Cons(LR!Pair(k, v), RemoveAt(Shown, LR!Place(k)))
  PROVE  LR!InsertOrAssign(k, v)
BY Zenon DEF LR!InsertOrAssign, Cons, LR!Cons, RemoveAt, LR!RemoveAt, Said, Shown, OrderOf

LEMMA IsReserve ==
  ASSUME NEW n, M_max' = n, Said' = [ok |-> FALSE, val |-> None],
         Shown' = IF n < Len(Shown) THEN SubSeq(Shown, 1, n) ELSE Shown
  PROVE  LR!Reserve(n)
BY Zenon DEF LR!Reserve, Said, Shown, OrderOf

LEMMA IsEraseEnd ==
  ASSUME Shown' = Shown, Said' = [ok |-> FALSE, val |-> None], M_max' = M_max
  PROVE  LR!EraseEnd
BY Zenon DEF LR!EraseEnd, Said, Shown, OrderOf

LEMMA IsClear ==
  ASSUME Shown' = <<>>, Said' = [ok |-> FALSE, val |-> None], M_max' = M_max
  PROVE  LR!Clear
BY Zenon DEF LR!Clear, Said, Shown, OrderOf

-----------------------------------------------------------------------------
(* Every call that does not throw is one of LeastRecent. *)

LEMMA ShownNext ==
  ASSUME IInv'
  PROVE  /\ DOMAIN Shown' = DOMAIN M_data' /\ DOMAIN M_data' = 1 .. Len(M_data')
         /\ \A i \in DOMAIN M_data' : Shown'[i] = pair'[M_data'[i]] /\ M_data'[i] \in Listed'
         /\ Listed' \in SUBSET Node /\ Len(M_data') \in Nat
<1>1. M_data' \in Seq(Node)
  BY DEF IInv, TypeOK
<1>2. Shown' = [i \in DOMAIN M_data' |-> pair'[M_data'[i]]]
  BY DEF Shown, OrderOf
<1>3. Listed' = ToSet(M_data')
  BY DEF Listed
<1> QED  BY <1>1, <1>2, <1>3 DEF ToSet

LEMMA EntryLeads ==
  ASSUME IInv, ~threw, NEW k \in Key, M_cache[k] # Absent
  PROVE  M_cache[k] \in Listed /\ pair[M_cache[k]].key = k
BY Basics DEF Exact

LEMMA StoreRefines ==
  ASSUME IInv, IInv', UNCHANGED M_max,
         NEW k \in Key, NEW v \in Value, M_cache[k] = Absent, Store(k, v)
  PROVE  LR!Store(k, v)
<1>1. PICK n \in Node \ Listed :
         /\ trim(Cons(n, M_data), [M_cache EXCEPT ![k] = n],
                 [pair EXCEPT ![n] = [key |-> k, val |-> v]])
         /\ Returns(TRUE, Begin(M_data'))
  BY DEF Store
<1> DEFINE p     == [key |-> k, val |-> v]
           s     == Cons(n, M_data)
           pairs == [pair EXCEPT ![n] = p]
           c     == Cons(p, Shown)
<1>2. p \in Pair /\ p = LR!Pair(k, v)
  BY DEF Pair, LR!Pair
<1>3. /\ s \in Seq(Node) /\ Len(s) = Len(M_data) + 1 /\ IsInjective(s)
      /\ ToSet(s) = {n} \cup Listed
  BY Basics, ConsResult
<1>4. pairs \in Pairs /\ \A x \in ToSet(s) : pairs[x] \in Pair
  <2>1. \A x \in Node : pairs[x] = IF x = n THEN p ELSE pair[x]
    BY Basics DEF Pairs
  <2> HIDE DEF p, s
  <2> QED  BY <1>2, <1>3, <2>1, Basics DEF Pairs
<1>5. OrderOf(s, pairs) = c
  BY <1>2, Basics, OrderCons DEF Shown
<1>6. \/ ~(Len(s) > M_max) /\ M_data' = s /\ pair' = pairs
      \/ Len(s) > M_max /\ M_data' = Front(s) /\ pair' = [pairs EXCEPT ![Last(s)] = NoPair]
  BY <1>1 DEF trim
<1> HIDE DEF p, s, pairs, c
<1>7. Len(c) = Len(s) /\ c \in Seq(Pair)
  <2>1. OrderOf(s, pairs) \in Seq(Pair) /\ Len(OrderOf(s, pairs)) = Len(s)
    BY <1>3, <1>4, OrderType
  <2> QED  BY <1>5, <2>1
<1>8. Shown' = LR!Cut(c)
  <2>1. CASE ~(Len(s) > M_max) /\ M_data' = s /\ pair' = pairs
    <3>1. Shown' = OrderOf(M_data', pair')
      BY DEF Shown, OrderOf
    <3>2. Shown' = c
      BY <1>5, <2>1, <3>1
    <3> QED  BY <1>7, <2>1, <3>2 DEF LR!Cut
  <2>2. CASE Len(s) > M_max /\ M_data' = Front(s) /\ pair' = [pairs EXCEPT ![Last(s)] = NoPair]
    <3>1. Len(s) = M_max + 1 /\ M_max \in Nat /\ DOMAIN s = 1 .. M_max + 1
      BY <1>3, <2>2, Basics
    <3>2. OrderOf(Front(s), [pairs EXCEPT ![Last(s)] = NoPair]) = SubSeq(OrderOf(s, pairs), 1, Len(s) - 1)
      <4>1. Len(s) > 0
        BY <3>1
      <4>2. s \in Seq(Node) /\ IsInjective(s) /\ pairs \in Pairs /\ \A x \in ToSet(s) : pairs[x] \in Pair
        BY <1>3, <1>4
      <4> QED  BY ONLY <4>1, <4>2, OrderFront
    <3>3. Len(s) - 1 = M_max
      BY <3>1
    <3>6. Shown' = OrderOf(M_data', pair')
      BY DEF Shown, OrderOf
    <3>7. Shown' = SubSeq(c, 1, M_max)
      BY <1>5, <2>2, <3>2, <3>3, <3>6
    <3> QED  BY <1>7, <2>2, <3>7 DEF LR!Cut
  <2> QED  BY <1>6, <2>1, <2>2
<1>9. Said' = [ok |-> TRUE, val |-> LR!ValueAt(Shown', 1)]
  <2>1. CASE M_data' = <<>>
    <3>1. Begin(M_data') = End /\ End \notin Listed' /\ DOMAIN M_data' = {}
      BY <2>1, ShownNext, NodeAssumption DEF Begin
    <3>2. LR!ValueAt(Shown', 1) = None
      BY <3>1, ShownNext DEF LR!ValueAt
    <3> QED  BY <1>1, <3>1, <3>2, SaidNext
  <2>2. CASE M_data' # <<>>
    <3>1. M_data' \in Seq(Node)
      BY DEF IInv, TypeOK
    <3>2. 1 \in DOMAIN M_data' /\ Begin(M_data') = M_data'[1]
      BY <2>2, <3>1 DEF Begin
    <3>3. LR!ValueAt(Shown', 1) = pair'[M_data'[1]].val /\ M_data'[1] \in Listed'
      BY <3>2, ShownNext DEF LR!ValueAt
    <3> QED  BY <1>1, <3>2, <3>3, SaidNext
  <2> QED  BY <2>1, <2>2
<1>10. Shown' = LR!Cut(Cons(LR!Pair(k, v), Shown))
  BY <1>2, <1>8 DEF c
<1> QED  BY <1>9, <1>10, IsStore

LEMMA ShownSame ==
  ASSUME UNCHANGED <<M_data, pair>>
  PROVE  Shown' = Shown /\ Listed' = Listed
BY DEF Shown, OrderOf, Listed

LEMMA EmplaceRefines ==
  ASSUME IInv, IInv', ~threw, NEW k \in Key, NEW v \in Value, Emplace(k, v)
  PROVE  LR!Emplace(k, v)
<1>1. M_max' = M_max
  BY DEF Emplace
<1>2. CASE M_cache[k] = Absent /\ Store(k, v)
  <2>1. ~LR!Present(k)
    BY <1>2, NoPlaceOf
  <2>2. LR!Store(k, v)
    BY <1>1, <1>2, StoreRefines
  <2> QED  BY <1>1, <2>1, <2>2 DEF LR!Emplace
<1>3. CASE M_cache[k] # Absent /\ Returns(FALSE, M_cache[k]) /\ UNCHANGED <<M_data, M_cache, pair>>
  <2>1. M_cache[k] \in Listed /\ pair[M_cache[k]].key = k
    BY <1>3, EntryLeads
  <2>2. LR!Present(k) /\ LR!Lookup(k) = pair[M_cache[k]].val
    BY <2>1, PlaceOf
  <2>3. Shown' = Shown /\ Listed' = Listed
    BY <1>3, ShownSame
  <2>4. Said' = [ok |-> FALSE, val |-> pair'[M_cache[k]].val]
    BY <1>3, <2>1, <2>3, SaidNext
  <2>5. Said' = [ok |-> FALSE, val |-> LR!Lookup(k)]
    BY <1>3, <2>2, <2>4
  <2> QED  BY <1>1, <2>2, <2>3, <2>5, IsPresent
<1> QED  BY <1>2, <1>3 DEF Emplace

LEMMA ReassignRefines ==
  ASSUME IInv, IInv', ~threw, NEW k \in Key, NEW v \in Value, M_cache[k] \in Listed,
         NEW n \in (Node \ Listed) \cup {M_cache[k]}, Reassign(k, v, n)
  PROVE  LR!InsertOrAssign(k, v)
<1> DEFINE old   == M_cache[k]
           s     == RemoveAt(M_data, Position(old))
           p     == [key |-> k, val |-> v]
           pairs == [pair EXCEPT ![old] = NoPair]
<1>1. /\ s \in Seq(Node) /\ IsInjective(s) /\ ToSet(s) = Listed \ {old}
      /\ pairs \in Pairs /\ Agrees(Listed \ {old}, M_cache, pairs) /\ Listed \in SUBSET Node
  BY ErasedResult
<1>2. /\ M_data' = Cons(n, s) /\ pair' = [pairs EXCEPT ![n] = p]
      /\ Returns(FALSE, n) /\ M_max' = M_max
  BY DEF Reassign
<1>3. Position(old) \in DOMAIN M_data /\ M_data[Position(old)] = old
  BY PositionResult
<1>4. old # Absent
  BY Basics, NodeAssumption
<1>5. LR!Present(k) /\ LR!Place(k) = Position(old)
  BY <1>4, EntryLeads, PlaceOf
<1>6. p \in Pair /\ p = LR!Pair(k, v) /\ p.val = v
  BY DEF Pair, LR!Pair
<1>7. OrderOf(s, pairs) = RemoveAt(Shown, Position(old))
  <2>1. M_data \in Seq(Node) /\ IsInjective(M_data) /\ pair \in Pairs
    BY Basics
  <2>2. \A x \in ToSet(M_data) : pair[x] \in Pair
    BY Basics
  <2>3. PICK i : i = Position(old)
    OBVIOUS
  <2>4. i \in DOMAIN M_data /\ M_data[i] = old
    BY <1>3, <2>3
  <2>5. OrderOf(RemoveAt(M_data, i), [pair EXCEPT ![M_data[i]] = NoPair]) = RemoveAt(OrderOf(M_data, pair), i)
    BY ONLY <2>1, <2>2, <2>4, OrderRemove
  <2> QED  BY <2>3, <2>4, <2>5 DEF Shown
<1> HIDE DEF old, s, p, pairs
<1>8. n \in Node /\ n \notin ToSet(s)
  BY <1>1 DEF old
<1>9. \A x \in ToSet(s) : pairs[x] \in Pair
  BY <1>1 DEF Agrees
<1>10. OrderOf(Cons(n, s), [pairs EXCEPT ![n] = p]) = Cons(p, OrderOf(s, pairs))
  BY ONLY <1>1, <1>6, <1>8, <1>9, OrderCons
<1>11. Shown' = Cons(LR!Pair(k, v), RemoveAt(Shown, LR!Place(k)))
  <2>1. Shown' = OrderOf(M_data', pair')
    BY DEF Shown, OrderOf
  <2> QED  BY <2>1, <1>2, <1>5, <1>6, <1>7, <1>10
<1>12. n \in Listed' /\ pair'[n].val = v
  <2>0. DOMAIN Cons(n, s) = 1 .. Len(s) + 1 /\ Cons(n, s)[1] = n /\ Len(s) \in Nat
    <3>1. s \in Seq(Node) /\ n \in Node
      BY <1>1, <1>8
    <3>2. Cons(n, s)[1] = n /\ Len(Cons(n, s)) = Len(s) + 1 /\ Cons(n, s) \in Seq(Node)
      BY ONLY <3>1 DEF Cons
    <3> QED  BY <3>1, <3>2
  <2>1. M_data'[1] = n /\ 1 \in DOMAIN M_data'
    BY <1>2, <2>0
  <2>2. n \in Listed'
    BY <2>1 DEF Listed, ToSet
  <2>3. pair'[n] = p
    BY <1>1, <1>2, <1>8 DEF Pairs
  <2> QED  BY <1>6, <2>2, <2>3
<1>13. Said' = [ok |-> FALSE, val |-> v]
  BY <1>2, <1>12, SaidNext
<1> QED  BY <1>2, <1>5, <1>11, <1>13, IsReassign

LEMMA InsertOrAssignRefines ==
  ASSUME IInv, IInv', ~threw, NEW k \in Key, NEW v \in Value, InsertOrAssign(k, v)
  PROVE  LR!InsertOrAssign(k, v)
<1>1. CASE M_cache[k] = Absent /\ Store(k, v) /\ UNCHANGED M_max
  <2>1. ~LR!Present(k)
    BY <1>1, NoPlaceOf
  <2>2. LR!Store(k, v)
    BY <1>1, StoreRefines
  <2> QED  BY <1>1, <2>1, <2>2 DEF LR!InsertOrAssign
<1>2. CASE M_cache[k] \in Listed /\ \E n \in (Node \ Listed) \cup {M_cache[k]} : Reassign(k, v, n)
  BY <1>2, ReassignRefines
<1>3. CASE M_cache[k] \notin Listed \cup {Absent} /\ Undefined
  BY <1>3, EntryLeads
<1> QED  BY <1>1, <1>2, <1>3 DEF InsertOrAssign

LEMMA FindRefines ==
  ASSUME IInv, ~threw, NEW k \in Key, Find(k)
  PROVE  LR!Find(k)
<1>1. M_max' = M_max /\ Shown' = Shown /\ Listed' = Listed /\ pair' = pair
  BY ShownSame DEF Find
<1>2. CASE M_cache[k] = Absent
  <2>1. Returns(FALSE, End)
    BY <1>2 DEF Find
  <2>2. End \notin Listed'
    BY <1>1, Basics, NodeAssumption
  <2>3. Said' = [ok |-> FALSE, val |-> None]
    BY <2>1, <2>2, SaidNext
  <2>4. ~LR!Present(k) /\ LR!Lookup(k) = None
    BY <1>2, NoPlaceOf
  <2>5. Said' = [ok |-> FALSE, val |-> LR!Lookup(k)] /\ (FALSE <=> LR!Present(k))
    BY <2>3, <2>4
  <2> QED  BY <1>1, <2>5, IsFind
<1>3. CASE M_cache[k] # Absent
  <2>1. M_cache[k] \in Listed /\ pair[M_cache[k]].key = k
    BY <1>3, EntryLeads
  <2>2. M_cache[k] # End
    BY <2>1, Basics, NodeAssumption
  <2>3. (M_cache[k] # End) = TRUE
    BY <2>2
  <2>4. Returns(TRUE, M_cache[k])
    BY <1>3, <2>3, Zenon DEF Find
  <2>5. Said' = [ok |-> TRUE, val |-> pair'[M_cache[k]].val]
    BY <1>1, <2>1, <2>4, SaidNext
  <2>6. LR!Present(k) /\ LR!Lookup(k) = pair[M_cache[k]].val
    BY <2>1, PlaceOf
  <2>7. Said' = [ok |-> TRUE, val |-> LR!Lookup(k)] /\ (TRUE <=> LR!Present(k))
    BY <1>1, <2>5, <2>6
  <2> QED  BY <1>1, <2>7, IsFind
<1> QED  BY <1>2, <1>3


(* Both erase: what is shown loses the pair at the place of the node. *)
LEMMA ErasedShown ==
  ASSUME IInv, NEW i \in DOMAIN M_data, M_data' = RemoveAt(M_data, i),
         pair' = [pair EXCEPT ![M_data[i]] = NoPair]
  PROVE  Shown' = RemoveAt(Shown, i)
<1>1. M_data \in Seq(Node) /\ IsInjective(M_data) /\ pair \in Pairs
  BY Basics
<1>2. \A x \in ToSet(M_data) : pair[x] \in Pair
  BY Basics
<1>3. OrderOf(RemoveAt(M_data, i), [pair EXCEPT ![M_data[i]] = NoPair]) = RemoveAt(OrderOf(M_data, pair), i)
  BY ONLY <1>1, <1>2, i \in DOMAIN M_data, OrderRemove
<1>4. Shown' = OrderOf(M_data', pair')
  BY DEF Shown, OrderOf
<1> QED  BY <1>3, <1>4 DEF Shown

LEMMA EraseRefines ==
  ASSUME IInv, IInv', ~threw, NEW k \in Key, Erase(k)
  PROVE  LR!Erase(k)
<1>1. CASE M_cache[k] = Absent /\ Returns(FALSE, End) /\ UNCHANGED <<M_data, M_cache, M_max, pair>>
  <2>1. Shown' = Shown /\ M_max' = M_max
    BY <1>1, ShownSame
  <2>2. End \notin Listed'
    BY ShownNext, NodeAssumption
  <2>3. Said' = [ok |-> FALSE, val |-> None]
    BY <1>1, <2>2, SaidNext
  <2>4. ~LR!Present(k)
    BY <1>1, NoPlaceOf
  <2>5. FALSE <=> LR!Present(k)
    BY <2>4
  <2> QED  BY <2>1, <2>3, <2>5, IsErase
<1>2. CASE /\ M_cache[k] \in Listed
           /\ M_data' = RemoveAt(M_data, Position(M_cache[k]))
           /\ M_cache' = [M_cache EXCEPT ![k] = Absent]
           /\ pair' = [pair EXCEPT ![M_cache[k]] = NoPair]
           /\ Returns(TRUE, End)
           /\ UNCHANGED M_max
  <2>1. Position(M_cache[k]) \in DOMAIN M_data /\ M_data[Position(M_cache[k])] = M_cache[k]
    BY <1>2, PositionResult
  <2>2. Shown' = RemoveAt(Shown, Position(M_cache[k]))
    BY <1>2, <2>1, ErasedShown
  <2>3. M_cache[k] # Absent
    BY <1>2, Basics, NodeAssumption
  <2>4. LR!Present(k) /\ LR!Place(k) = Position(M_cache[k])
    BY <2>3, EntryLeads, PlaceOf
  <2>5. End \notin Listed'
    BY ShownNext, NodeAssumption
  <2>6. Said' = [ok |-> TRUE, val |-> None]
    BY <1>2, <2>5, SaidNext
  <2>7. (TRUE <=> LR!Present(k)) /\ Shown' = RemoveAt(Shown, LR!Place(k))
    BY <2>2, <2>4
  <2> QED  BY <1>2, <2>6, <2>7, IsErase
<1>3. CASE M_cache[k] \notin Listed \cup {Absent} /\ Undefined
  BY <1>3, EntryLeads
<1> QED  BY <1>1, <1>2, <1>3 DEF Erase

(* The place of the pair that was erased is that of the next older one. *)
LEMMA EraseAtRefines ==
  ASSUME IInv, IInv', NEW i \in DOMAIN M_data, EraseAt(i)
  PROVE  LR!EraseAt(i)
<1>1. /\ M_max' = M_max /\ M_data' = RemoveAt(M_data, i) /\ pair' = [pair EXCEPT ![M_data[i]] = NoPair]
      /\ Returns(TRUE, IF i = Len(M_data) THEN End ELSE M_data[i + 1])
  BY DEF EraseAt
<1>2. Shown' = RemoveAt(Shown, i)
  BY <1>1, ErasedShown
<1>3. M_data \in Seq(Node) /\ Len(M_data) \in Nat /\ DOMAIN M_data = 1 .. Len(M_data)
  BY Basics
<1>4. /\ DOMAIN RemoveAt(M_data, i) = 1 .. Len(M_data) - 1
      /\ \A j \in 1 .. Len(M_data) - 1 : RemoveAt(M_data, i)[j] = IF j < i THEN M_data[j] ELSE M_data[j + 1]
  BY ONLY <1>3, i \in DOMAIN M_data, RemoveElements
<1>5. Said' = [ok |-> TRUE, val |-> LR!ValueAt(Shown', i)]
  <2>1. CASE i = Len(M_data)
    <3>1. i \notin DOMAIN M_data'
      BY <1>1, <1>3, <1>4, <2>1
    <3>2. LR!ValueAt(Shown', i) = None
      BY <3>1, ShownNext DEF LR!ValueAt
    <3>3. Returns(TRUE, End) /\ End \notin Listed'
      BY <1>1, <2>1, ShownNext, NodeAssumption
    <3> QED  BY <3>2, <3>3, SaidNext
  <2>2. CASE i # Len(M_data)
    <3>1. i \in 1 .. Len(M_data) - 1 /\ ~(i < i)
      BY <1>3, <2>2
    <3>2. i \in DOMAIN M_data' /\ M_data'[i] = M_data[i + 1]
      BY <1>1, <1>4, <3>1
    <3>3. LR!ValueAt(Shown', i) = pair'[M_data'[i]].val /\ M_data'[i] \in Listed'
      BY <3>2, ShownNext DEF LR!ValueAt
    <3>4. Returns(TRUE, M_data'[i])
      BY <1>1, <2>2, <3>2
    <3> QED  BY <3>3, <3>4, SaidNext
  <2> QED  BY <2>1, <2>2
<1> QED  BY <1>1, <1>2, <1>5, IsEraseAt

LEMMA ReserveRefines ==
  ASSUME IInv, IInv', NEW n \in Capacity, Reserve(n)
  PROVE  LR!Reserve(n)
<1> DEFINE dropped == Listed \ ToSet(Kept(n))
<1>1. /\ M_data' = Kept(n) /\ M_max' = n /\ Returns(FALSE, End)
      /\ pair' = [x \in Node |-> IF x \in dropped THEN NoPair ELSE pair[x]]
  BY DEF Reserve
<1>2. /\ M_data \in Seq(Node) /\ Len(M_data) \in Nat /\ DOMAIN M_data = 1 .. Len(M_data)
      /\ pair \in Pairs /\ n \in Nat /\ Listed \in SUBSET Node /\ Listed = ToSet(M_data)
  BY Basics, CapacityAssumption
<1>3. \A x \in ToSet(M_data) : pair[x] \in Pair
  BY Basics
<1>4. Shown' = OrderOf(M_data', pair')
  BY DEF Shown, OrderOf
<1>5. ASSUME n < Len(M_data)
      PROVE  Shown' = IF n < Len(Shown) THEN SubSeq(Shown, 1, n) ELSE Shown
  <2>1. Kept(n) = SubSeq(M_data, 1, n) /\ n <= Len(M_data)
    BY <1>2, <1>5 DEF Kept
  <2>2. ASSUME NEW j \in DOMAIN M_data, j <= n PROVE pair'[M_data[j]] = pair[M_data[j]]
    <3>1. j \in 1 .. n
      BY <1>2, <2>2
    <3>2. DOMAIN SubSeq(M_data, 1, n) = 1 .. n /\ SubSeq(M_data, 1, n)[j] = M_data[j]
      <4>1. 1 .. n \subseteq DOMAIN M_data
        BY <1>2, <2>1
      <4> QED  BY <1>2, <3>1, <4>1, SubSeqProperties
    <3>3. M_data[j] \in ToSet(Kept(n)) /\ M_data[j] \in Node
      BY <1>2, <2>1, <3>1, <3>2 DEF ToSet
    <3> QED  BY <1>1, <3>3
  <2>3. PICK others : others = pair'
    OBVIOUS
  <2>4. \A j \in DOMAIN M_data : j <= n => others[M_data[j]] = pair[M_data[j]]
    BY <2>2, <2>3
  <2>5. OrderOf(SubSeq(M_data, 1, n), others) = SubSeq(OrderOf(M_data, pair), 1, n)
    BY ONLY <1>2, <1>3, <2>1, <2>4, OrderPrefix
  <2>6. Shown' = SubSeq(Shown, 1, n)
    BY <1>1, <1>4, <2>1, <2>3, <2>5 DEF Shown
  <2>7. Len(Shown) = Len(M_data)
    BY ShownType
  <2> QED  BY <1>5, <2>6, <2>7
<1>6. ASSUME ~(n < Len(M_data))
      PROVE  Shown' = IF n < Len(Shown) THEN SubSeq(Shown, 1, n) ELSE Shown
  <2>1. Kept(n) = M_data
    BY <1>6 DEF Kept
  <2>2. dropped = {}
    BY <1>2, <2>1
  <2>3. pair' = [x \in Node |-> pair[x]]
    BY <1>1, <2>2
  <2>4. pair' = pair
    BY <1>2, <2>3 DEF Pairs
  <2>5. Shown' = Shown
    BY <1>1, <2>1, <2>4, ShownSame
  <2>6. Len(Shown) = Len(M_data)
    BY ShownType
  <2> QED  BY <1>6, <2>5, <2>6
<1>7. Shown' = IF n < Len(Shown) THEN SubSeq(Shown, 1, n) ELSE Shown
  BY <1>5, <1>6
<1>8. Said' = [ok |-> FALSE, val |-> None]
  <2>1. End \notin Listed'
    BY ShownNext, NodeAssumption
  <2> QED  BY <1>1, <2>1, SaidNext
<1> QED  BY <1>1, <1>7, <1>8, IsReserve

LEMMA EraseEndRefines ==
  ASSUME IInv, EraseEnd
  PROVE  LR!EraseEnd
<1>1. M_max' = M_max /\ Shown' = Shown /\ Listed' = Listed /\ pair' = pair
  BY ShownSame DEF EraseEnd
<1>2. Returns(FALSE, End)
  BY DEF EraseEnd
<1>3. End \notin Listed'
  BY <1>1, Basics, NodeAssumption
<1>4. Said' = [ok |-> FALSE, val |-> None]
  BY <1>2, <1>3, SaidNext
<1> QED  BY <1>1, <1>4, IsEraseEnd

LEMMA ClearRefines ==
  ASSUME Clear
  PROVE  LR!Clear
<1>1. M_data' = <<>> /\ M_max' = M_max /\ ret' = [ok |-> FALSE, at |-> End]
  BY DEF Clear, NoCall
<1>2. DOMAIN <<>> = {}
  BY EmptySeq
<1>3. Listed' = {}
  BY <1>1, <1>2 DEF Listed, ToSet
<1>4. Shown' = <<>>
  <2>1. Shown' = [i \in {} |-> pair'[M_data'[i]]]
    BY <1>1, <1>2 DEF Shown, OrderOf
  <2> QED  BY <2>1
<1>5. Said' = [ok |-> FALSE, val |-> None]
  BY <1>1, <1>3 DEF Said
<1> QED  BY <1>1, <1>4, <1>5, IsClear

-----------------------------------------------------------------------------
(* Once a call has thrown, that stays known until the map is cleared. *)
LEMMA ThrewStays ==
  ASSUME threw, Next, ~Clear
  PROVE  threw'
<1>1. ASSUME NEW ok, NEW at, Returns(ok, at) PROVE threw'
  BY <1>1 DEF Returns
<1>2. Throws => threw'
  BY DEF Throws
<1>3. Undefined => threw'
  BY DEF Undefined
<1>4. ASSUME NEW k \in Key, NEW v \in Value, Emplace(k, v) \/ InsertOrAssign(k, v) PROVE threw'
  BY <1>1, <1>3, <1>4, Zenon DEF Emplace, InsertOrAssign, Store, Reassign
<1>5. ASSUME NEW k \in Key, EmplaceThrows(k) \/ AssignThrows(k) PROVE threw'
  BY <1>2, <1>5, Zenon DEF EmplaceThrows, AssignThrows, StoreThrows
<1>6. ASSUME NEW k \in Key, Find(k) \/ Erase(k) PROVE threw'
  BY <1>1, <1>3, <1>6, Zenon DEF Find, Erase
<1>7. ASSUME NEW i \in DOMAIN M_data, EraseAt(i) PROVE threw'
  BY <1>1, <1>7, Zenon DEF EraseAt
<1>8. ASSUME NEW n \in Capacity, Reserve(n) PROVE threw'
  BY <1>1, <1>8, Zenon DEF Reserve
<1>9. EraseEnd => threw'
  BY <1>1, Zenon DEF EraseEnd
<1> QED  BY <1>4, <1>5, <1>6, <1>7, <1>8, <1>9, Zenon DEF Next

LEMMA StepRefines == IInv /\ IInv' /\ [Next]_vars => [threw' \/ LR!Next]_(LR!vars)
<1> SUFFICES ASSUME IInv, IInv', [Next]_vars PROVE [threw' \/ LR!Next]_(LR!vars)
  OBVIOUS
<1>1. CASE UNCHANGED vars
  BY <1>1, Zenon DEF vars, LR!vars, Listed
<1>2. CASE Clear
  BY <1>2, ClearRefines, Zenon DEF LR!Next
<1>3. CASE Next /\ ~Clear /\ threw
  BY <1>3, ThrewStays, Zenon
<1>4. CASE Next /\ ~Clear /\ ~threw
  <2>1. ASSUME NEW k \in Key, NEW v \in Value, Emplace(k, v) \/ InsertOrAssign(k, v) PROVE LR!Next
    BY <1>4, <2>1, EmplaceRefines, InsertOrAssignRefines, Zenon DEF LR!Next
  <2>2. ASSUME NEW k \in Key, EmplaceThrows(k) \/ AssignThrows(k) PROVE threw' \/ LR!Next
    <3>1. Throws => threw'
      BY DEF Throws
    <3> QED  BY <2>2, <3>1, Zenon DEF EmplaceThrows, AssignThrows, StoreThrows
  <2>3. ASSUME NEW k \in Key, Find(k) \/ Erase(k) PROVE LR!Next
    BY <1>4, <2>3, FindRefines, EraseRefines, Zenon DEF LR!Next
  <2>4. ASSUME NEW i \in DOMAIN M_data, EraseAt(i) PROVE LR!Next
    BY <2>4, EraseAtRefines, Zenon DEF LR!Next
  <2>5. ASSUME NEW n \in Capacity, Reserve(n) PROVE LR!Next
    BY <2>5, ReserveRefines, Zenon DEF LR!Next
  <2>6. ASSUME EraseEnd PROVE LR!Next
    BY <2>6, EraseEndRefines, Zenon DEF LR!Next
  <2> QED  BY <1>4, <2>1, <2>2, <2>3, <2>4, <2>5, <2>6, Zenon DEF Next
<1> QED  BY <1>1, <1>2, <1>3, <1>4, Zenon

LEMMA InitRefines == Init => LR!Init
<1> SUFFICES ASSUME Init PROVE LR!Init
  OBVIOUS
<1>1. M_data = <<>> /\ M_max \in Capacity /\ ret = [ok |-> FALSE, at |-> End]
  BY DEF Init, NoCall
<1>2. DOMAIN <<>> = {}
  BY EmptySeq
<1>3. Listed = {}
  BY <1>1, <1>2 DEF Listed, ToSet
<1>4. [i \in DOMAIN M_data |-> pair[M_data[i]]] = <<>>
  <2>1. [i \in DOMAIN M_data |-> pair[M_data[i]]] = [i \in {} |-> pair[M_data[i]]]
    BY <1>1, <1>2
  <2> QED  BY <2>1
<1>5. [ok |-> ret.ok, val |-> IF ret.at \in Listed THEN pair[ret.at].val ELSE None]
        = [ok |-> FALSE, val |-> None]
  BY <1>1, <1>3
<1> QED  BY <1>1, <1>4, <1>5, Zenon DEF LR!Init

(* The index, its eviction and the erasure and making anew of nodes are    *)
(* invisible: what unordered_map_lru keeps, in which order, what it        *)
(* forgets and what it answers are those of a bounded list, until a call   *)
(* throws.                                                                 *)
THEOREM ListAndIndexImplementList == Spec => ImplementsLeastRecent
<1>1. Init => LR!Init
  BY InitRefines
<1>2. IInv /\ IInv' /\ [Next]_vars => [threw' \/ LR!Next]_(LR!vars)
  BY StepRefines
<1> QED  BY <1>1, <1>2, Invariance, PTL DEF Spec, ImplementsLeastRecent
=============================================================================
