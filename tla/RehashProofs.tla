---------------------------- MODULE RehashProofs ----------------------------
(***************************************************************************)
(* The two passes of rehash, for any table: the moves inside the one file  *)
(* end in the layout that was planned, unless a chain closes.              *)
(*                                                                         *)
(* Both passes are recursive functions over the slots.  That one exists    *)
(* follows from Iteration, and what holds of all its values from UpTo.     *)
(***************************************************************************)
EXTENDS Rehash, OpenAddressProofs

(* A sequence of values, each computed from the one before, exists. *)
StepsOn(S, N) == [1 .. N -> [S -> S]]

Iterates(h, S, N, base, G) ==
  h \in [0 .. N -> S] /\ h[0] = base /\ \A n \in 1 .. N : h[n] = G[n][h[n - 1]]

LEMMA Iteration ==
  ASSUME NEW S, NEW N \in Nat, NEW base \in S, NEW G \in StepsOn(S, N)
  PROVE  \E h : Iterates(h, S, N, base, G)
<1> DEFINE P(m) == \E h \in [0 .. m -> S] : h[0] = base /\ \A n \in 1 .. m : h[n] = G[n][h[n - 1]]
           Bad  == {m \in 0 .. N : ~P(m)}
<1>1. SUFFICES ASSUME Bad # {} PROVE FALSE
  <2>1. N \in 0 .. N /\ N \notin Bad
    BY <1>1
  <2>2. P(N)
    BY <2>1
  <2> QED  BY <2>2, Zenon DEF Iterates
<1>2. PICK m \in Bad : \A y \in Bad : m <= y
  <2>1. Bad \subseteq Nat
    OBVIOUS
  <2> HIDE DEF Bad
  <2> QED  BY <1>1, <2>1, LeastNat
<1>3. P(0)
  <2> DEFINE h == [j \in 0 .. 0 |-> base]
  <2>1. h \in [0 .. 0 -> S] /\ h[0] = base /\ 1 .. 0 = {}
    OBVIOUS
  <2> HIDE DEF h
  <2> QED  BY <2>1
<1>4. m \in 1 .. N
  <2>1. m \in 0 .. N /\ ~P(m)
    OBVIOUS
  <2> HIDE DEF P
  <2>2. m # 0
    BY <1>3, <2>1
  <2> QED  BY <2>1, <2>2
<1>5. P(m - 1)
  <2> HIDE DEF P
  <2>1. m - 1 \in 0 .. N /\ ~(m <= m - 1)
    BY <1>4
  <2> QED  BY <1>2, <2>1
<1>6. PICK h \in [0 .. m - 1 -> S] : h[0] = base /\ \A n \in 1 .. m - 1 : h[n] = G[n][h[n - 1]]
  BY <1>5
<1>7. m - 1 \in 0 .. m - 1 /\ h[m - 1] \in S /\ G[m][h[m - 1]] \in S
  BY <1>4, <1>6 DEF StepsOn
<1> DEFINE g == [j \in 0 .. m |-> IF j = m THEN G[m][h[m - 1]] ELSE h[j]]
<1>8. g \in [0 .. m -> S]
  BY <1>4, <1>6, <1>7
<1>9. g[0] = base /\ g[m] = G[m][h[m - 1]] /\ \A n \in 0 .. m - 1 : g[n] = h[n]
  BY <1>4, <1>6
<1> HIDE DEF g
<1>10. \A n \in 1 .. m : g[n] = G[n][g[n - 1]]
  <2> SUFFICES ASSUME NEW n \in 1 .. m PROVE g[n] = G[n][g[n - 1]]
    OBVIOUS
  <2>1. n - 1 \in 0 .. m - 1 /\ g[n - 1] = h[n - 1] /\ (n # m => n \in 1 .. m - 1)
    BY <1>4, <1>9
  <2> QED  BY <1>4, <1>6, <1>9, <2>1
<1>11. P(m)
  BY <1>8, <1>9, <1>10
<1> QED  BY <1>11

(* Induction up to a bound, over the elements of a set. *)
LEMMA UpTo ==
  ASSUME NEW N \in Nat, NEW S, 0 \in S, \A n \in 1 .. N : n - 1 \in S => n \in S
  PROVE  \A n \in 0 .. N : n \in S
<1> DEFINE Bad == {n \in 0 .. N : n \notin S}
<1>1. SUFFICES ASSUME Bad # {} PROVE FALSE
  OBVIOUS
<1>2. PICK m \in Bad : \A y \in Bad : m <= y
  <2>1. Bad \subseteq Nat
    OBVIOUS
  <2> HIDE DEF Bad
  <2> QED  BY <1>1, <2>1, LeastNat
<1>3. m \in 1 .. N /\ m - 1 \in 0 .. N /\ ~(m <= m - 1)
  OBVIOUS
<1>4. m - 1 \in S
  BY <1>2, <1>3
<1> QED  BY <1>3, <1>4

-----------------------------------------------------------------------------
(* Chains. *)

(* A walk along the destinations: every slot but the last has one, which   *)
(* is the next slot, and no slot but the last is there twice.              *)
ChainOf(first, i, chain) ==
  /\ chain \in Seq(Int) /\ Len(chain) >= 1
  /\ chain[1] = i
  /\ \A m \in 1 .. Len(chain) - 1 :
       chain[m] \in DOMAIN first /\ first[chain[m]] # Invalid /\ chain[m + 1] = first[chain[m]]
  /\ \A m, n \in 1 .. Len(chain) - 1 : chain[m] = chain[n] => m = n

Firsts(oldB, newB) == [Slots(oldB) -> Slots(newB) \cup {Invalid}]

LEMMA ExtendedChain ==
  ASSUME NEW first, \A j \in DOMAIN first : first[j] \in Int,
         NEW i, NEW chain, ChainOf(first, i, chain), NEW next, next = Extended(first, chain)
  PROVE  /\ ChainOf(first, i, next)
         /\ Finished(first, chain) => next = chain
         /\ ~Finished(first, chain) => Len(next) = Len(chain) + 1
<1>1. CASE Finished(first, chain)
  BY <1>1 DEF Extended
<1>2. CASE ~Finished(first, chain)
  <2>1. PICK last : last = chain[Len(chain)]
    OBVIOUS
  <2>2. /\ last \in DOMAIN first /\ first[last] # Invalid
        /\ \A m \in 1 .. Len(chain) - 1 : chain[m] # last
        /\ next = Append(chain, first[last])
    BY <1>2, <2>1 DEF Finished, Closed, Destination, Last, Extended
  <2>3. /\ next \in Seq(Int) /\ Len(next) = Len(chain) + 1
        /\ next[Len(chain) + 1] = first[last]
        /\ \A m \in 1 .. Len(chain) : next[m] = chain[m]
    BY <2>2 DEF ChainOf
  <2>4. PICK L \in Nat : L = Len(chain) /\ L >= 1
    BY DEF ChainOf
  <2>5. \A m \in 1 .. L : m = L \/ m \in 1 .. L - 1
    BY <2>4
  <2>6. \A m \in 1 .. L :
          next[m] \in DOMAIN first /\ first[next[m]] # Invalid /\ next[m + 1] = first[next[m]]
    BY <2>1, <2>2, <2>3, <2>4, <2>5 DEF ChainOf
  <2>7. \A m, n \in 1 .. L : next[m] = next[n] => m = n
    BY <2>1, <2>2, <2>3, <2>4, <2>5 DEF ChainOf
  <2>8. Len(next) >= 1 /\ Len(next) - 1 = L /\ next[1] = i
    BY <2>3, <2>4 DEF ChainOf
  <2>9. ChainOf(first, i, next)
    BY <2>3, <2>6, <2>7, <2>8 DEF ChainOf
  <2> QED  BY <1>2, <2>3, <2>9
<1> QED  BY <1>1, <1>2

(* Each round of the loop makes the chain one slot longer or finds it      *)
(* finished.                                                               *)
LEMMA ChainSteps ==
  ASSUME NEW first, IsFiniteSet(DOMAIN first), \A j \in DOMAIN first : first[j] \in Int, NEW i \in Int
  PROVE  LET chain == ChainFrom(first, i)
         IN  /\ ChainOf(first, i, chain)
             /\ Finished(first, chain) \/ Len(chain) = Cardinality(DOMAIN first) + 2
<1>2. PICK N \in Nat : N = Cardinality(DOMAIN first) + 1
  BY FS_CardinalityType
<1>3. PICK S, base : S = Seq(Int) /\ base = <<i>>
  OBVIOUS
<1>4. base \in S /\ \A chain \in S : Extended(first, chain) \in S
  BY <1>3 DEF Extended, Finished, Destination, Invalid
<1> DEFINE Step == [n \in 1 .. N |-> [chain \in S |-> Extended(first, chain)]]
<1>5. /\ Step \in StepsOn(S, N)
      /\ \A n \in 1 .. N : \A chain \in S : Step[n][chain] = Extended(first, chain)
  BY <1>4 DEF StepsOn
<1> HIDE DEF Step
<1>6. PICK h : Iterates(h, S, N, base, Step)
  BY <1>4, <1>5, Iteration
<1>7. \A n \in 1 .. N : n - 1 \in 0 .. N /\ h[n] = Extended(first, h[n - 1])
  BY <1>2, <1>5, <1>6 DEF Iterates
<1>8. h = [n \in 0 .. N |-> IF n = 0 THEN <<i>> ELSE Extended(first, h[n - 1])]
  <2>1. ASSUME NEW n \in 0 .. N PROVE h[n] = IF n = 0 THEN base ELSE Extended(first, h[n - 1])
    <3>1. n # 0 => n \in 1 .. N
      BY <1>2
    <3> QED  BY <1>6, <1>7, <3>1 DEF Iterates
  <2> QED  BY <1>3, <1>6, <2>1 DEF Iterates
<1> DEFINE walk == CHOOSE f : f = [n \in 0 .. N |-> IF n = 0 THEN <<i>> ELSE Extended(first, f[n - 1])]
<1>1. ChainFrom(first, i) = walk[N]
  BY <1>2 DEF ChainFrom
<1>9. walk = [n \in 0 .. N |-> IF n = 0 THEN <<i>> ELSE Extended(first, walk[n - 1])]
  BY <1>8
<1> HIDE DEF walk
<1>10. walk[0] = <<i>> /\ \A n \in 1 .. N : walk[n] = Extended(first, walk[n - 1])
  <2>1. 0 \in 0 .. N /\ \A n \in 1 .. N : n \in 0 .. N /\ n # 0
    BY <1>2
  <2> QED  BY <1>9, <2>1
<1> DEFINE P == {n \in 0 .. N : /\ ChainOf(first, i, walk[n])
                                /\ Finished(first, walk[n]) \/ Len(walk[n]) = n + 1}
<1>11. 0 \in P
  <2>1. ChainOf(first, i, <<i>>) /\ Len(<<i>>) = 1
    BY DEF ChainOf
  <2> QED  BY <1>2, <1>10, <2>1
<1>12. ASSUME NEW n \in 1 .. N, n - 1 \in P PROVE n \in P
  <2>1. /\ ChainOf(first, i, walk[n - 1])
        /\ Finished(first, walk[n - 1]) \/ Len(walk[n - 1]) = n
        /\ walk[n] = Extended(first, walk[n - 1])
    BY <1>10, <1>12
  <2>2. /\ ChainOf(first, i, walk[n])
        /\ Finished(first, walk[n - 1]) => walk[n] = walk[n - 1]
        /\ ~Finished(first, walk[n - 1]) => Len(walk[n]) = Len(walk[n - 1]) + 1
    BY <2>1, ExtendedChain
  <2> QED  BY <1>2, <2>1, <2>2
<1>13. N \in P
  <2> HIDE DEF P
  <2>1. \A n \in 0 .. N : n \in P
    BY <1>2, <1>11, <1>12, UpTo
  <2> QED  BY <1>2, <2>1
<1>14. ChainOf(first, i, walk[N]) /\ (Finished(first, walk[N]) \/ Len(walk[N]) = N + 1)
  BY <1>13
<1> HIDE DEF P
<1> QED  BY <1>1, <1>2, <1>14, FS_CardinalityType

(* So it ends: there are not enough slots for a longer one.                *)
LEMMA ChainEnds ==
  ASSUME NEW first, IsFiniteSet(DOMAIN first), \A j \in DOMAIN first : first[j] \in Int, NEW i \in Int
  PROVE  LET chain == ChainFrom(first, i)
         IN  ChainOf(first, i, chain) /\ Finished(first, chain)
<1>1. PICK chain : chain = ChainFrom(first, i)
  OBVIOUS
<1>2. ChainOf(first, i, chain) /\ (Finished(first, chain) \/ Len(chain) = Cardinality(DOMAIN first) + 2)
  BY <1>1, ChainSteps
<1>3. ASSUME Len(chain) = Cardinality(DOMAIN first) + 2 PROVE FALSE
  <2> DEFINE N == Cardinality(DOMAIN first)
             f == [m \in 1 .. N + 1 |-> chain[m]]
  <2>1. N \in Nat
    BY FS_CardinalityType
  <2>2. f \in [1 .. N + 1 -> DOMAIN first] /\ \A m, n \in 1 .. N + 1 : f[m] = f[n] => m = n
    BY <1>2, <1>3, <2>1 DEF ChainOf
  <2>3. IsFiniteSet(1 .. N + 1) /\ Cardinality(1 .. N + 1) = N + 1
    BY <2>1, FS_Interval
  <2>4. \E m, n \in 1 .. N + 1 : m # n /\ f[m] = f[n]
    <3> HIDE DEF f
    <3> QED  BY <2>1, <2>2, <2>3, FS_PigeonHole
  <2> QED  BY <2>2, <2>4
<1> QED  BY <1>1, <1>2, <1>3

(* The same destinations, some of them invalidated: a chain that closes    *)
(* closes in the original, too.                                            *)
LEMMA ChainPrefix ==
  ASSUME NEW f, NEW g, \A j \in DOMAIN f : f[j] # Invalid => j \in DOMAIN g /\ g[j] = f[j],
         NEW i, NEW c, NEW d, ChainOf(f, i, c), ChainOf(g, i, d)
  PROVE  \A m \in 1 .. Len(c) : m <= Len(d) => d[m] = c[m]
<1> DEFINE S == {n \in 0 .. Len(c) - 1 : n + 1 <= Len(d) => d[n + 1] = c[n + 1]}
<1>1. Len(c) \in Nat /\ Len(d) \in Nat /\ Len(c) >= 1 /\ Len(d) >= 1 /\ c[1] = i /\ d[1] = i
  BY DEF ChainOf
<1>2. 0 \in S
  BY <1>1
<1>3. ASSUME NEW n \in 1 .. Len(c) - 1, n - 1 \in S PROVE n \in S
  <2>1. SUFFICES ASSUME n + 1 <= Len(d) PROVE d[n + 1] = c[n + 1]
    BY <1>1
  <2>2. d[n] = c[n]
    BY <1>1, <1>3, <2>1
  <2>3. n \in 1 .. Len(d) - 1
    BY <1>1, <2>1
  <2>4. c[n] \in DOMAIN f /\ f[c[n]] # Invalid /\ c[n + 1] = f[c[n]] /\ d[n + 1] = g[d[n]]
    BY <2>3 DEF ChainOf
  <2> QED  BY <2>2, <2>4
<1>4. \A n \in 0 .. Len(c) - 1 : n \in S
  <2> HIDE DEF S
  <2>1. PICK N \in Nat : N = Len(c) - 1
    BY <1>1
  <2> QED  BY <1>2, <1>3, <2>1, UpTo
<1> SUFFICES ASSUME NEW m \in 1 .. Len(c), m <= Len(d) PROVE d[m] = c[m]
  OBVIOUS
<1>5. m - 1 \in S /\ (m - 1) + 1 = m
  BY <1>1, <1>4
<1> QED  BY <1>5

LEMMA ClosedBefore ==
  ASSUME NEW f, NEW g, \A j \in DOMAIN f : f[j] # Invalid => j \in DOMAIN g /\ g[j] = f[j],
         NEW i, NEW c, NEW d, ChainOf(f, i, c), ChainOf(g, i, d), Closed(c), Finished(g, d)
  PROVE  Closed(d)
<1>1. \A m \in 1 .. Len(c) : m <= Len(d) => d[m] = c[m]
  BY ChainPrefix
<1>2. Len(c) \in Nat /\ Len(d) \in Nat /\ Len(c) >= 1 /\ Len(d) >= 1
  BY DEF ChainOf
<1>3. PICK m \in 1 .. Len(c) - 1 : c[m] = c[Len(c)]
  BY DEF Closed, Last
<1>4. CASE Len(d) >= Len(c)
  <2>1. d[m] = d[Len(c)] /\ Len(c) \in 1 .. Len(d) /\ m \in 1 .. Len(d) - 1 /\ m # Len(c)
    BY <1>1, <1>2, <1>3, <1>4
  <2>2. Len(d) = Len(c)
    BY <1>2, <2>1 DEF ChainOf
  <2> QED  BY <2>1, <2>2 DEF Closed, Last
<1>5. CASE Len(d) < Len(c)
  <2>1. PICK n \in 1 .. Len(c) - 1 : n = Len(d)
    BY <1>2, <1>5
  <2>2. d[n] = c[n] /\ c[n] \in DOMAIN f /\ f[c[n]] # Invalid
    BY <1>1, <1>2, <2>1 DEF ChainOf
  <2>3. Destination(g, Last(d)) # Invalid
    BY <2>1, <2>2 DEF Destination, Last
  <2> QED  BY <2>3 DEF Finished
<1> QED  BY <1>2, <1>4, <1>5

-----------------------------------------------------------------------------
(* One chain is unwound. *)

(* A file of slots D whose contents are in V. *)
LEMMA CopyType ==
  ASSUME NEW D, NEW V, Free \in V, NEW t \in [D -> V], NEW from \in D, NEW to
  PROVE  CopyAndFree(t, from, to) \in [D -> V]
BY DEF CopyAndFree

(* The files between the pops. *)
PopsOf(h, t, chain, n) ==
  /\ h[0] = t /\ h[n] = Popped(t, chain, n)
  /\ \A k \in 1 .. n : h[k] = CopyAndFree(h[k - 1], chain[Len(chain) - k], chain[Len(chain) - k + 1])

LEMMA PoppedRounds ==
  ASSUME NEW D, NEW V, Free \in V, NEW t \in [D -> V],
         NEW chain, NEW n \in Nat, \A k \in 1 .. n : chain[Len(chain) - k] \in D
  PROVE  \E h \in [0 .. n -> [D -> V]] : PopsOf(h, t, chain, n)
<1>1. PICK S : S = [D -> V]
  OBVIOUS
<1> DEFINE G == [k \in 1 .. n |-> [s \in S |-> CopyAndFree(s, chain[Len(chain) - k], chain[Len(chain) - k + 1])]]
<1>2. \A k \in 1 .. n : \A s \in S : CopyAndFree(s, chain[Len(chain) - k], chain[Len(chain) - k + 1]) \in S
  BY <1>1, CopyType
<1>3. /\ G \in StepsOn(S, n)
      /\ \A k \in 1 .. n : \A s \in S :
           G[k][s] = CopyAndFree(s, chain[Len(chain) - k], chain[Len(chain) - k + 1])
  BY <1>2 DEF StepsOn
<1> HIDE DEF G
<1>4. PICK h : Iterates(h, S, n, t, G)
  BY <1>1, <1>3, Iteration
<1>5. h \in [0 .. n -> S] /\ h[0] = t
  BY <1>4 DEF Iterates
<1>6. \A k \in 1 .. n : h[k] = CopyAndFree(h[k - 1], chain[Len(chain) - k], chain[Len(chain) - k + 1])
  <2>1. \A k \in 1 .. n : k - 1 \in 0 .. n
    OBVIOUS
  <2> QED  BY <1>3, <1>4, <1>5, <2>1 DEF Iterates
<1>7. h = [k \in 0 .. n |->
             IF k = 0 THEN t ELSE CopyAndFree(h[k - 1], chain[Len(chain) - k], chain[Len(chain) - k + 1])]
  BY <1>5, <1>6
<1> DEFINE after ==
      CHOOSE f : f = [k \in 0 .. n |->
        IF k = 0 THEN t ELSE CopyAndFree(f[k - 1], chain[Len(chain) - k], chain[Len(chain) - k + 1])]
<1>8. Popped(t, chain, n) = after[n]
  BY DEF Popped
<1>9. after = [k \in 0 .. n |->
        IF k = 0 THEN t ELSE CopyAndFree(after[k - 1], chain[Len(chain) - k], chain[Len(chain) - k + 1])]
  BY <1>7
<1> HIDE DEF after
<1>10. /\ after[0] = t
       /\ \A k \in 1 .. n :
            after[k] = CopyAndFree(after[k - 1], chain[Len(chain) - k], chain[Len(chain) - k + 1])
  <2>1. 0 \in 0 .. n /\ \A k \in 1 .. n : k \in 0 .. n /\ k # 0
    OBVIOUS
  <2> QED  BY <1>9, <2>1
<1> DEFINE P == {k \in 0 .. n : after[k] \in S}
<1>11. \A k \in 0 .. n : k \in P
  <2>1. 0 \in P
    BY <1>1, <1>10
  <2>2. ASSUME NEW k \in 1 .. n, k - 1 \in P PROVE k \in P
    BY <1>2, <1>10, <2>2
  <2> HIDE DEF P
  <2> QED  BY <2>1, <2>2, UpTo
<1>12. after \in [0 .. n -> [D -> V]]
  BY <1>1, <1>9, <1>11
<1> QED  BY <1>8, <1>10, <1>12 DEF PopsOf

LEMMA PoppedType ==
  ASSUME NEW D, NEW V, Free \in V, NEW t \in [D -> V],
         NEW chain, NEW n \in Nat, \A k \in 1 .. n : chain[Len(chain) - k] \in D
  PROVE  Popped(t, chain, n) \in [D -> V]
<1>1. PICK h \in [0 .. n -> [D -> V]] : PopsOf(h, t, chain, n)
  BY PoppedRounds
<1>2. h[n] \in [D -> V]
  OBVIOUS
<1> QED  BY <1>1, <1>2 DEF PopsOf

(* A chain without a slot twice moves each element to the next slot, and   *)
(* frees the first.                                                        *)
Unwound(u, t, chain) ==
  /\ Len(chain) > 1 => u[chain[1]] = Free
  /\ \A m \in 1 .. Len(chain) - 1 : u[chain[m + 1]] = t[chain[m]]
  /\ \A j \in DOMAIN t : (\A m \in 1 .. Len(chain) : chain[m] # j) => u[j] = t[j]

LEMMA UnwindResult ==
  ASSUME NEW D, NEW V, Free \in V, NEW t \in [D -> V],
         NEW chain, Len(chain) \in Nat, Len(chain) >= 1,
         \A m \in 1 .. Len(chain) : chain[m] \in D,
         \A m, n \in 1 .. Len(chain) : chain[m] = chain[n] => m = n
  PROVE  Unwind(t, chain) \in [D -> V] /\ Unwound(Unwind(t, chain), t, chain)
<1>1. PICK L \in Nat : L = Len(chain) /\ L >= 1
  OBVIOUS
<1>2. PICK N \in Nat : N = L - 1
  BY <1>1
<1>3. \A k \in 1 .. N : L - k \in 1 .. L /\ L - k + 1 \in 1 .. L
  BY <1>1, <1>2
<1>4. PICK h \in [0 .. N -> [D -> V]] : PopsOf(h, t, chain, N)
  BY <1>1, <1>3, PoppedRounds
<1>5. h[0] = t /\ h[N] = Unwind(t, chain)
  BY <1>1, <1>2, <1>4 DEF PopsOf, Unwind
<1> DEFINE P == {k \in 0 .. N :
       /\ \A m \in 1 .. L - 1 : m >= L - k => h[k][chain[m + 1]] = t[chain[m]]
       /\ k > 0 => h[k][chain[L - k]] = Free
       /\ \A j \in D : (\A m \in 1 .. L : m >= L - k => chain[m] # j) => h[k][j] = t[j]}
<1>6. 0 \in P
  BY <1>1, <1>5
<1>7. ASSUME NEW k \in 1 .. N, k - 1 \in P PROVE k \in P
  <2>1. PICK from, to : from = chain[L - k] /\ to = chain[L - k + 1]
    OBVIOUS
  <2>2. from \in D /\ to \in D /\ from # to
    BY <1>1, <1>3, <2>1
  <2>3. h[k] = CopyAndFree(h[k - 1], from, to) /\ h[k - 1] \in [D -> V]
    BY <1>1, <1>4, <2>1 DEF PopsOf
  <2>4. /\ h[k][from] = Free /\ h[k][to] = h[k - 1][from]
        /\ \A j \in D \ {from, to} : h[k][j] = h[k - 1][j]
    BY <2>2, <2>3 DEF CopyAndFree
  <2>5. /\ \A m \in 1 .. L - 1 : m >= L - k + 1 => h[k - 1][chain[m + 1]] = t[chain[m]]
        /\ \A j \in D : (\A m \in 1 .. L : m >= L - k + 1 => chain[m] # j) => h[k - 1][j] = t[j]
    BY <1>1, <1>7
  <2>6. h[k - 1][from] = t[from]
    <3>1. ASSUME NEW m \in 1 .. L, m >= L - k + 1 PROVE chain[m] # from
      <4>1. L - k \in 1 .. L /\ m # L - k
        BY <1>1, <1>3, <3>1
      <4> QED  BY <1>1, <2>1, <4>1
    <3> QED  BY <2>2, <2>5, <3>1
  <2>7. ASSUME NEW m \in 1 .. L - 1, m >= L - k PROVE h[k][chain[m + 1]] = t[chain[m]]
    <3>1. CASE m = L - k
      BY <2>1, <2>4, <2>6, <3>1
    <3>2. CASE m # L - k
      <4>1. m + 1 \in 1 .. L /\ m >= L - k + 1 /\ m + 1 # L - k /\ m + 1 # L - k + 1
        BY <1>1, <1>2, <2>7, <3>2
      <4>2. chain[m + 1] \in D \ {from, to}
        BY <1>1, <1>3, <2>1, <4>1
      <4> QED  BY <2>4, <2>5, <4>1, <4>2
    <3> QED  BY <3>1, <3>2
  <2>8. ASSUME NEW j \in D, \A m \in 1 .. L : m >= L - k => chain[m] # j PROVE h[k][j] = t[j]
    <3>1. j # from /\ j # to /\ \A m \in 1 .. L : m >= L - k + 1 => chain[m] # j
      BY <1>1, <1>3, <2>1, <2>8
    <3> QED  BY <2>4, <2>5, <3>1
  <2> QED  BY <2>1, <2>4, <2>7, <2>8
<1>8. N \in P
  <2> HIDE DEF P
  <2>1. \A k \in 0 .. N : k \in P
    BY <1>6, <1>7, UpTo
  <2> QED  BY <2>1
<1> QED  BY <1>1, <1>2, <1>4, <1>5, <1>8 DEF Unwound

-----------------------------------------------------------------------------
(* One round of the second pass. *)

(* No two elements go to one slot. *)
Apart(F) == \A i, j \in DOMAIN F : F[i] # Invalid /\ F[i] = F[j] => i = j

NoneCloses(F) == \A i \in DOMAIN F : F[i] \notin {Invalid, i} => ~Closed(ChainFrom(F, i))

(* The elements of the slots "done" are where F sends them, and where      *)
(* they lead are no others that could be in the way.                       *)
Onward(F, done) ==
  \A o \in done : /\ o \in DOMAIN F /\ F[o] # Invalid
                  /\ F[o] \in DOMAIN F /\ F[F[o]] # Invalid => F[o] \in done

MovedBy(F, t, st, done) ==
  /\ Onward(F, done)
  /\ st.first = [j \in DOMAIN F |-> IF j \in done THEN Invalid ELSE F[j]]
  /\ \A o \in done : st.t[F[o]] = t[o]
  /\ \A j \in DOMAIN t :
       (\A o \in done : F[o] # j) => st.t[j] = IF j \in done THEN Free ELSE t[j]

(* The chain of the destinations that are left.  It is open, its slots are *)
(* apart, the last of them has nowhere to go or is done, and no element    *)
(* that has moved is in one of them.                                       *)
RestOfChain(F, done, i, c, A, B) ==
  LET L == Len(c)
  IN  /\ L \in Nat /\ L > 1 /\ c[1] = i
      /\ \A m \in 1 .. L - 1 : c[m] \in Slots(A) \ done /\ F[c[m]] # Invalid /\ c[m + 1] = F[c[m]]
      /\ \A m \in 1 .. L : c[m] \in Slots(A) \cup Slots(B)
      /\ \A m, n \in 1 .. L : c[m] = c[n] => m = n
      /\ c[L] \in Slots(A) => c[L] \in done \/ F[c[L]] = Invalid
      /\ \A o \in done : \A m \in 1 .. L : F[o] # c[m]

LEMMA ChainLeft ==
  ASSUME NEW A \in Nat, NEW B \in Nat, NEW F \in Firsts(A, B), Apart(F), NoneCloses(F),
         NEW t, NEW st, NEW done, MovedBy(F, t, st, done),
         NEW i \in Slots(A), st.first[i] \notin {Invalid, i}, NEW c, c = ChainFrom(st.first, i)
  PROVE  RestOfChain(F, done, i, c, A, B)
<1> DEFINE D == Slots(A) \cup Slots(B)
<1>1. /\ DOMAIN F = Slots(A) /\ DOMAIN st.first = Slots(A) /\ Slots(A) \subseteq D
      /\ \A j \in Slots(A) : st.first[j] = IF j \in done THEN Invalid ELSE F[j]
      /\ \A j \in Slots(A) : F[j] # Invalid => F[j] \in Slots(B)
      /\ \A j \in D : j \in Int /\ j # Invalid
  BY DEF MovedBy, Firsts, Slots, Invalid
<1>2. IsFiniteSet(Slots(A)) /\ \A j \in Slots(A) : st.first[j] \in Int /\ F[j] \in Int
  <2>1. IsFiniteSet(Slots(A))
    BY FS_Interval DEF Slots
  <2>2. Invalid \in Int /\ Slots(B) \subseteq Int
    BY DEF Invalid, Slots
  <2> QED  BY <1>1, <2>1, <2>2
<1>3. ChainOf(st.first, i, c) /\ Finished(st.first, c)
  BY <1>1, <1>2, ChainEnds DEF Slots
<1>4. ~Closed(c)
  <2>1. F[i] \notin {Invalid, i}
    BY <1>1
  <2>2. PICK d : d = ChainFrom(F, i)
    OBVIOUS
  <2>3. ChainOf(F, i, d) /\ Finished(F, d) /\ ~Closed(d)
    BY <1>1, <1>2, <2>1, <2>2, ChainEnds DEF Slots, NoneCloses
  <2> QED  BY <1>1, <1>3, <2>3, ClosedBefore
<1>5. PICK L \in Nat : L = Len(c) /\ L >= 1
  BY <1>3 DEF ChainOf
<1>6. /\ c[1] = i
      /\ \A m \in 1 .. L - 1 : c[m] \in Slots(A) \ done /\ F[c[m]] # Invalid /\ c[m + 1] = F[c[m]]
      /\ \A m \in 1 .. L : c[m] \in D
  <2>1. c[1] = i /\ \A m \in 1 .. L - 1 : c[m] \in Slots(A) \ done /\ F[c[m]] # Invalid /\ c[m + 1] = F[c[m]]
    BY <1>1, <1>3, <1>5 DEF ChainOf
  <2>2. ASSUME NEW m \in 1 .. L PROVE c[m] \in D
    <3>1. CASE m = 1
      BY <2>1, <3>1
    <3>2. CASE m # 1
      <4>1. m - 1 \in 1 .. L - 1 /\ (m - 1) + 1 = m
        BY <1>5, <3>2
      <4> QED  BY <1>1, <2>1, <4>1
    <3> QED  BY <3>1, <3>2
  <2> QED  BY <2>1, <2>2
<1>7. \A m, n \in 1 .. L : c[m] = c[n] => m = n
  <2>1. \A m \in 1 .. L - 1 : c[m] # c[L]
    BY <1>4, <1>5 DEF Closed, Last
  <2>2. \A m, n \in 1 .. L - 1 : c[m] = c[n] => m = n
    BY <1>3, <1>5 DEF ChainOf
  <2>3. \A m \in 1 .. L : m = L \/ m \in 1 .. L - 1
    BY <1>5
  <2> QED  BY <2>1, <2>2, <2>3
<1>8. L > 1
  <2>1. Destination(st.first, i) # Invalid
    BY <1>1 DEF Destination
  <2> QED  BY <1>3, <1>4, <1>5, <1>6, <2>1 DEF Finished, Last
<1>9. c[L] \in Slots(A) => c[L] \in done \/ F[c[L]] = Invalid
  BY <1>1, <1>3, <1>4, <1>5 DEF Finished, Destination, Last
<1>10. \A o \in done : \A m \in 1 .. L : F[o] # c[m]
  <2> SUFFICES ASSUME NEW o \in done, NEW m \in 1 .. L, F[o] = c[m] PROVE FALSE
    OBVIOUS
  <2>1. o \in Slots(A) /\ F[o] # Invalid /\ (F[o] \in Slots(A) /\ F[F[o]] # Invalid => F[o] \in done)
    BY <1>1 DEF MovedBy, Onward
  <2>2. CASE m = 1
    BY <1>6, <1>8, <2>1, <2>2
  <2>3. CASE m # 1
    <3>1. m - 1 \in 1 .. L - 1 /\ (m - 1) + 1 = m
      BY <1>5, <2>3
    <3>2. F[o] = F[c[m - 1]] /\ c[m - 1] \in Slots(A) \ done
      BY <1>6, <3>1
    <3> QED  BY <1>1, <2>1, <3>2 DEF Apart
  <2> QED  BY <2>2, <2>3
<1> QED  BY <1>5, <1>6, <1>7, <1>8, <1>9, <1>10 DEF RestOfChain

LEMMA MoveFromMoves ==
  ASSUME NEW A \in Nat, NEW B \in Nat, NEW F \in Firsts(A, B), Apart(F), NoneCloses(F),
         NEW V, Free \in V, NEW t \in [Slots(A) \cup Slots(B) -> V],
         NEW st, st.t \in [Slots(A) \cup Slots(B) -> V], NEW done, MovedBy(F, t, st, done),
         NEW i \in Slots(A)
  PROVE  \E more : /\ done \subseteq more
                   /\ F[i] \in {Invalid, i} \/ i \in more
                   /\ MovedBy(F, t, MoveFrom(st, i), more)
                   /\ MoveFrom(st, i).t \in [Slots(A) \cup Slots(B) -> V]
<1> DEFINE D == Slots(A) \cup Slots(B)
<1>1. /\ DOMAIN F = Slots(A) /\ DOMAIN st.first = Slots(A) /\ Slots(A) \subseteq D
      /\ \A j \in Slots(A) : st.first[j] = IF j \in done THEN Invalid ELSE F[j]
      /\ \A j \in Slots(A) : F[j] # Invalid => F[j] \in Slots(B)
      /\ \A j \in D : j \in Int /\ j # Invalid
  BY DEF MovedBy, Firsts, Slots, Invalid
<1>2. CASE st.first[i] \in {Invalid, i}
  <2>1. MoveFrom(st, i) = st
    BY <1>2 DEF MoveFrom
  <2>2. F[i] \in {Invalid, i} \/ i \in done
    BY <1>1, <1>2
  <2> QED  BY <2>1, <2>2
<1>3. CASE st.first[i] \notin {Invalid, i}
  <2>1. PICK c : c = ChainFrom(st.first, i)
    OBVIOUS
  <2>2. RestOfChain(F, done, i, c, A, B)
    BY <1>3, <2>1, ChainLeft
  <2>5. PICK L \in Nat : L = Len(c) /\ L >= 1
    BY <2>2 DEF RestOfChain
  <2>6. /\ c[1] = i
        /\ \A m \in 1 .. L - 1 : c[m] \in Slots(A) \ done /\ F[c[m]] # Invalid /\ c[m + 1] = F[c[m]]
        /\ \A m \in 1 .. L : c[m] \in D
    BY <2>2, <2>5 DEF RestOfChain
  <2>7. \A m, n \in 1 .. L : c[m] = c[n] => m = n
    BY <2>2, <2>5 DEF RestOfChain
  <2>8. L > 1
    BY <2>2, <2>5 DEF RestOfChain
  <2>9. c[L] \in Slots(A) => c[L] \in done \/ F[c[L]] = Invalid
    BY <2>2, <2>5 DEF RestOfChain
  <2> DEFINE u    == Unwind(st.t, c)
             more == done \cup {c[m] : m \in 1 .. L - 1}
  <2>10. u \in [D -> V] /\ Unwound(u, st.t, c)
    BY <2>5, <2>6, <2>7, UnwindResult
  <2>11. MoveFrom(st, i) =
           [t     |-> u,
            first |-> [j \in DOMAIN st.first |->
                         IF j \in {c[m] : m \in 1 .. L} THEN Invalid ELSE st.first[j]]]
    BY <1>3, <2>1, <2>5 DEF MoveFrom
  <2> HIDE DEF u
  <2>12. \A o \in done : \A m \in 1 .. L : F[o] # c[m]
    BY <2>2, <2>5 DEF RestOfChain
  <2>13. Onward(F, more)
    <3>1. ASSUME NEW m \in 1 .. L - 1, c[m + 1] \in Slots(A), F[c[m + 1]] # Invalid
          PROVE  c[m + 1] \in more
      <4>1. CASE m + 1 = L
        BY <2>9, <3>1, <4>1
      <4>2. CASE m + 1 # L
        <5>1. m + 1 \in 1 .. L - 1
          BY <2>5, <4>2
        <5> QED  BY <5>1
      <4> QED  BY <4>1, <4>2
    <3>2. \A m \in 1 .. L - 1 : /\ c[m] \in DOMAIN F /\ F[c[m]] # Invalid
                                /\ F[c[m]] \in DOMAIN F /\ F[F[c[m]]] # Invalid => F[c[m]] \in more
      BY <1>1, <2>6, <3>1
    <3> QED  BY <3>2 DEF MovedBy, Onward
  <2>14. MoveFrom(st, i).first = [j \in DOMAIN F |-> IF j \in more THEN Invalid ELSE F[j]]
    <3>1. ASSUME NEW j \in Slots(A)
          PROVE  MoveFrom(st, i).first[j] = IF j \in more THEN Invalid ELSE F[j]
      <4>1. CASE \E m \in 1 .. L - 1 : j = c[m]
        <5>1. PICK m \in 1 .. L - 1 : j = c[m]
          BY <4>1
        <5>2. m \in 1 .. L
          BY <2>5
        <5> QED  BY <1>1, <2>11, <5>1, <5>2
      <4>2. CASE j = c[L]
        <5>1. L \in 1 .. L /\ (j \in done \/ F[j] = Invalid)
          BY <2>5, <2>9, <4>2
        <5>2. MoveFrom(st, i).first[j] = Invalid
          BY <1>1, <2>5, <2>11, <4>2
        <5> QED  BY <5>1, <5>2
      <4>3. CASE ~(\E m \in 1 .. L - 1 : j = c[m]) /\ j # c[L]
        <5>1. \A m \in 1 .. L : m = L \/ m \in 1 .. L - 1
          BY <2>5
        <5> QED  BY <1>1, <2>11, <4>3, <5>1
      <4> QED  BY <4>1, <4>2, <4>3
    <3> QED  BY <1>1, <2>11, <3>1
  <2>15. \A o \in more : u[F[o]] = t[o]
    <3>1. ASSUME NEW o \in done PROVE u[F[o]] = t[o]
      <4>1. F[o] \in D /\ st.t[F[o]] = t[o]
        BY <1>1 DEF MovedBy, Onward
      <4> QED  BY <2>5, <2>10, <2>12, <4>1 DEF Unwound
    <3>2. ASSUME NEW m \in 1 .. L - 1 PROVE u[F[c[m]]] = t[c[m]]
      <4>1. m \in 1 .. L /\ c[m] \in D /\ c[m] \notin done
        BY <2>5, <2>6
      <4>2. st.t[c[m]] = t[c[m]]
        BY <2>12, <4>1 DEF MovedBy
      <4> QED  BY <2>5, <2>6, <2>10, <4>2 DEF Unwound
    <3> QED  BY <3>1, <3>2
  <2>16. ASSUME NEW j \in D, \A o \in more : F[o] # j
         PROVE  u[j] = IF j \in more THEN Free ELSE t[j]
    <3>1. \A m \in 1 .. L - 1 : j # c[m + 1]
      BY <2>6, <2>16
    <3>2. CASE j = c[1]
      BY <2>5, <2>8, <2>10, <3>2 DEF Unwound
    <3>3. CASE j # c[1]
      <4>1. ASSUME NEW m \in 1 .. L PROVE c[m] # j
        <5>1. m # 1 => m - 1 \in 1 .. L - 1 /\ (m - 1) + 1 = m
          BY <2>5
        <5> QED  BY <3>1, <3>3, <5>1
      <4>2. u[j] = st.t[j]
        BY <2>5, <2>10, <4>1 DEF Unwound
      <4>3. j \in more <=> j \in done
        BY <2>5, <4>1
      <4> QED  BY <2>16, <4>2, <4>3 DEF MovedBy
    <3> QED  BY <3>2, <3>3
  <2>17. i \in more
    BY <2>5, <2>6, <2>8
  <2>18. MoveFrom(st, i).t = u
    BY <2>11
  <2>19. MovedBy(F, t, MoveFrom(st, i), more)
    BY <2>13, <2>14, <2>15, <2>16, <2>18 DEF MovedBy
  <2> QED  BY <2>10, <2>17, <2>18, <2>19
<1> QED  BY <1>2, <1>3

-----------------------------------------------------------------------------
(* All rounds. *)

States(A, B, V) == [t : [Slots(A) \cup Slots(B) -> V], first : Firsts(A, B)]

(* Where chains lead, closed or not. *)
LEMMA ChainSlots ==
  ASSUME NEW A \in Nat, NEW B \in Nat, NEW F \in Firsts(A, B), NEW i \in Slots(A),
         NEW c, c = ChainFrom(F, i)
  PROVE  /\ Len(c) \in Nat /\ Len(c) >= 1
         /\ \A m \in 1 .. Len(c) : c[m] \in Slots(A) \cup Slots(B)
         /\ \A m \in 1 .. Len(c) - 1 : c[m] \in Slots(A) /\ F[c[m]] # Invalid /\ c[m + 1] = F[c[m]]
<1>1. IsFiniteSet(Slots(A)) /\ DOMAIN F = Slots(A)
  BY FS_Interval DEF Slots, Firsts
<1>2. Slots(B) \cup {Invalid} \subseteq Int /\ i \in Int
  BY DEF Slots, Invalid
<1>3. \A j \in Slots(A) : F[j] \in Int /\ (F[j] # Invalid => F[j] \in Slots(B))
  BY <1>2 DEF Firsts
<1>4. ChainOf(F, i, c)
  BY <1>1, <1>2, <1>3, ChainEnds
<1>5. PICK L \in Nat : L = Len(c) /\ L >= 1
  BY <1>4 DEF ChainOf
<1>6. c[1] = i /\ \A m \in 1 .. L - 1 : c[m] \in Slots(A) /\ F[c[m]] # Invalid /\ c[m + 1] = F[c[m]]
  BY <1>1, <1>4, <1>5 DEF ChainOf
<1>7. ASSUME NEW m \in 1 .. L PROVE c[m] \in Slots(A) \cup Slots(B)
  <2>1. m # 1 => m - 1 \in 1 .. L - 1 /\ (m - 1) + 1 = m
    BY <1>5
  <2> QED  BY <1>3, <1>6, <2>1
<1> QED  BY <1>5, <1>6, <1>7

LEMMA MoveFromType ==
  ASSUME NEW A \in Nat, NEW B \in Nat, NEW V, Free \in V,
         NEW st \in States(A, B, V), NEW i \in Slots(A)
  PROVE  MoveFrom(st, i) \in States(A, B, V)
<1>1. st.t \in [Slots(A) \cup Slots(B) -> V] /\ st.first \in Firsts(A, B)
  BY DEF States
<1>2. PICK c : c = ChainFrom(st.first, i)
  OBVIOUS
<1>3. /\ Len(c) \in Nat /\ Len(c) >= 1
      /\ \A m \in 1 .. Len(c) : c[m] \in Slots(A) \cup Slots(B)
  BY <1>1, <1>2, ChainSlots
<1>4. PICK N \in Nat : N = Len(c) - 1
  BY <1>3
<1>5. \A k \in 1 .. N : c[Len(c) - k] \in Slots(A) \cup Slots(B)
  BY <1>3, <1>4
<1>6. Unwind(st.t, c) \in [Slots(A) \cup Slots(B) -> V]
  <2>1. Popped(st.t, c, N) \in [Slots(A) \cup Slots(B) -> V]
    BY <1>1, <1>5, PoppedType
  <2> QED  BY <1>4, <2>1 DEF Unwind
<1>7. [j \in DOMAIN st.first |->
         IF j \in {c[m] : m \in 1 .. Len(c)} THEN Invalid ELSE st.first[j]] \in Firsts(A, B)
  BY <1>1 DEF Firsts
<1> QED  BY <1>2, <1>6, <1>7 DEF MoveFrom, States

LEMMA GrownType ==
  ASSUME NEW A \in Nat, NEW B \in Nat, NEW V, Free \in V, NEW t \in [Slots(A) -> V]
  PROVE  /\ Grown(t, B) \in [Slots(A) \cup Slots(B) -> V]
         /\ \A i \in Slots(A) : Grown(t, B)[i] = t[i]
         /\ \A i \in Slots(B) \ Slots(A) : Grown(t, B)[i] = Free
BY DEF Grown

RoundsOf(h, t, plan, n, A, B) ==
  /\ h[0] = [t |-> Grown(t, B), first |-> plan.first]
  /\ h[n] = MovedSoFar(t, plan, n, A, B)
  /\ \A m \in 1 .. n : h[m] = MoveFrom(h[m - 1], m - 1)

LEMMA MovedRounds ==
  ASSUME NEW A \in Nat, NEW B \in Nat, NEW V, Free \in V, NEW t \in [Slots(A) -> V],
         NEW plan, plan.first \in Firsts(A, B), NEW n \in 0 .. A
  PROVE  \E h \in [0 .. n -> States(A, B, V)] : RoundsOf(h, t, plan, n, A, B)
<1>1. PICK S, base : S = States(A, B, V) /\ base = [t |-> Grown(t, B), first |-> plan.first]
  OBVIOUS
<1>2. base \in S
  BY <1>1, GrownType DEF States
<1>3. \A m \in 1 .. n : \A s \in S : MoveFrom(s, m - 1) \in S
  <2>1. \A m \in 1 .. n : m - 1 \in Slots(A)
    BY DEF Slots
  <2> QED  BY <1>1, <2>1, MoveFromType
<1> DEFINE G == [m \in 1 .. n |-> [s \in S |-> MoveFrom(s, m - 1)]]
<1>4. G \in StepsOn(S, n) /\ \A m \in 1 .. n : \A s \in S : G[m][s] = MoveFrom(s, m - 1)
  BY <1>3 DEF StepsOn
<1> HIDE DEF G
<1>5. n \in Nat
  OBVIOUS
<1>6. PICK h : Iterates(h, S, n, base, G)
  BY <1>2, <1>4, <1>5, Iteration
<1>7. h \in [0 .. n -> S] /\ h[0] = base
  BY <1>6 DEF Iterates
<1>8. \A m \in 1 .. n : h[m] = MoveFrom(h[m - 1], m - 1)
  <2>1. \A m \in 1 .. n : m - 1 \in 0 .. n
    OBVIOUS
  <2> QED  BY <1>4, <1>6, <1>7, <2>1 DEF Iterates
<1>9. h = [m \in 0 .. n |-> IF m = 0 THEN base ELSE MoveFrom(h[m - 1], m - 1)]
  BY <1>7, <1>8
<1> DEFINE after ==
      CHOOSE f : f = [m \in 0 .. n |->
        IF m = 0 THEN [t |-> Grown(t, B), first |-> plan.first] ELSE MoveFrom(f[m - 1], m - 1)]
<1>10. MovedSoFar(t, plan, n, A, B) = after[n]
  BY DEF MovedSoFar
<1>11. after = [m \in 0 .. n |-> IF m = 0 THEN base ELSE MoveFrom(after[m - 1], m - 1)]
  BY <1>1, <1>9
<1> HIDE DEF after
<1>12. after[0] = base /\ \A m \in 1 .. n : after[m] = MoveFrom(after[m - 1], m - 1)
  <2>1. 0 \in 0 .. n /\ \A m \in 1 .. n : m \in 0 .. n /\ m # 0
    OBVIOUS
  <2> QED  BY <1>11, <2>1
<1> DEFINE P == {m \in 0 .. n : after[m] \in S}
<1>13. \A m \in 0 .. n : m \in P
  <2>1. 0 \in P
    BY <1>2, <1>12
  <2>2. ASSUME NEW m \in 1 .. n, m - 1 \in P PROVE m \in P
    BY <1>3, <1>12, <2>2
  <2> HIDE DEF P
  <2> QED  BY <1>5, <2>1, <2>2, UpTo
<1>14. after \in [0 .. n -> States(A, B, V)]
  BY <1>1, <1>11, <1>13
<1> QED  BY <1>1, <1>10, <1>12, <1>14 DEF RoundsOf

LEMMA MovesDone ==
  ASSUME NEW A \in Nat, NEW B \in Nat, NEW V, Free \in V, NEW t \in [Slots(A) -> V],
         NEW plan, plan.first \in Firsts(A, B), Apart(plan.first), NoneCloses(plan.first),
         NEW n \in 0 .. A
  PROVE  \E done :
           /\ MovedBy(plan.first, Grown(t, B), MovedSoFar(t, plan, n, A, B), done)
           /\ \A i \in 0 .. n - 1 : plan.first[i] \in {Invalid, i} \/ i \in done
<1>1. PICK h \in [0 .. n -> States(A, B, V)] : RoundsOf(h, t, plan, n, A, B)
  BY MovedRounds
<1>2. PICK F, u : F = plan.first /\ u = Grown(t, B)
  OBVIOUS
<1>3. F \in Firsts(A, B) /\ Apart(F) /\ NoneCloses(F) /\ u \in [Slots(A) \cup Slots(B) -> V]
  BY <1>2, GrownType
<1> DEFINE P == {m \in 0 .. n : \E done :
                   MovedBy(F, u, h[m], done) /\ \A i \in 0 .. m - 1 : F[i] \in {Invalid, i} \/ i \in done}
<1>4. 0 \in P
  <2>1. h[0] = [t |-> u, first |-> F]
    BY <1>1, <1>2 DEF RoundsOf
  <2>2. F = [j \in DOMAIN F |-> F[j]]
    BY <1>3 DEF Firsts
  <2>3. MovedBy(F, u, h[0], {})
    BY <2>1, <2>2 DEF MovedBy, Onward
  <2> QED  BY <2>3
<1>5. ASSUME NEW m \in 1 .. n, m - 1 \in P PROVE m \in P
  <2>1. PICK done : /\ MovedBy(F, u, h[m - 1], done)
                    /\ \A i \in 0 .. m - 2 : F[i] \in {Invalid, i} \/ i \in done
    BY <1>5
  <2>2. PICK st, i : st = h[m - 1] /\ i = m - 1
    OBVIOUS
  <2>3. i \in Slots(A) /\ st \in States(A, B, V) /\ h[m] = MoveFrom(st, i)
    BY <1>1, <2>2 DEF Slots, RoundsOf
  <2>4. st.t \in [Slots(A) \cup Slots(B) -> V]
    BY <2>3 DEF States
  <2>5. PICK more : /\ done \subseteq more
                    /\ F[i] \in {Invalid, i} \/ i \in more
                    /\ MovedBy(F, u, MoveFrom(st, i), more)
                    /\ MoveFrom(st, i).t \in [Slots(A) \cup Slots(B) -> V]
    <3>1. MovedBy(F, u, st, done)
      BY <2>1, <2>2
    <3> QED
      BY ONLY A \in Nat, B \in Nat, Free \in V, <1>3, <2>3, <2>4, <3>1, MoveFromMoves, Zenon
  <2>6. \A j \in 0 .. m - 1 : j = i \/ j \in 0 .. m - 2
    BY <2>2
  <2>7. \A j \in 0 .. m - 1 : F[j] \in {Invalid, j} \/ j \in more
    BY <2>1, <2>5, <2>6
  <2> QED  BY <2>3, <2>5, <2>7
<1>6. n \in P
  <2> HIDE DEF P
  <2>1. \A m \in 0 .. n : m \in P
    BY <1>4, <1>5, UpTo
  <2> QED  BY <2>1
<1>7. h[n] = MovedSoFar(t, plan, n, A, B)
  BY <1>1 DEF RoundsOf
<1> QED  BY <1>2, <1>6, <1>7

-----------------------------------------------------------------------------
(* Between two moves every element is in the file: an open chain is        *)
(* unwound over slots that are free.                                       *)

TakenOf(t) == {i \in DOMAIN t : t[i] # Free}

ElementsOf(t) == {t[i] : i \in TakenOf(t)}

LEMMA CopyKeepsElements ==
  ASSUME NEW t, NEW from \in DOMAIN t, NEW to \in DOMAIN t, from # to, t[to] = Free
  PROVE  /\ ElementsOf(CopyAndFree(t, from, to)) = ElementsOf(t)
         /\ ElementsOf(CopyOnly(t, from, to)) = ElementsOf(t)
         /\ CopyAndFree(t, from, to)[from] = Free
<1>1. PICK u : u = CopyAndFree(t, from, to)
  OBVIOUS
<1>2. PICK w : w = CopyOnly(t, from, to)
  OBVIOUS
<1>3. /\ DOMAIN u = DOMAIN t /\ u[from] = Free /\ u[to] = t[from]
      /\ \A i \in DOMAIN t \ {from, to} : u[i] = t[i]
  BY <1>1 DEF CopyAndFree
<1>4. /\ DOMAIN w = DOMAIN t /\ w[to] = t[from]
      /\ \A i \in DOMAIN t \ {to} : w[i] = t[i]
  BY <1>2 DEF CopyOnly
<1>5. \A x : (\E i \in DOMAIN t : t[i] # Free /\ t[i] = x) <=> (\E i \in DOMAIN t : u[i] # Free /\ u[i] = x)
  BY <1>3
<1>6. \A x : (\E i \in DOMAIN t : t[i] # Free /\ t[i] = x) <=> (\E i \in DOMAIN t : w[i] # Free /\ w[i] = x)
  BY <1>4
<1>7. ElementsOf(u) = ElementsOf(t)
  BY <1>3, <1>5 DEF ElementsOf, TakenOf
<1>8. ElementsOf(w) = ElementsOf(t)
  BY <1>4, <1>6 DEF ElementsOf, TakenOf
<1> QED  BY <1>1, <1>2, <1>3, <1>7, <1>8

LEMMA PoppedKeepsElements ==
  ASSUME NEW t, t = [i \in DOMAIN t |-> t[i]],
         NEW c, NEW L \in Nat, L = Len(c), L >= 1, \A m \in 1 .. L : c[m] \in DOMAIN t,
         \A m, n \in 1 .. L : c[m] = c[n] => m = n,
         t[c[L]] = Free, NEW n \in 0 .. L - 1
  PROVE  /\ DOMAIN Popped(t, c, n) = DOMAIN t
         /\ ElementsOf(Popped(t, c, n)) = ElementsOf(t)
         /\ Popped(t, c, n)[c[L - n]] = Free
<1> n \in Nat
  OBVIOUS
<1>0. PICK D, V : D = DOMAIN t /\ Free \in V /\ t \in [D -> V]
  <2>1. PICK D : D = DOMAIN t
    OBVIOUS
  <2>2. PICK V : V = {t[i] : i \in D} \cup {Free}
    OBVIOUS
  <2>3. Free \in V /\ \A i \in D : t[i] \in V
    BY <2>2
  <2>4. t \in [D -> V]
    BY <2>1, <2>3
  <2> QED  BY <2>1, <2>3, <2>4
<1>1. \A k \in 1 .. n : L - k \in 1 .. L /\ L - k + 1 \in 1 .. L /\ L - (k - 1) = L - k + 1
  OBVIOUS
<1>2. PICK h \in [0 .. n -> [D -> V]] : PopsOf(h, t, c, n)
  <2>1. \A k \in 1 .. n : c[Len(c) - k] \in D
    BY <1>0, <1>1
  <2>2. Free \in V /\ t \in [D -> V]
    BY <1>0
  <2> QED  BY ONLY n \in Nat, <2>1, <2>2, PoppedRounds
<1> DEFINE P == {k \in 0 .. n : ElementsOf(h[k]) = ElementsOf(t) /\ h[k][c[L - k]] = Free}
<1>3. 0 \in P
  BY <1>2 DEF PopsOf
<1>4. ASSUME NEW k \in 1 .. n, k - 1 \in P PROVE k \in P
  <2>1. PICK from, to : from = c[L - k] /\ to = c[L - k + 1]
    OBVIOUS
  <2>2. from \in D /\ to \in D /\ from # to
    <3>1. L - k # L - k + 1
      OBVIOUS
    <3> QED  BY <1>0, <1>1, <2>1, <3>1
  <2>3. PICK u \in [D -> V] : u = h[k - 1]
    OBVIOUS
  <2>4. u[to] = Free /\ ElementsOf(u) = ElementsOf(t)
    BY <1>1, <1>4, <2>1, <2>3
  <2>5. h[k] = CopyAndFree(u, from, to)
    BY <1>2, <2>1, <2>3 DEF PopsOf
  <2>6. ElementsOf(h[k]) = ElementsOf(t) /\ h[k][from] = Free
    BY <2>2, <2>4, <2>5, CopyKeepsElements
  <2> QED  BY <2>1, <2>6
<1>5. n \in P
  <2> HIDE DEF P
  <2>1. \A k \in 0 .. n : k \in P
    BY <1>3, <1>4, UpTo
  <2> QED  BY <2>1
<1>6. h[n] = Popped(t, c, n) /\ h[n] \in [D -> V]
  BY <1>2 DEF PopsOf
<1> QED  BY <1>0, <1>5, <1>6

(* Every element has a destination. *)
Covers(F, t) == \A i \in TakenOf(t) : i \in DOMAIN F /\ F[i] # Invalid

LEMMA MovedElements ==
  ASSUME NEW A \in Nat, NEW B \in Nat, NEW F \in Firsts(A, B),
         NEW t, DOMAIN t = Slots(A) \cup Slots(B), Covers(F, t),
         NEW st, DOMAIN st.t = DOMAIN t, NEW done, MovedBy(F, t, st, done)
  PROVE  ElementsOf(st.t) = ElementsOf(t)
<1>1. PICK D, u : D = Slots(A) \cup Slots(B) /\ u = st.t
  OBVIOUS
<1>2. /\ DOMAIN t = D /\ DOMAIN u = D /\ DOMAIN F = Slots(A) /\ Slots(A) \subseteq D
      /\ \A j \in Slots(A) : F[j] # Invalid => F[j] \in D
  BY <1>1 DEF Firsts
<1>3. /\ \A o \in done : /\ o \in Slots(A) /\ F[o] # Invalid
                         /\ F[o] \in Slots(A) /\ F[F[o]] # Invalid => F[o] \in done
                         /\ u[F[o]] = t[o]
      /\ \A j \in D : (\A o \in done : F[o] # j) => u[j] = IF j \in done THEN Free ELSE t[j]
  BY <1>1, <1>2 DEF MovedBy, Onward
<1>4. \A j \in D : t[j] # Free => j \in Slots(A) /\ F[j] # Invalid
  BY <1>2 DEF Covers, TakenOf
<1>5. ASSUME NEW j \in D, t[j] # Free PROVE \E i \in D : u[i] = t[j]
  <2>1. CASE j \in done
    BY <1>2, <1>3, <1>4, <1>5, <2>1
  <2>2. CASE j \notin done
    BY <1>3, <1>4, <1>5, <2>2
  <2> QED  BY <2>1, <2>2
<1>6. ASSUME NEW i \in D, u[i] # Free PROVE \E j \in D : u[i] = t[j]
  BY <1>2, <1>3, <1>6
<1> QED  BY <1>1, <1>2, <1>5, <1>6 DEF ElementsOf, TakenOf

(* After any number of rounds, and of pops of the chain that is next.      *)
LEMMA MovingKeepsElements ==
  ASSUME NEW A \in Nat, NEW B \in Nat, NEW V, Free \in V, NEW t \in [Slots(A) -> V],
         NEW plan, plan.first \in Firsts(A, B), Apart(plan.first), NoneCloses(plan.first),
         Covers(plan.first, t), NEW n \in 0 .. A,
         NEW st, st = MovedSoFar(t, plan, n, A, B)
  PROVE  /\ ElementsOf(st.t) = ElementsOf(t)
         /\ n < A /\ st.first[n] \notin {Invalid, n} =>
              \A c : c = ChainFrom(st.first, n) =>
                /\ Len(c) \in Nat /\ Len(c) > 1
                /\ \A m \in 1 .. Len(c) : c[m] \in Slots(A) \cup Slots(B)
                /\ \A m, k \in 1 .. Len(c) : c[m] = c[k] => m = k
                /\ st.t[c[Len(c)]] = Free
<1>1. PICK F, u : F = plan.first /\ u = Grown(t, B)
  OBVIOUS
<1>2. /\ u \in [Slots(A) \cup Slots(B) -> V]
      /\ \A i \in Slots(A) : u[i] = t[i]
      /\ \A i \in Slots(B) \ Slots(A) : u[i] = Free
  <2>1. /\ Grown(t, B) \in [Slots(A) \cup Slots(B) -> V]
        /\ \A i \in Slots(A) : Grown(t, B)[i] = t[i]
        /\ \A i \in Slots(B) \ Slots(A) : Grown(t, B)[i] = Free
    BY DEF Grown
  <2> QED  BY <1>1, <2>1
<1>3. ElementsOf(u) = ElementsOf(t) /\ Covers(F, u)
  BY <1>1, <1>2 DEF ElementsOf, TakenOf, Covers
<1>4. PICK done : MovedBy(F, u, st, done)
  BY <1>1, MovesDone
<1>5. st.t \in [Slots(A) \cup Slots(B) -> V]
  <2>1. PICK h \in [0 .. n -> States(A, B, V)] : RoundsOf(h, t, plan, n, A, B)
    BY MovedRounds
  <2>2. h[n] \in States(A, B, V) /\ h[n] = st
    BY <2>1 DEF RoundsOf
  <2> QED  BY <2>2 DEF States
<1>6. ElementsOf(st.t) = ElementsOf(u)
  <2>1. F \in Firsts(A, B)
    BY <1>1
  <2>2. DOMAIN u = Slots(A) \cup Slots(B) /\ DOMAIN st.t = DOMAIN u
    BY <1>2, <1>5
  <2>3. Covers(F, u) /\ MovedBy(F, u, st, done)
    BY <1>3, <1>4
  <2> QED  BY ONLY A \in Nat, B \in Nat, <2>1, <2>2, <2>3, MovedElements, SMTT(30)
<1>7. ASSUME n < A, st.first[n] \notin {Invalid, n}, NEW c, c = ChainFrom(st.first, n)
      PROVE  /\ Len(c) \in Nat /\ Len(c) > 1
             /\ \A m \in 1 .. Len(c) : c[m] \in Slots(A) \cup Slots(B)
             /\ \A m, k \in 1 .. Len(c) : c[m] = c[k] => m = k
             /\ st.t[c[Len(c)]] = Free
  <2>1. n \in Slots(A)
    BY <1>7 DEF Slots
  <2>2. RestOfChain(F, done, n, c, A, B)
    BY <1>1, <1>4, <1>7, <2>1, ChainLeft
  <2>3. PICK L \in Nat : L = Len(c) /\ L > 1
    BY <2>2 DEF RestOfChain
  <2>4. /\ \A m \in 1 .. L : c[m] \in Slots(A) \cup Slots(B)
        /\ \A m, k \in 1 .. L : c[m] = c[k] => m = k
        /\ c[L] \in Slots(A) => c[L] \in done \/ F[c[L]] = Invalid
        /\ \A o \in done : F[o] # c[L]
    BY <2>2, <2>3 DEF RestOfChain
  <2>5. c[L] \in DOMAIN u
    BY <1>2, <2>3, <2>4
  <2>6. st.t[c[L]] = IF c[L] \in done THEN Free ELSE u[c[L]]
    BY <1>4, <2>4, <2>5 DEF MovedBy
  <2>7. u[c[L]] # Free => c[L] \in Slots(A) /\ F[c[L]] # Invalid
    BY <1>1, <1>3, <2>5 DEF Covers, TakenOf, Firsts
  <2> QED  BY <2>3, <2>4, <2>6, <2>7
<1> QED  BY <1>3, <1>6, <1>7

-----------------------------------------------------------------------------
(* No move makes an element: where chains close some are lost.             *)

NoMore(u, t) ==
  /\ IsFiniteSet(TakenOf(u)) /\ IsFiniteSet(TakenOf(t))
  /\ Cardinality(TakenOf(u)) <= Cardinality(TakenOf(t))

LEMMA NoMoreTwice ==
  ASSUME NEW t, NEW u, NEW w, NoMore(w, u), NoMore(u, t)
  PROVE  NoMore(w, t)
BY FS_CardinalityType DEF NoMore

LEMMA CopyNoMore ==
  ASSUME NEW t, IsFiniteSet(TakenOf(t)), NEW from \in DOMAIN t, NEW to
  PROVE  NoMore(CopyAndFree(t, from, to), t)
<1>1. PICK T, u : T = TakenOf(t) /\ u = CopyAndFree(t, from, to)
  OBVIOUS
<1>2. IsFiniteSet(T) /\ Cardinality(T) \in Nat
  BY <1>1, FS_CardinalityType
<1>3. DOMAIN u = DOMAIN t
  BY <1>1 DEF CopyAndFree
<1>4. CASE from \in T
  <2>1. TakenOf(u) \subseteq (T \ {from}) \cup {to}
    BY <1>1 DEF TakenOf, CopyAndFree
  <2>2. IsFiniteSet(T \ {from}) /\ Cardinality(T \ {from}) = Cardinality(T) - 1
    BY <1>2, <1>4, FS_RemoveElement
  <2>3. PICK R, W : R = T \ {from} /\ W = R \cup {to}
    OBVIOUS
  <2>4. IsFiniteSet(W) /\ Cardinality(W) \in Nat /\ Cardinality(W) <= Cardinality(T)
    <3>1. IsFiniteSet(W) /\ Cardinality(W) = IF to \in R THEN Cardinality(R) ELSE Cardinality(R) + 1
      BY <2>2, <2>3, FS_AddElement
    <3>2. Cardinality(R) = Cardinality(T) - 1
      BY <2>2, <2>3
    <3>3. Cardinality(W) <= Cardinality(T)
      BY <1>2, <3>1, <3>2
    <3> QED  BY <3>1, <3>3, FS_CardinalityType
  <2>5. IsFiniteSet(TakenOf(u)) /\ Cardinality(TakenOf(u)) <= Cardinality(W)
    BY <2>1, <2>3, <2>4, FS_Subset
  <2>6. Cardinality(TakenOf(u)) \in Nat
    BY <2>5, FS_CardinalityType
  <2> QED  BY <1>1, <1>2, <2>4, <2>5, <2>6 DEF NoMore
<1>5. CASE from \notin T
  <2>1. TakenOf(u) \subseteq T
    <3> SUFFICES ASSUME NEW i \in DOMAIN t, u[i] # Free PROVE t[i] # Free
      BY <1>1, <1>3 DEF TakenOf
    <3>1. CASE i = from
      BY <1>1, <3>1 DEF CopyAndFree
    <3>2. CASE i = to /\ i # from
      <4>1. u[i] = t[from]
        BY <1>1, <3>2 DEF CopyAndFree
      <4> QED  BY <1>1, <1>5, <4>1 DEF TakenOf
    <3>3. CASE i # to /\ i # from
      BY <1>1, <3>3 DEF CopyAndFree
    <3> QED  BY <3>1, <3>2, <3>3
  <2>2. IsFiniteSet(TakenOf(u)) /\ Cardinality(TakenOf(u)) <= Cardinality(T)
    BY <1>2, <2>1, FS_Subset
  <2> QED  BY <1>1, <1>2, <2>2 DEF NoMore
<1> QED  BY <1>4, <1>5

LEMMA PoppedNoMore ==
  ASSUME NEW D, IsFiniteSet(D), NEW V, Free \in V, NEW t \in [D -> V],
         NEW chain, NEW n \in Nat, \A k \in 1 .. n : chain[Len(chain) - k] \in D
  PROVE  NoMore(Popped(t, chain, n), t)
<1>1. PICK h \in [0 .. n -> [D -> V]] : PopsOf(h, t, chain, n)
  BY PoppedRounds
<1>2. \A k \in 0 .. n : DOMAIN h[k] = D /\ IsFiniteSet(TakenOf(h[k]))
  <2> SUFFICES ASSUME NEW k \in 0 .. n PROVE DOMAIN h[k] = D /\ IsFiniteSet(TakenOf(h[k]))
    OBVIOUS
  <2>1. DOMAIN h[k] = D
    OBVIOUS
  <2>2. TakenOf(h[k]) \subseteq D
    BY <2>1 DEF TakenOf
  <2> QED  BY <2>1, <2>2, FS_Subset
<1> DEFINE P == {k \in 0 .. n : NoMore(h[k], t)}
<1>3. 0 \in P
  <2>1. h[0] = t /\ IsFiniteSet(TakenOf(t))
    BY <1>1, <1>2 DEF PopsOf
  <2> QED  BY <2>1, FS_CardinalityType DEF NoMore
<1>4. ASSUME NEW k \in 1 .. n, k - 1 \in P PROVE k \in P
  <2>1. h[k] = CopyAndFree(h[k - 1], chain[Len(chain) - k], chain[Len(chain) - k + 1])
    BY <1>1 DEF PopsOf
  <2>2. k - 1 \in 0 .. n /\ chain[Len(chain) - k] \in D
    OBVIOUS
  <2>3. NoMore(h[k], h[k - 1])
    BY <1>2, <2>1, <2>2, CopyNoMore
  <2> QED  BY <1>4, <2>3, NoMoreTwice
<1>5. n \in P
  <2> HIDE DEF P
  <2>1. \A k \in 0 .. n : k \in P
    BY <1>3, <1>4, UpTo
  <2> QED  BY <2>1
<1> QED  BY <1>1, <1>5 DEF PopsOf

LEMMA MoveFromNoMore ==
  ASSUME NEW A \in Nat, NEW B \in Nat, NEW V, Free \in V,
         NEW st \in States(A, B, V), NEW i \in Slots(A)
  PROVE  NoMore(MoveFrom(st, i).t, st.t)
<1>1. st.t \in [Slots(A) \cup Slots(B) -> V] /\ st.first \in Firsts(A, B)
  BY DEF States
<1>2. PICK c : c = ChainFrom(st.first, i)
  OBVIOUS
<1>3. /\ Len(c) \in Nat /\ Len(c) >= 1
      /\ \A m \in 1 .. Len(c) : c[m] \in Slots(A) \cup Slots(B)
  BY <1>1, <1>2, ChainSlots
<1>4. PICK N \in Nat : N = Len(c) - 1
  BY <1>3
<1>5. \A k \in 1 .. N : c[Len(c) - k] \in Slots(A) \cup Slots(B)
  BY <1>3, <1>4
<1>6. IsFiniteSet(Slots(A) \cup Slots(B))
  <2>1. IsFiniteSet(Slots(A)) /\ IsFiniteSet(Slots(B))
    BY FS_Interval DEF Slots
  <2> QED  BY <2>1, FS_Union
<1>7. NoMore(Popped(st.t, c, N), st.t)
  BY <1>1, <1>5, <1>6, PoppedNoMore
<1>8. NoMore(st.t, st.t)
  <2>1. IsFiniteSet(TakenOf(st.t))
    BY <1>1, <1>6, FS_Subset DEF TakenOf
  <2> QED  BY <2>1, FS_CardinalityType DEF NoMore
<1>9. MoveFrom(st, i).t = IF st.first[i] \in {Invalid, i} THEN st.t ELSE Popped(st.t, c, N)
  BY <1>2, <1>4 DEF MoveFrom, Unwind
<1> QED  BY <1>7, <1>8, <1>9

LEMMA MovesNoMore ==
  ASSUME NEW A \in Nat, NEW B \in Nat, NEW V, Free \in V, NEW t \in [Slots(A) -> V],
         NEW plan, plan.first \in Firsts(A, B), NEW n \in 0 .. A
  PROVE  /\ MovedSoFar(t, plan, n, A, B) \in States(A, B, V)
         /\ NoMore(MovedSoFar(t, plan, n, A, B).t, t)
<1>1. PICK h \in [0 .. n -> States(A, B, V)] : RoundsOf(h, t, plan, n, A, B)
  BY MovedRounds
<1> DEFINE P == {m \in 0 .. n : NoMore(h[m].t, t)}
<1>2. 0 \in P
  <2>1. h[0].t = Grown(t, B)
    BY <1>1 DEF RoundsOf
  <2>2. /\ Grown(t, B) \in [Slots(A) \cup Slots(B) -> V]
        /\ \A i \in Slots(A) : Grown(t, B)[i] = t[i]
        /\ \A i \in Slots(B) \ Slots(A) : Grown(t, B)[i] = Free
    BY DEF Grown
  <2>3. TakenOf(Grown(t, B)) = TakenOf(t)
    BY <2>2 DEF TakenOf
  <2>4. IsFiniteSet(TakenOf(t))
    <3>1. IsFiniteSet(Slots(A))
      BY FS_Interval DEF Slots
    <3> QED  BY <3>1, FS_Subset DEF TakenOf
  <2> QED  BY <2>1, <2>3, <2>4, FS_CardinalityType DEF NoMore
<1>3. ASSUME NEW m \in 1 .. n, m - 1 \in P PROVE m \in P
  <2>1. h[m] = MoveFrom(h[m - 1], m - 1) /\ m - 1 \in Slots(A) /\ h[m - 1] \in States(A, B, V)
    BY <1>1 DEF RoundsOf, Slots
  <2>2. NoMore(h[m].t, h[m - 1].t)
    BY <2>1, MoveFromNoMore
  <2> QED  BY <1>3, <2>2, NoMoreTwice
<1>4. n \in P
  <2>0. n \in Nat
    OBVIOUS
  <2> HIDE DEF P
  <2>1. \A m \in 0 .. n : m \in P
    BY <1>2, <1>3, <2>0, UpTo
  <2> QED  BY <2>1
<1>5. h[n] = MovedSoFar(t, plan, n, A, B) /\ h[n] \in States(A, B, V)
  BY <1>1 DEF RoundsOf
<1> QED  BY <1>4, <1>5

LEMMA MovedType ==
  ASSUME NEW A \in Nat, NEW B \in Nat, NEW V, Free \in V, NEW t \in [Slots(A) -> V],
         NEW plan, plan.first \in Firsts(A, B)
  PROVE  /\ Moved(t, plan, A, B) \in [Slots(B) -> V]
         /\ NoMore(Moved(t, plan, A, B), t)
<1>1. PICK st, u : st = MovedSoFar(t, plan, A, A, B) /\ u = Moved(t, plan, A, B)
  OBVIOUS
<1>2. st \in States(A, B, V) /\ NoMore(st.t, t)
  <2>1. A \in 0 .. A
    OBVIOUS
  <2> QED  BY <1>1, <2>1, MovesNoMore
<1>3. st.t \in [Slots(A) \cup Slots(B) -> V] /\ u = [i \in Slots(B) |-> st.t[i]]
  BY <1>1, <1>2 DEF States, Moved
<1>4. TakenOf(u) \subseteq TakenOf(st.t)
  BY <1>3 DEF TakenOf
<1>5. NoMore(u, st.t)
  BY <1>2, <1>4, FS_Subset DEF NoMore
<1> QED  BY <1>1, <1>2, <1>3, <1>5, NoMoreTwice

-----------------------------------------------------------------------------
(* The first pass. *)

Plans(A, B) ==
  [first : Firsts(A, B), second : [Slots(B) -> Slots(A) \cup {Free}], loops : BOOLEAN]

Unrepeated(keys, A) == \A i, j \in Slots(A) : keys[i] # Free /\ keys[i] = keys[j] => i = j

(* first and second say the same, of the keys in the first n slots.        *)
PairedBelow(keys, n, plan, A, B) ==
  /\ \A o \in Slots(A) : plan.first[o] # Invalid <=> keys[o] # Free /\ o < n
  /\ \A o \in Slots(A) : plan.first[o] # Invalid => plan.second[plan.first[o]] = o
  /\ \A j \in Slots(B) : plan.second[j] # Free => plan.first[plan.second[j]] = j

LEMMA PlaceType ==
  ASSUME NEW A \in Nat, NEW B \in Nat, NEW plan \in Plans(A, B), NEW o \in Slots(A),
         NEW index \in Slots(B), NEW shifted, DOMAIN shifted = Slots(B),
         \A j \in Slots(B) \ {index} : shifted[j] \in Slots(A) \cup {Free}
  PROVE  Place(plan, o, index, shifted) \in Plans(A, B)
<1> DEFINE slotOf(i) == {j \in DOMAIN shifted \ {index} : shifted[j] = i}
           first  == [i \in DOMAIN plan.first |->
                        CASE i = o                     -> index
                          [] i # o /\ slotOf(i) # {}   -> CHOOSE j \in slotOf(i) : TRUE
                          [] OTHER                     -> plan.first[i]]
           second == [shifted EXCEPT ![index] = o]
<1>1. Place(plan, o, index, shifted) = [plan EXCEPT !.second = second, !.first = first]
  BY DEF Place
<1>2. plan.first \in Firsts(A, B) /\ plan.loops \in BOOLEAN
  BY DEF Plans
<1>3. second \in [Slots(B) -> Slots(A) \cup {Free}]
  OBVIOUS
<1>4. first \in Firsts(A, B)
  <2>1. \A i : slotOf(i) # {} => (CHOOSE j \in slotOf(i) : TRUE) \in Slots(B)
    OBVIOUS
  <2> HIDE DEF slotOf
  <2> QED  BY <1>2, <2>1 DEF Firsts
<1> HIDE DEF first, second
<1> QED  BY <1>1, <1>3, <1>4 DEF Plans

(* The element of slot o gets slot index, those in its way one slot up.    *)
LEMMA PlacePairs ==
  ASSUME NEW A \in Nat, NEW B \in Nat, NEW keys, NEW o \in Slots(A), keys[o] # Free,
         NEW plan \in Plans(A, B), PairedBelow(keys, o, plan, A, B),
         NEW index \in Slots(B), NEW hole \in Slots(B), plan.second[hole] = Free,
         NEW shifted, shifted = ShiftUp(plan.second, index, hole, B),
         NEW next, next = Place(plan, o, index, shifted)
  PROVE  PairedBelow(keys, o + 1, next, A, B)
<1>0. PICK src, dst : Shuffles(src, dst, plan.second, shifted, index, hole, B)
  BY ShiftUpMoves
<1>1. /\ src \in [Slots(B) \ {index} -> Slots(B) \ {hole}]
      /\ dst \in [Slots(B) \ {hole} -> Slots(B) \ {index}]
      /\ \A j \in Slots(B) \ {index} : dst[src[j]] = j /\ shifted[j] = plan.second[src[j]]
      /\ \A p \in Slots(B) \ {hole} : src[dst[p]] = p
  BY <1>0 DEF Shuffles
<1>2. /\ plan.first \in Firsts(A, B) /\ DOMAIN plan.first = Slots(A)
      /\ plan.second \in [Slots(B) -> Slots(A) \cup {Free}]
      /\ Invalid \notin Slots(B) /\ Free \notin Slots(A) /\ o \in Nat
      /\ DOMAIN shifted = Slots(B)
  <2>1. Slots(A) \subseteq Nat /\ Invalid \notin Slots(B)
    BY DEF Slots, Invalid
  <2> QED  BY <2>1, NoSlotAssumption DEF Plans, Firsts, ShiftUp
<1> DEFINE slotOf(i) == {j \in DOMAIN shifted \ {index} : shifted[j] = i}
<1>3. /\ next.second = [shifted EXCEPT ![index] = o]
      /\ next.first = [i \in DOMAIN plan.first |->
                         CASE i = o                     -> index
                           [] i # o /\ slotOf(i) # {}   -> CHOOSE j \in slotOf(i) : TRUE
                           [] OTHER                     -> plan.first[i]]
  BY DEF Place, Plans
<1>4. next.first[o] = index /\ next.second[index] = o
  BY <1>2, <1>3
<1>5. \A j \in Slots(B) \ {index} : next.second[j] = plan.second[src[j]]
  BY <1>1, <1>2, <1>3
<1>6. ASSUME NEW i \in Slots(A) \ {o}, plan.first[i] # Invalid
      PROVE  next.first[i] = dst[plan.first[i]] /\ plan.first[i] \in Slots(B) \ {hole}
  <2>1. PICK p : p = plan.first[i]
    OBVIOUS
  <2>2. p \in Slots(B) \ {hole} /\ plan.second[p] = i
    BY <1>2, <1>6, <2>1 DEF Firsts, PairedBelow
  <2>3. dst[p] \in slotOf(i)
    BY <1>1, <1>2, <2>2
  <2>4. ASSUME NEW j \in slotOf(i) PROVE j = dst[p]
    <3>1. j \in Slots(B) \ {index} /\ src[j] \in Slots(B) /\ plan.second[src[j]] = i
      BY <1>1, <1>2
    <3>2. src[j] = p
      BY <1>2, <2>1, <3>1 DEF PairedBelow
    <3> QED  BY <1>1, <3>1, <3>2
  <2>5. (CHOOSE j \in slotOf(i) : TRUE) = dst[p]
    BY <2>3, <2>4
  <2>6. slotOf(i) # {}
    BY <2>3
  <2> HIDE DEF slotOf
  <2> QED  BY <1>2, <1>3, <2>1, <2>2, <2>5, <2>6
<1>7. ASSUME NEW i \in Slots(A) \ {o}, plan.first[i] = Invalid
      PROVE  next.first[i] = Invalid
  <2>1. ASSUME NEW j \in slotOf(i) PROVE FALSE
    <3>1. j \in Slots(B) \ {index} /\ src[j] \in Slots(B) /\ plan.second[src[j]] = i
      BY <1>1, <1>2
    <3> QED  BY <1>2, <1>7, <3>1 DEF PairedBelow
  <2>2. slotOf(i) = {}
    BY <2>1
  <2> HIDE DEF slotOf
  <2> QED  BY <1>2, <1>3, <1>7, <2>2
<1>8. ASSUME NEW i \in Slots(A)
      PROVE  next.first[i] # Invalid <=> keys[i] # Free /\ i < o + 1
  <2>1. CASE i = o
    BY <1>2, <1>4, <2>1
  <2>2. CASE i # o
    <3>1. next.first[i] # Invalid <=> plan.first[i] # Invalid
      <4>1. plan.first[i] # Invalid => next.first[i] \in Slots(B)
        BY <1>1, <1>6, <2>2
      <4>2. plan.first[i] = Invalid => next.first[i] = Invalid
        BY <1>7, <2>2
      <4> QED  BY <1>2, <4>1, <4>2
    <3>2. i < o + 1 <=> i < o
      BY <2>2 DEF Slots
    <3> QED  BY <3>1, <3>2 DEF PairedBelow
  <2> QED  BY <2>1, <2>2
<1>9. ASSUME NEW i \in Slots(A), next.first[i] # Invalid
      PROVE  next.second[next.first[i]] = i
  <2>1. CASE i = o
    BY <1>4, <2>1
  <2>2. CASE i # o
    <3>1. plan.first[i] # Invalid
      BY <1>7, <1>9, <2>2
    <3>2. PICK p \in Slots(B) \ {hole} : p = plan.first[i] /\ next.first[i] = dst[p]
      BY <1>6, <2>2, <3>1
    <3>3. next.second[dst[p]] = plan.second[p]
      BY <1>1, <1>5
    <3> QED  BY <3>1, <3>2, <3>3 DEF PairedBelow
  <2> QED  BY <2>1, <2>2
<1>10. ASSUME NEW j \in Slots(B), next.second[j] # Free
       PROVE  next.first[next.second[j]] = j
  <2>1. CASE j = index
    BY <1>4, <2>1
  <2>2. CASE j # index
    <3>1. PICK p, i : p = src[j] /\ i = plan.second[p]
      OBVIOUS
    <3>2. p \in Slots(B) \ {hole} /\ next.second[j] = i /\ i \in Slots(A) /\ dst[p] = j
      <4>1. p \in Slots(B) \ {hole} /\ dst[p] = j /\ next.second[j] = i
        BY <1>1, <1>5, <2>2, <3>1
      <4>2. i # Free
        BY <1>10, <4>1
      <4> QED  BY <1>2, <3>1, <4>1, <4>2
    <3>3. plan.first[i] = p
      BY <1>2, <3>1, <3>2 DEF PairedBelow
    <3>4. i # o
      BY <1>2, <3>2, <3>3 DEF PairedBelow
    <3> QED  BY <1>2, <1>6, <3>2, <3>3, <3>4
  <2> QED  BY <2>1, <2>2
<1> QED  BY <1>8, <1>9, <1>10 DEF PairedBelow

(* What the vector holds after n slots. *)
Sound(keys, n, plan, A, B) ==
  /\ plan \in Plans(A, B)
  /\ ~plan.loops /\ Unrepeated(keys, A) => PairedBelow(keys, n, plan, A, B)

(* The keys in the vector. *)
KeysPlaced(keys, plan, B) ==
  [j \in Slots(B) |-> IF plan.second[j] = Free THEN Free ELSE keys[plan.second[j]]]

(* The key of the next slot is not among those of the slots before it.     *)
LEMMA PlacedBefore ==
  ASSUME NEW A \in Nat, NEW B \in Nat, NEW keys \in KeyTables(A), Unrepeated(keys, A),
         NEW o \in Slots(A), keys[o] # Free,
         NEW plan \in Plans(A, B), PairedBelow(keys, o, plan, A, B),
         NEW placed, placed = KeysPlaced(keys, plan, B)
  PROVE  /\ placed \in KeyTables(B)
         /\ \A j \in Slots(B) : placed[j] # keys[o]
         /\ \A j \in Slots(B) : plan.second[j] = Free <=> placed[j] = Free
<1>1. plan.second \in [Slots(B) -> Slots(A) \cup {Free}]
  BY DEF Plans
<1>2. \A j \in Slots(B) : placed[j] = IF plan.second[j] = Free THEN Free ELSE keys[plan.second[j]]
  BY DEF KeysPlaced
<1>3. placed \in KeyTables(B)
  BY <1>1 DEF KeyTables, KeysPlaced
<1>4. ASSUME NEW j \in Slots(B), plan.second[j] # Free
      PROVE  placed[j] # Free /\ placed[j] # keys[o]
  <2>1. PICK i \in Slots(A) : i = plan.second[j] /\ placed[j] = keys[i]
    BY <1>1, <1>2, <1>4
  <2>2. plan.first[i] = j /\ j # Invalid
    BY <1>4, <2>1 DEF PairedBelow, Slots, Invalid
  <2>3. keys[i] # Free /\ i < o
    BY <2>1, <2>2 DEF PairedBelow
  <2>4. i # o
    BY <2>3 DEF Slots
  <2> QED  BY <2>1, <2>3, <2>4 DEF Unrepeated
<1> QED  BY <1>2, <1>3, <1>4

LEMMA PlaceOneSound ==
  ASSUME NEW A \in Nat, NEW B \in Nat, NEW keys \in KeyTables(A),
         B # 0 \/ Taken(keys, A) = {}, NEW o \in Slots(A), NEW plan, Sound(keys, o, plan, A, B)
  PROVE  Sound(keys, o + 1, PlaceOne(keys, B, plan, o), A, B)
<1> DEFINE placed == KeysPlaced(keys, plan, B)
<1>1. /\ plan \in Plans(A, B) /\ plan.second \in [Slots(B) -> Slots(A) \cup {Free}]
      /\ plan.first \in Firsts(A, B) /\ plan.loops \in BOOLEAN
  BY DEF Sound, Plans
<1>2. CASE keys[o] = Free
  <2>1. PlaceOne(keys, B, plan, o) = plan
    BY <1>2 DEF PlaceOne
  <2>2. \A i \in Slots(A) : keys[i] # Free => (i < o + 1 <=> i < o)
    BY <1>2 DEF Slots
  <2>3. PairedBelow(keys, o, plan, A, B) => PairedBelow(keys, o + 1, plan, A, B)
    BY <2>2 DEF PairedBelow
  <2> QED  BY <2>1, <2>3 DEF Sound
<1>3. CASE keys[o] # Free
  <2>0. B \in Nat \ {0}
    BY <1>3 DEF Taken
  <2>1. PlaceOne(keys, B, plan, o) = PlaceKey(placed, B, plan, keys[o], o)
    BY <1>3 DEF PlaceOne, KeysPlaced
  <2>2. PICK k \in Key : k = keys[o]
    BY <1>3 DEF KeyTables
  <2>3. placed \in KeyTables(B)
    BY <1>1 DEF KeyTables, KeysPlaced
  <2> HIDE DEF placed
  <2>4. CASE plan.loops \/ EmplaceLoops(placed, k, B)
    <3>1. PlaceOne(keys, B, plan, o) = [plan EXCEPT !.loops = TRUE]
      BY <2>1, <2>2, <2>4 DEF PlaceKey
    <3>2. [plan EXCEPT !.loops = TRUE] \in Plans(A, B) /\ [plan EXCEPT !.loops = TRUE].loops
      BY <1>1 DEF Plans
    <3> QED  BY <3>1, <3>2 DEF Sound
  <2>5. CASE ~(plan.loops \/ EmplaceLoops(placed, k, B))
    <3>1. PICK res : res = open_address_emplace_index(placed, k, B)
      OBVIOUS
    <3>2. /\ res.index \in Slots(B) /\ res.hole \in Slots(B) /\ res.inserted \in BOOLEAN
          /\ ~res.inserted => placed[res.index] = k
          /\ res.inserted => placed[res.hole] = Free
      BY <2>0, <2>3, <2>5, <3>1, EmplaceResult
    <3>3. PICK shifted : shifted = ShiftUp(plan.second, res.index, res.hole, B)
      OBVIOUS
    <3>4. PICK next : next = Place(plan, o, res.index, shifted)
      OBVIOUS
    <3>5. PlaceOne(keys, B, plan, o) = next
      BY <2>1, <2>2, <2>5, <3>1, <3>3, <3>4 DEF PlaceKey, PlaceAt
    <3>6. DOMAIN shifted = Slots(B) /\ \A j \in Slots(B) \ {res.index} : shifted[j] \in Slots(A) \cup {Free}
      <4>1. \A j \in Slots(B) \ {res.index} : Advance(j, B - 1, B) \in Slots(B)
        BY <2>0, AdvanceType
      <4> QED  BY <1>1, <3>3, <4>1 DEF ShiftUp
    <3>7. next \in Plans(A, B)
      BY <1>1, <3>2, <3>4, <3>6, PlaceType
    <3>8. ASSUME Unrepeated(keys, A) PROVE PairedBelow(keys, o + 1, next, A, B)
      <4>1. PairedBelow(keys, o, plan, A, B)
        BY <2>5, <3>8 DEF Sound
      <4>2. /\ \A j \in Slots(B) : placed[j] # k
            /\ \A j \in Slots(B) : plan.second[j] = Free <=> placed[j] = Free
        BY <1>1, <1>3, <2>2, <2>5, <3>8, <4>1, PlacedBefore DEF placed, Sound
      <4>4. res.inserted
        BY <3>2, <4>2
      <4>5. plan.second[res.hole] = Free
        BY <3>2, <4>2, <4>4
      <4> QED  BY <1>1, <1>3, <3>2, <3>3, <3>4, <4>1, <4>5, PlacePairs
    <3> QED  BY <3>5, <3>7, <3>8 DEF Sound
  <2> QED  BY <2>4, <2>5
<1> QED  BY <1>2, <1>3

LEMMA EmptyPlanSound ==
  ASSUME NEW A \in Nat, NEW B \in Nat, NEW keys \in KeyTables(A)
  PROVE  Sound(keys, 0, EmptyPlan(A, B), A, B)
<1>1. EmptyPlan(A, B) \in Plans(A, B)
  BY DEF EmptyPlan, Plans, Firsts
<1>2. \A o \in Slots(A) : ~(o < 0)
  BY DEF Slots
<1> QED  BY <1>1, <1>2 DEF EmptyPlan, Sound, PairedBelow

(* What the vector holds after each of the slots. *)
PlansOf(after, keys, A, B) ==
  /\ after[0] = EmptyPlan(A, B)
  /\ \A m \in 1 .. A : after[m] = PlaceOne(keys, B, after[m - 1], m - 1)
  /\ \A m \in 0 .. A : Sound(keys, m, after[m], A, B)
  /\ Plan(keys, A, B) = after[A]

(* To no slots only an empty table can be taken. *)
LEMMA PlanRounds ==
  ASSUME NEW A \in Nat, NEW B \in Nat, NEW keys \in KeyTables(A),
         B # 0 \/ Taken(keys, A) = {}
  PROVE  \E after : PlansOf(after, keys, A, B)
<1>1. PICK S, base : S = Plans(A, B) /\ base = EmptyPlan(A, B)
  OBVIOUS
<1>2. base \in S
  BY <1>1, EmptyPlanSound DEF Sound
<1>3. ASSUME NEW m \in 1 .. A, NEW p, Sound(keys, m - 1, p, A, B)
      PROVE  Sound(keys, m, PlaceOne(keys, B, p, m - 1), A, B)
  <2>1. PICK o \in Slots(A) : o = m - 1 /\ o + 1 = m
    BY DEF Slots
  <2> QED  BY <1>3, <2>1, PlaceOneSound
<1> DEFINE G == [m \in 1 .. A |-> [p \in S |->
                   IF PlaceOne(keys, B, p, m - 1) \in S THEN PlaceOne(keys, B, p, m - 1) ELSE base]]
<1>4. /\ G \in StepsOn(S, A)
      /\ \A m \in 1 .. A : \A p \in S :
           PlaceOne(keys, B, p, m - 1) \in S => G[m][p] = PlaceOne(keys, B, p, m - 1)
  BY <1>2 DEF StepsOn
<1> HIDE DEF G
<1>5. PICK h : Iterates(h, S, A, base, G)
  BY <1>2, <1>4, Iteration
<1>6. h \in [0 .. A -> S] /\ h[0] = base
  BY <1>5 DEF Iterates
<1> DEFINE P == {m \in 0 .. A : Sound(keys, m, h[m], A, B)}
<1>7. \A m \in 0 .. A : m \in P
  <2>1. 0 \in P
    BY <1>1, <1>6, EmptyPlanSound
  <2>2. ASSUME NEW m \in 1 .. A, m - 1 \in P PROVE m \in P
    <3>1. m - 1 \in 0 .. A /\ h[m - 1] \in S /\ Sound(keys, m - 1, h[m - 1], A, B)
      BY <1>6, <2>2
    <3>2. Sound(keys, m, PlaceOne(keys, B, h[m - 1], m - 1), A, B)
      BY <1>3, <3>1
    <3>3. h[m] = PlaceOne(keys, B, h[m - 1], m - 1)
      BY <1>1, <1>4, <1>5, <3>1, <3>2 DEF Sound, Iterates
    <3> QED  BY <3>2, <3>3
  <2> HIDE DEF P
  <2> QED  BY <2>1, <2>2, UpTo
<1>8. \A m \in 0 .. A : Sound(keys, m, h[m], A, B)
  BY <1>7
<1> HIDE DEF P
<1>9. \A m \in 1 .. A : h[m] = PlaceOne(keys, B, h[m - 1], m - 1)
  <2> SUFFICES ASSUME NEW m \in 1 .. A PROVE h[m] = PlaceOne(keys, B, h[m - 1], m - 1)
    OBVIOUS
  <2>1. m - 1 \in 0 .. A /\ h[m - 1] \in S
    BY <1>6
  <2>2. Sound(keys, m, PlaceOne(keys, B, h[m - 1], m - 1), A, B)
    BY <1>3, <1>8, <2>1
  <2> QED  BY <1>1, <1>4, <1>5, <2>1, <2>2 DEF Sound, Iterates
<1>10. h = [m \in 0 .. A |-> IF m = 0 THEN base ELSE PlaceOne(keys, B, h[m - 1], m - 1)]
  BY <1>6, <1>9
<1> DEFINE after ==
      CHOOSE f : f = [m \in 0 .. A |-> IF m = 0 THEN EmptyPlan(A, B) ELSE PlaceOne(keys, B, f[m - 1], m - 1)]
<1>11. Plan(keys, A, B) = after[A]
  BY DEF Plan, PlanSoFar
<1>12. after = [m \in 0 .. A |-> IF m = 0 THEN base ELSE PlaceOne(keys, B, after[m - 1], m - 1)]
  BY <1>1, <1>10
<1> HIDE DEF after
<1>13. after[0] = base /\ \A m \in 1 .. A : after[m] = PlaceOne(keys, B, after[m - 1], m - 1)
  <2>1. 0 \in 0 .. A /\ \A m \in 1 .. A : m \in 0 .. A /\ m # 0
    OBVIOUS
  <2> QED  BY <1>12, <2>1
<1> DEFINE R == {m \in 0 .. A : Sound(keys, m, after[m], A, B)}
<1>14. \A m \in 0 .. A : m \in R
  <2>1. 0 \in R
    BY <1>1, <1>13, EmptyPlanSound
  <2>2. ASSUME NEW m \in 1 .. A, m - 1 \in R PROVE m \in R
    BY <1>3, <1>13, <2>2
  <2> HIDE DEF R
  <2> QED  BY <2>1, <2>2, UpTo
<1>15. \A m \in 0 .. A : Sound(keys, m, after[m], A, B)
  BY <1>14
<1> HIDE DEF R
<1> QED  BY <1>1, <1>11, <1>13, <1>15 DEF PlansOf

LEMMA PlanSound ==
  ASSUME NEW A \in Nat, NEW B \in Nat, NEW keys \in KeyTables(A),
         B # 0 \/ Taken(keys, A) = {}
  PROVE  Sound(keys, A, Plan(keys, A, B), A, B)
<1>1. PICK after : PlansOf(after, keys, A, B)
  BY PlanRounds
<1>2. A \in 0 .. A
  OBVIOUS
<1> QED  BY <1>1, <1>2 DEF PlansOf


-----------------------------------------------------------------------------
(* The second pass does what the first has planned. *)

(* first and second say the same, of the elements of keys. *)
Paired(keys, plan, A, B) ==
  /\ \A o \in Slots(A) : plan.first[o] # Invalid <=> keys[o] # Free
  /\ \A o \in Slots(A) : plan.first[o] # Invalid => plan.second[plan.first[o]] = o
  /\ \A j \in Slots(B) : plan.second[j] # Free =>
       plan.second[j] \in Slots(A) /\ plan.first[plan.second[j]] = j

LEMMA MovesArePlanned ==
  ASSUME NEW A \in Nat, NEW B \in Nat, NEW V, Free \in V, NEW t \in [Slots(A) -> V],
         NEW keys, \A i \in Slots(A) : keys[i] = Free <=> t[i] = Free,
         NEW plan, plan.first \in Firsts(A, B), Paired(keys, plan, A, B), ~HasCycle(plan)
  PROVE  Moved(t, plan, A, B) = Planned(t, plan, B)
<1>1. PICK F, u : F = plan.first /\ u = Grown(t, B)
  OBVIOUS
<1>2. /\ F \in Firsts(A, B) /\ DOMAIN F = Slots(A)
      /\ \A i \in Slots(A) : F[i] # Invalid => F[i] \in Slots(B)
      /\ \A i \in Slots(A) \cup Slots(B) : i \in Nat /\ i # Free
      /\ DOMAIN u = Slots(A) \cup Slots(B)
      /\ \A i \in Slots(A) : u[i] = t[i]
      /\ \A i \in Slots(B) \ Slots(A) : u[i] = Free
  <2>1. \A i \in Slots(A) \cup Slots(B) : i \in Nat
    BY DEF Slots
  <2>2. \A i \in Slots(A) \cup Slots(B) : i # Free
    BY <2>1, NoSlotAssumption
  <2>3. F \in Firsts(A, B) /\ DOMAIN F = Slots(A) /\ \A i \in Slots(A) : F[i] # Invalid => F[i] \in Slots(B)
    BY <1>1 DEF Firsts
  <2>4. /\ u \in [Slots(A) \cup Slots(B) -> V]
        /\ \A i \in Slots(A) : u[i] = t[i]
        /\ \A i \in Slots(B) \ Slots(A) : u[i] = Free
    <3>1. /\ Grown(t, B) \in [Slots(A) \cup Slots(B) -> V]
          /\ \A i \in Slots(A) : Grown(t, B)[i] = t[i]
          /\ \A i \in Slots(B) \ Slots(A) : Grown(t, B)[i] = Free
      BY DEF Grown
    <3> QED  BY <1>1, <3>1
  <2> QED  BY <2>1, <2>2, <2>3, <2>4
<1>3. Apart(F) /\ NoneCloses(F)
  BY <1>1, <1>2 DEF Paired, Apart, NoneCloses, HasCycle
<1>4. PICK st : st = MovedSoFar(t, plan, A, A, B)
  OBVIOUS
<1>5. PICK done : MovedBy(F, u, st, done) /\ \A i \in 0 .. A - 1 : F[i] \in {Invalid, i} \/ i \in done
  <2>1. A \in 0 .. A
    OBVIOUS
  <2> QED  BY <1>1, <1>2, <1>3, <1>4, <2>1, MovesDone
<1>6. ASSUME NEW j \in Slots(B)
      PROVE  st.t[j] = IF plan.second[j] = Free THEN Free ELSE t[plan.second[j]]
  <2>1. CASE plan.second[j] # Free
    <3>1. PICK o \in Slots(A) : o = plan.second[j] /\ F[o] = j
      BY <1>1, <2>1 DEF Paired
    <3>2. CASE o \in done
      BY <1>2, <1>5, <2>1, <3>1, <3>2 DEF MovedBy
    <3>3. CASE o \notin done
      <4>1. o = j
        BY <1>2, <1>5, <3>1, <3>3 DEF Slots, Invalid
      <4>2. \A p \in done : F[p] # j
        BY <1>2, <1>3, <1>5, <3>1, <3>3, <4>1 DEF Apart, MovedBy, Onward
      <4> QED  BY <1>2, <1>5, <2>1, <3>1, <3>3, <4>1, <4>2 DEF MovedBy
    <3> QED  BY <3>2, <3>3
  <2>2. CASE plan.second[j] = Free
    <3>1. \A p \in Slots(A) : F[p] # j
      <4>1. j # Invalid
        BY <1>2 DEF Invalid
      <4> QED  BY <1>1, <1>2, <2>2, <4>1 DEF Paired
    <3>2. st.t[j] = IF j \in done THEN Free ELSE u[j]
      BY <1>2, <1>5, <3>1 DEF MovedBy, Onward
    <3>3. CASE j \in done
      BY <2>2, <3>2, <3>3
    <3>4. CASE j \notin done
      <4>1. CASE j \in Slots(A)
        <5>1. F[j] = Invalid
          BY <1>5, <3>1, <3>4, <4>1 DEF Slots
        <5> QED  BY <1>1, <1>2, <2>2, <3>2, <3>4, <4>1, <5>1 DEF Paired
      <4>2. CASE j \notin Slots(A)
        BY <1>2, <2>2, <3>2, <3>4, <4>2
      <4> QED  BY <4>1, <4>2
    <3> QED  BY <3>3, <3>4
  <2> QED  BY <2>1, <2>2
<1> QED  BY <1>4, <1>6 DEF Moved, Planned

LEMMA PlanPaired ==
  ASSUME NEW A \in Nat, NEW B \in Nat, NEW keys \in KeyTables(A), B # 0 \/ Taken(keys, A) = {},
         Unrepeated(keys, A), NEW plan, plan = Plan(keys, A, B), ~plan.loops
  PROVE  /\ plan.first \in Firsts(A, B) /\ plan.second \in [Slots(B) -> Slots(A) \cup {Free}]
         /\ Paired(keys, plan, A, B)
<1>1. /\ plan.first \in Firsts(A, B) /\ plan.second \in [Slots(B) -> Slots(A) \cup {Free}]
      /\ PairedBelow(keys, A, plan, A, B)
  <2>1. Sound(keys, A, plan, A, B)
    BY PlanSound
  <2> QED  BY <2>1 DEF Sound, Plans
<1>2. \A o \in Slots(A) : o < A
  BY DEF Slots
<1>3. \A j \in Slots(B) : plan.second[j] # Free => plan.second[j] \in Slots(A)
  BY <1>1
<1> QED  BY <1>1, <1>2, <1>3 DEF Paired, PairedBelow

(* The two passes together, on a table without a repeated key.             *)
LEMMA PlanFollowed ==
  ASSUME NEW A \in Nat, NEW B \in Nat \ {0}, NEW V, Free \in V, NEW t \in [Slots(A) -> V],
         NEW keys \in KeyTables(A), \A i \in Slots(A) : keys[i] = Free <=> t[i] = Free,
         Unrepeated(keys, A), NEW plan, plan = Plan(keys, A, B), ~plan.loops
  PROVE  /\ {plan.second[j] : j \in Slots(B)} \ {Free} = Taken(keys, A)
         /\ HasCycle(plan) \/ Moved(t, plan, A, B) = Planned(t, plan, B)
<1>1. plan.first \in Firsts(A, B)
  BY PlanPaired
<1>2. Paired(keys, plan, A, B)
  BY PlanPaired
<1>3. {plan.second[j] : j \in Slots(B)} \ {Free} = Taken(keys, A)
  <2>1. ASSUME NEW j \in Slots(B), plan.second[j] # Free PROVE plan.second[j] \in Taken(keys, A)
    <3>1. PICK o \in Slots(A) : o = plan.second[j] /\ plan.first[o] = j
      BY <1>2, <2>1 DEF Paired
    <3>2. j # Invalid
      BY DEF Slots, Invalid
    <3> QED  BY <1>2, <3>1, <3>2 DEF Paired, Taken
  <2>2. ASSUME NEW o \in Taken(keys, A) PROVE o # Free /\ \E j \in Slots(B) : plan.second[j] = o
    <3>1. o \in Slots(A) /\ plan.first[o] # Invalid /\ plan.second[plan.first[o]] = o
      BY <1>2 DEF Paired, Taken
    <3>2. o # Free
      BY <3>1, NoSlotAssumption DEF Slots
    <3>3. plan.first[o] \in Slots(B)
      BY <1>1, <3>1 DEF Firsts
    <3> QED  BY <3>1, <3>2, <3>3
  <2> QED  BY <2>1, <2>2
<1>4. ~HasCycle(plan) => Moved(t, plan, A, B) = Planned(t, plan, B)
  BY <1>1, <1>2, MovesArePlanned
<1> QED  BY <1>3, <1>4

(* And then no element is lost.                                            *)
LEMMA PlannedCount ==
  ASSUME NEW A \in Nat, NEW B \in Nat \ {0}, NEW V, Free \in V, NEW t \in [Slots(A) -> V],
         NEW keys \in KeyTables(A), \A i \in Slots(A) : keys[i] = Free <=> t[i] = Free,
         Unrepeated(keys, A), NEW plan, plan = Plan(keys, A, B), ~plan.loops, ~HasCycle(plan)
  PROVE  Cardinality(TakenOf(Moved(t, plan, A, B))) = Cardinality(TakenOf(t))
<1>1. PICK u : u = Moved(t, plan, A, B)
  OBVIOUS
<1>2. /\ {plan.second[j] : j \in Slots(B)} \ {Free} = Taken(keys, A)
      /\ u = Planned(t, plan, B)
  BY <1>1, PlanFollowed
<1>3. Taken(keys, A) = TakenOf(t)
  BY DEF Taken, TakenOf
<1>4. PICK S, T : S = TakenOf(u) /\ T = TakenOf(t)
  OBVIOUS
<1>5. NoMore(u, t)
  <2>1. plan.first \in Firsts(A, B)
    <3>1. Sound(keys, A, plan, A, B)
      BY PlanSound
    <3> QED  BY <3>1 DEF Sound, Plans
  <2> QED  BY <1>1, <2>1, MovedType
<1>6. \A j \in Slots(B) : j \in S <=> plan.second[j] # Free
  <2> SUFFICES ASSUME NEW j \in Slots(B) PROVE j \in S <=> plan.second[j] # Free
    OBVIOUS
  <2>1. DOMAIN u = Slots(B) /\ u[j] = IF plan.second[j] = Free THEN Free ELSE t[plan.second[j]]
    BY <1>2 DEF Planned
  <2>2. plan.second[j] # Free => t[plan.second[j]] # Free
    BY <1>2, <1>3 DEF TakenOf
  <2> QED  BY <1>4, <2>1, <2>2 DEF TakenOf
<1>7. S \subseteq Slots(B)
  BY <1>2, <1>4 DEF TakenOf, Planned
<1> DEFINE f == [j \in S |-> plan.second[j]]
<1>8. f \in [S -> T] /\ \A o \in T : \E j \in S : f[j] = o
  BY <1>2, <1>3, <1>4, <1>6, <1>7
<1>9. f \in Surjection(S, T)
  BY <1>8 DEF Surjection
<1> HIDE DEF f
<1>10. IsFiniteSet(S) /\ IsFiniteSet(T) /\ Cardinality(S) <= Cardinality(T)
  BY <1>4, <1>5 DEF NoMore
<1>11. Cardinality(T) <= Cardinality(S)
  BY <1>9, <1>10, FS_Surjection
<1>12. Cardinality(S) \in Nat /\ Cardinality(T) \in Nat
  BY <1>10, FS_CardinalityType
<1> QED  BY <1>1, <1>4, <1>10, <1>11, <1>12
=============================================================================
