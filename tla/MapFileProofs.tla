--------------------------- MODULE MapFileProofs ----------------------------
(***************************************************************************)
(* What holds of the map over the lives of its file, for every set of      *)
(* keys, every hash function, every choice of sizes and every stop.        *)
(***************************************************************************)
EXTENDS MapFile, UnorderedMapLookupProofs, RehashProofs

-----------------------------------------------------------------------------
(* The plan of a rehash. *)

LEMMA RehashSizeType ==
  ASSUME TypeOK \/ IInv, NEW n \in Requests
  PROVE  RehashSize(n) \in Nat
<1>1. M_bucket_choices \in ChoiceSets /\ M_elem \in Nat /\ M_buckets \in Nat
  BY Zenon DEF TypeOK, IInv, TableOK, RestOK
<1>2. n \in Nat /\ (n > M_buckets) \in BOOLEAN
  BY <1>1, RequestsAssumption
<1> QED  BY <1>1, <1>2, NextSizeType DEF RehashSize

LEMMA TypedFollowsPlan == TypeOK => MovesFollowPlan
<1> SUFFICES ASSUME TypeOK, UniqueKeys, NEW n \in Requests,
                    NEW B, B = RehashSize(n), B # 0
             PROVE  FollowsPlan(B, PlanTo(B))
  BY DEF MovesFollowPlan
<1>1. M_buckets \in Nat /\ M_file \in Tables(M_buckets) /\ B \in Nat \ {0}
  BY RehashSizeType DEF TypeOK, Tables
<1>2. PICK A, t, V : A = M_buckets /\ t = M_file /\ V = Element \cup {Free}
  OBVIOUS
<1>3. /\ keys \in KeyTables(A)
      /\ \A i \in Slots(A) : keys[i] = Free <=> t[i] = Free
      /\ \A i \in Slots(A) : t[i] # Free => keys[i] = t[i].key
  BY <1>1, <1>2, KeysOfType DEF keys
<1>4. Unrepeated(keys, A)
  BY <1>2, <1>3 DEF UniqueKeys, Occupied, Taken, Unrepeated
<1>5. t \in [Slots(A) -> V] /\ Free \in V
  BY <1>1, <1>2 DEF Tables
<1>6. PICK plan : plan = Plan(keys, A, B)
  OBVIOUS
<1>7. ~plan.loops =>
        /\ {plan.second[j] : j \in Slots(B)} \ {Free} = Taken(keys, A)
        /\ HasCycle(plan) \/ Moved(t, plan, A, B) = Planned(t, plan, B)
  BY <1>1, <1>2, <1>3, <1>4, <1>5, <1>6, PlanFollowed
<1> QED  BY <1>2, <1>6, <1>7 DEF FollowsPlan, PlanTo, Occupied
-----------------------------------------------------------------------------
(* A rehash. *)

LEMMA DomainTaken ==
  ASSUME NEW B \in Nat, NEW t \in Tables(B)
  PROVE  TakenOf(t) = TakenIn(t, B)
BY DEF TakenOf, TakenIn, Tables

LEMMA PlanToType ==
  ASSUME TypeOK, NEW B \in Nat, ~Unmapped(B)
  PROVE  PlanTo(B).first \in Firsts(M_buckets, B)
<1>1. M_buckets \in Nat /\ keys \in KeyTables(M_buckets)
  BY KeysOfType DEF TypeOK, Tables, keys
<1>2. B # 0 \/ Taken(keys, M_buckets) = {}
  BY DEF Unmapped, Occupied
<1>3. Sound(keys, M_buckets, Plan(keys, M_buckets, B), M_buckets, B)
  BY <1>1, <1>2, PlanSound
<1> QED  BY <1>3 DEF Sound, Plans, PlanTo

LEMMA RehashMoves ==
  ASSUME IInv, NEW B \in Nat, ~Unmapped(B), NEW u, u = Moved(M_file, PlanTo(B), M_buckets, B)
  PROVE  u \in Tables(B) /\ Cardinality(TakenIn(u, B)) <= Cardinality(TakenIn(M_file, M_buckets))
<1>1. TypeOK /\ M_buckets \in Nat /\ M_file \in Tables(M_buckets)
  BY InvariantImplies DEF IInv, TableOK
<1>2. PICK V : V = Element \cup {Free}
  OBVIOUS
<1>3. M_file \in [Slots(M_buckets) -> V] /\ Free \in V
  BY <1>1, <1>2 DEF Tables
<1>4. PlanTo(B).first \in Firsts(M_buckets, B)
  BY <1>1, PlanToType
<1>5. u \in [Slots(B) -> V] /\ NoMore(u, M_file)
  BY <1>1, <1>3, <1>4, MovedType
<1>6. u \in Tables(B)
  BY <1>2, <1>5 DEF Tables
<1>7. TakenOf(u) = TakenIn(u, B) /\ TakenOf(M_file) = TakenIn(M_file, M_buckets)
  BY <1>1, <1>6, DomainTaken
<1> QED  BY <1>5, <1>6, <1>7 DEF NoMore

LEMMA RehashKeeps ==
  ASSUME IInv, NEW n \in Requests, rehash(n)
  PROVE  IInv'
<1>1. PICK B : B = RehashSize(n)
  OBVIOUS
<1>2. B \in Nat
  BY <1>1, RehashSizeType
<1>3. \/ NoRehash
      \/ Traps
      \/ Loops
      \/ /\ ~Unmapped(B)
         /\ M_file' = Moved(M_file, PlanTo(B), M_buckets, B)
         /\ M_buckets' = B
         /\ ret' = NoCall
         /\ UNCHANGED <<M_elem, status>>
  BY <1>1, Zenon DEF rehash, RehashTo
<1>4. UNCHANGED M_bucket_choices
  BY DEF rehash, Running
<1>5. CASE NoRehash
  BY <1>4, <1>5 DEF NoRehash, table, IInv, TableOK, RestOK, Answers, NoCall, TakenIn
<1>6. CASE Traps \/ Loops
  BY <1>4, <1>6, TrapStep
<1>7. CASE /\ ~Unmapped(B)
           /\ M_file' = Moved(M_file, PlanTo(B), M_buckets, B)
           /\ M_buckets' = B
           /\ ret' = NoCall
           /\ UNCHANGED <<M_elem, status>>
  <2>1. /\ M_file' \in Tables(B)
        /\ Cardinality(TakenIn(M_file', B)) <= Cardinality(TakenIn(M_file, M_buckets))
    BY <1>2, <1>7, RehashMoves
  <2>2. /\ Cardinality(TakenIn(M_file', B)) \in Nat
        /\ Cardinality(TakenIn(M_file, M_buckets)) \in Nat
    BY <1>2, TakenCount DEF IInv, TableOK
  <2>3. TableOK'
    BY <1>2, <1>7, <2>1, <2>2 DEF IInv, TableOK
  <2> QED  BY <1>4, <1>7, <2>3 DEF IInv, RestOK, Answers, NoCall
<1> QED  BY <1>3, <1>5, <1>6, <1>7

-----------------------------------------------------------------------------
(* What a call leaves that is stopped. *)

LEMMA TruncatedType ==
  ASSUME NEW A \in Nat, NEW B \in Nat, NEW t \in Tables(A)
  PROVE  Truncated(t, B) \in Tables(B)
<1>1. ZeroSlot \in Element /\ DOMAIN t = Slots(A)
  BY ZeroAssumption DEF ZeroSlot, Element, Tables
<1> QED  BY <1>1 DEF Truncated, Tables

LEMMA ShiftedType ==
  ASSUME NEW B \in Nat \ {0}, NEW t \in Tables(B), NEW i, NEW j
  PROVE  ShiftUp(t, i, j, B) \in Tables(B) /\ ShiftDown(t, i, j, B) \in Tables(B)
<1>1. \A m \in Slots(B) : Advance(m, B - 1, B) \in Slots(B)
  BY AdvanceType
<1>2. \A m \in Slots(B) : Advance(m, 1, B) \in Slots(B)
  BY AdvanceType
<1> QED  BY <1>1, <1>2 DEF ShiftUp, ShiftDown, Tables

LEMMA UnwindingType ==
  ASSUME NEW A \in Nat, NEW B \in Nat, NEW V, Free \in V, NEW st \in States(A, B, V),
         NEW i \in Slots(A), NEW t \in StoppedUnwinding(st.t, ChainFrom(st.first, i))
  PROVE  t \in [Slots(A) \cup Slots(B) -> V]
<1>1. PICK D : D = Slots(A) \cup Slots(B)
  OBVIOUS
<1>2. st.t \in [D -> V] /\ st.first \in Firsts(A, B)
  BY <1>1 DEF States
<1>3. PICK c : c = ChainFrom(st.first, i)
  OBVIOUS
<1>4. PICK L \in Nat : /\ L = Len(c) /\ L >= 1
                       /\ \A m \in 1 .. L : c[m] \in D
  BY <1>1, <1>2, <1>3, ChainSlots
<1>5. ASSUME NEW n \in 0 .. L - 1 PROVE Popped(st.t, c, n) \in [D -> V]
  <2>1. n \in Nat /\ \A k \in 1 .. n : c[Len(c) - k] \in D
    BY <1>4
  <2> QED  BY <1>2, <2>1, PoppedType
<1>6. CASE t \in {Popped(st.t, c, n) : n \in 0 .. L - 1}
  BY <1>1, <1>5, <1>6
<1>7. CASE t \in {CopyOnly(Popped(st.t, c, n - 1), c[L - n], c[L - n + 1]) : n \in 1 .. L - 1}
  <2>1. PICK n \in 1 .. L - 1 : t = CopyOnly(Popped(st.t, c, n - 1), c[L - n], c[L - n + 1])
    BY <1>7
  <2>2. PICK u : u = Popped(st.t, c, n - 1)
    OBVIOUS
  <2>3. u \in [D -> V] /\ c[L - n] \in D
    BY <1>4, <1>5, <2>2
  <2> QED  BY <1>1, <2>1, <2>2, <2>3 DEF CopyOnly
<1> QED  BY <1>3, <1>4, <1>6, <1>7 DEF StoppedUnwinding

-----------------------------------------------------------------------------
(* The inductive invariant: what counts are is left open while there is no *)
(* map on the file.                                                        *)

FileIInv == FileTypeOK /\ (opened => TableOK)

LEMMA OpenIInv == ASSUME FileIInv, opened PROVE IInv
BY DEF FileIInv, FileTypeOK, TypeOK, IInv, RestOK, Answers

(* What a map leaves is again a table. *)
LEMMA LeavesTable ==
  ASSUME NEW B \in Nat, NEW t \in Tables(B), Leaves(t, B), linked \in BOOLEAN,
         ret' \in Answers, doomed' \in BOOLEAN
  PROVE  FileIInv'
<1>1. NoSlots \in Tables(0) /\ 0 \in Nat
  BY DEF NoSlots, Tables
<1>2. M_buckets' \in Nat /\ M_file' \in Tables(M_buckets')
  BY <1>1 DEF Leaves
<1> QED  BY <1>2, DefaultAssumption DEF Leaves, FileIInv, FileTypeOK, TypeOK, Tables, Answers

LEMMA OpensTable ==
  ASSUME NEW B \in Nat, NEW t \in Tables(B), NEW choices \in ChoiceSets, NEW elem,
         FileIInv, Opens(t, B, choices, elem), elem = Cardinality(TakenIn(t, B)), ret' \in Answers
  PROVE  FileIInv'
<1>1. elem \in Nat
  BY TakenCount
<1>2. TableOK'
  BY <1>1 DEF Opens, TableOK
<1> QED  BY <1>1, <1>2 DEF Opens, FileIInv, FileTypeOK, TypeOK, Tables, Answers

LEMMA NoCallAnswers ==
  /\ NoCall \in Answers
  /\ [NoCall EXCEPT !.ok = TRUE] \in Answers
  /\ \A k \in Key \cup {Free} : [NoCall EXCEPT !.key = k] \in Answers
BY DEF NoCall, Answers

LEMMA StopTable ==
  ASSUME NEW B \in Nat, NEW t \in Tables(B), NEW k \in Key \cup {Free}, Stop(t, B, k),
         linked \in BOOLEAN
  PROVE  FileIInv'
<1>1. ret' \in Answers /\ doomed' \in BOOLEAN
  BY NoCallAnswers DEF Stop
<1> QED  BY <1>1, LeavesTable DEF Stop

-----------------------------------------------------------------------------
(* Every step keeps it. *)

LEMMA CallKeepsFile ==
  ASSUME FileIInv, Call
  PROVE  FileIInv'
<1>1. IInv
  BY OpenIInv DEF Call
<1>2. IInv'
  BY <1>1, Invariance, RehashKeeps DEF Call, RehashNext
<1>3. TypeOK' /\ TableOK'
  BY <1>2 DEF IInv, TableOK, RestOK, Answers, TypeOK, Tables
<1> QED  BY <1>3 DEF Call, life, FileIInv, FileTypeOK

LEMMA EndKeepsFile ==
  ASSUME FileIInv, Close \/ Kill
  PROVE  FileIInv'
<1>1. NoSlots \in Tables(0) /\ 0 \in Nat
  BY DEF NoSlots, Tables
<1>2. M_buckets \in Nat /\ M_file \in Tables(M_buckets) /\ linked \in BOOLEAN /\ doomed \in BOOLEAN
  BY DEF FileIInv, FileTypeOK, TypeOK, Tables
<1>3. ret' \in Answers /\ doomed' \in BOOLEAN
  BY <1>2, NoCallAnswers DEF Close, Kill
<1>4. Leaves(NoSlots, 0) \/ Leaves(M_file, M_buckets)
  BY DEF Close, Kill
<1> QED  BY <1>1, <1>2, <1>3, <1>4, LeavesTable

LEMMA OpeningKeepsFile ==
  ASSUME FileIInv, NEW n \in Nat, Opening(n)
  PROVE  FileIInv'
<1>1. M_buckets \in Nat /\ M_file \in Tables(M_buckets)
  BY DEF FileIInv, FileTypeOK, TypeOK, Tables
<1>2. CASE Reopen(n)
  <2>1. PICK B, t : B = next_larger(DefaultChoices, n) /\ t = Truncated(M_file, B)
    OBVIOUS
  <2>2. B \in Nat
    BY <2>1, DefaultAssumption, NextSizeLarger
  <2>3. t \in Tables(B)
    BY <1>1, <2>1, <2>2, TruncatedType
  <2>4. Taken(KeysOf(t, B), B) = TakenIn(t, B)
    BY <2>2, <2>3, KeysOfType
  <2>5. Opens(t, B, DefaultChoices, Cardinality(TakenIn(t, B))) /\ ret' \in Answers
    BY <1>2, <2>1, <2>4, NoCallAnswers, Zenon DEF Reopen
  <2> QED  BY <2>2, <2>3, <2>5, DefaultAssumption, OpensTable
<1>3. CASE \E choices \in ChoiceSets : OpenEmpty(n, choices)
  <2>1. PICK choices \in ChoiceSets : OpenEmpty(n, choices)
    BY <1>3
  <2>2. PICK B, t : B = next_larger(choices, n) /\ t = [i \in Slots(B) |-> Free]
    OBVIOUS
  <2>3. B \in Nat
    BY <2>2, NextSizeLarger
  <2>4. t \in Tables(B) /\ TakenIn(t, B) = {}
    BY <2>2 DEF Tables, TakenIn
  <2>5. Opens(t, B, choices, 0) /\ ret' \in Answers
    BY <2>1, <2>2, NoCallAnswers, Zenon DEF OpenEmpty
  <2>6. Cardinality(TakenIn(t, B)) = 0
    BY <2>4, FS_EmptySet
  <2> QED  BY <2>3, <2>4, <2>5, <2>6, OpensTable
<1> QED  BY <1>2, <1>3 DEF Opening

LEMMA OthersKeepFile ==
  ASSUME FileIInv, Wiping \/ GrowUnlinked \/ MoveConstruct \/ DestroyMovedFrom
  PROVE  FileIInv'
<1>1. NoSlots \in Tables(0) /\ 0 \in Nat
  BY DEF NoSlots, Tables
<1>2. CASE Wiping
  BY <1>2, NoCallAnswers DEF Wiping, destruct_is_wipe, table, FileIInv, FileTypeOK, TypeOK, TableOK, TakenIn, Answers
<1>3. CASE GrowUnlinked
  BY <1>3 DEF GrowUnlinked, Traps, life, table, FileIInv, FileTypeOK, TypeOK, TableOK, TakenIn
<1>4. CASE MoveConstruct
  BY <1>4, NoCallAnswers, DefaultAssumption
     DEF MoveConstruct, table, FileIInv, FileTypeOK, TypeOK, TableOK, TakenIn, Answers
<1>5. CASE DestroyMovedFrom
  <2>1. M_buckets' \in Nat /\ M_file' \in Tables(M_buckets')
    BY <1>1, <1>5 DEF DestroyMovedFrom, FileIInv, FileTypeOK, TypeOK, Tables
  <2>2. TypeOK' /\ opened' \in BOOLEAN /\ M_delete' \in BOOLEAN /\ linked' \in BOOLEAN /\ doomed' \in BOOLEAN
    BY <1>5, <2>1, NoCallAnswers DEF DestroyMovedFrom, FileIInv, FileTypeOK, TypeOK, Tables, Answers
  <2>3. opened' => TableOK'
    BY <1>5, <2>1 DEF DestroyMovedFrom, FileIInv, TableOK, TakenIn
  <2> QED  BY <2>2, <2>3 DEF FileIInv, FileTypeOK
<1> QED  BY <1>2, <1>3, <1>4, <1>5

-----------------------------------------------------------------------------
(* Wherever a call is stopped. *)

LEMMA GrownSizesType ==
  ASSUME TypeOK, NEW B \in GrownSizes
  PROVE  B \in Nat /\ B > M_buckets
<1>1. EmplaceBuckets \in Nat
  BY EmplaceBucketsType
<1>2. \A n \in Requests : RehashSize(n) \in Nat
  BY RehashSizeType
<1> QED  BY <1>1, <1>2 DEF GrownSizes

LEMMA GrowingStopped ==
  ASSUME FileIInv, StopGrowing
  PROVE  FileIInv'
<1>1. TypeOK /\ M_buckets \in Nat /\ M_file \in Tables(M_buckets) /\ linked \in BOOLEAN
  BY DEF FileIInv, FileTypeOK, TypeOK, Tables
<1>2. PICK B \in GrownSizes : \E freed \in M_buckets .. B - 1 :
        Stop(Truncated(Resized(M_file, freed), B), B, Free)
  BY DEF StopGrowing
<1>3. B \in Nat
  BY <1>1, <1>2, GrownSizesType
<1>4. PICK freed \in Nat : /\ freed >= M_buckets
                          /\ Stop(Truncated(Resized(M_file, freed), B), B, Free)
  BY <1>1, <1>2, <1>3
<1>5. Truncated(Resized(M_file, freed), B) \in Tables(B)
  BY <1>1, <1>3, <1>4, ResizedContents, TruncatedType
<1> QED  BY <1>1, <1>3, <1>4, <1>5, StopTable

LEMMA EmplaceStopped ==
  ASSUME FileIInv, NEW k \in Key, StopEmplace(k)
  PROVE  FileIInv'
<1>1. TypeOK /\ M_buckets \in Nat /\ M_file \in Tables(M_buckets) /\ linked \in BOOLEAN
  BY DEF FileIInv, FileTypeOK, TypeOK, Tables
<1>2. PICK B, t : B = EmplaceBuckets /\ t = Resized(M_file, B)
  OBVIOUS
<1>3. PICK i, j : Stop(ShiftUp(t, i, j, B), B, k)
  BY <1>2, Zenon DEF StopEmplace
<1>4. B \in Nat \ {0} /\ B >= M_buckets
  BY <1>1, <1>2, EmplaceBucketsType DEF StopEmplace
<1>5. t \in Tables(B)
  BY <1>1, <1>2, <1>4, ResizedContents
<1>6. ShiftUp(t, i, j, B) \in Tables(B)
  BY <1>4, <1>5, ShiftedType
<1> QED  BY <1>1, <1>3, <1>4, <1>6, StopTable

LEMMA EraseStopped ==
  ASSUME FileIInv, NEW k \in Key, StopErase(k)
  PROVE  FileIInv'
<1>1. TypeOK /\ M_buckets \in Nat /\ M_file \in Tables(M_buckets) /\ linked \in BOOLEAN
  BY DEF FileIInv, FileTypeOK, TypeOK, Tables
<1>2. PICK i, j : Stop(ShiftDown(M_file, i, j, M_buckets), M_buckets, k) /\ M_buckets > 0
  BY Zenon DEF StopErase
<1>3. ShiftDown(M_file, i, j, M_buckets) \in Tables(M_buckets)
  BY <1>1, <1>2, ShiftedType
<1> QED  BY <1>1, <1>2, <1>3, StopTable

LEMMA SlotsOfBoth ==
  ASSUME NEW A \in Nat, NEW B \in Nat
  PROVE  Max({A, B}) \in Nat /\ Slots(Max({A, B})) = Slots(A) \cup Slots(B)
<1>1. PICK m : m = Max({A, B})
  OBVIOUS
<1>2. \A n \in {A, B} : n <= A + B
  OBVIOUS
<1>3. m \in {A, B} /\ A <= m /\ B <= m
  BY <1>1, <1>2, MaxNat
<1>4. Slots(m) = Slots(A) \cup Slots(B)
  <2>1. CASE m = A
    BY <1>3, <2>1 DEF Slots
  <2>2. CASE m = B
    BY <1>3, <2>2 DEF Slots
  <2> QED  BY <1>3, <2>1, <2>2
<1> QED  BY <1>1, <1>3, <1>4

LEMMA RehashStopped ==
  ASSUME FileIInv, NEW n \in Requests, StopRehash(n)
  PROVE  FileIInv'
<1>1. TypeOK /\ M_buckets \in Nat /\ M_file \in Tables(M_buckets) /\ linked \in BOOLEAN
  BY DEF FileIInv, FileTypeOK, TypeOK, Tables
<1>2. PICK A, B, plan, V : /\ A = M_buckets /\ B = RehashSize(n)
                           /\ plan = PlanTo(B) /\ V = Element \cup {Free}
  OBVIOUS
<1>3. ~Unmapped(B) /\ StopMoving(B, plan)
  BY <1>2, Zenon DEF StopRehash
<1>4. B \in Nat
  BY <1>1, <1>2, RehashSizeType
<1>5. PICK m \in 0 .. A : \E st \in {MovedSoFar(M_file, plan, m, A, B)} :
         \E t \in {st.t} \cup (IF m < A /\ st.first[m] \notin {Invalid, m}
                               THEN StoppedUnwinding(st.t, ChainFrom(st.first, m)) ELSE {}) :
           Stop(t, Max({A, B}), Free)
  BY <1>2, <1>3, Zenon DEF StopMoving
<1>6. PICK st : /\ st = MovedSoFar(M_file, plan, m, A, B)
                /\ \E t \in {st.t} \cup (IF m < A /\ st.first[m] \notin {Invalid, m}
                                         THEN StoppedUnwinding(st.t, ChainFrom(st.first, m)) ELSE {}) :
                     Stop(t, Max({A, B}), Free)
  BY <1>5, Zenon
<1>7. PICK t : /\ Stop(t, Max({A, B}), Free)
               /\ t = st.t \/ (m < A /\ t \in StoppedUnwinding(st.t, ChainFrom(st.first, m)))
  BY <1>6
<1>8. st \in States(A, B, V)
  <2>1. plan.first \in Firsts(A, B)
    BY <1>1, <1>2, <1>3, <1>4, PlanToType
  <2>2. M_file \in [Slots(A) -> V] /\ Free \in V
    BY <1>1, <1>2 DEF Tables
  <2> QED  BY <1>1, <1>2, <1>4, <1>6, <2>1, <2>2, MovesNoMore
<1>9. t \in [Slots(A) \cup Slots(B) -> V]
  <2>1. CASE t = st.t
    BY <1>8, <2>1 DEF States
  <2>2. CASE m < A /\ t \in StoppedUnwinding(st.t, ChainFrom(st.first, m))
    <3>1. m \in Slots(A) /\ Free \in V
      BY <1>1, <1>2, <2>2 DEF Slots
    <3> QED  BY <1>1, <1>2, <1>4, <1>8, <2>2, <3>1, UnwindingType
  <2> QED  BY <1>7, <2>1, <2>2
<1>10. PICK M \in Nat : M = Max({A, B}) /\ Slots(M) = Slots(A) \cup Slots(B)
  BY <1>1, <1>2, <1>4, SlotsOfBoth
<1>11. t \in Tables(M)
  BY <1>2, <1>9, <1>10 DEF Tables
<1> QED  BY <1>1, <1>7, <1>10, <1>11, StopTable

LEMMA ClearStopped ==
  ASSUME FileIInv, StopClear
  PROVE  FileIInv'
<1>1. M_buckets \in Nat /\ M_file \in Tables(M_buckets) /\ linked \in BOOLEAN
  BY DEF FileIInv, FileTypeOK, TypeOK, Tables
<1>2. PICK t, n : /\ t = [i \in Slots(M_buckets) |-> IF i < n THEN Free ELSE M_file[i]]
                  /\ Stop(t, M_buckets, Free)
  BY Zenon DEF StopClear
<1>3. t \in Tables(M_buckets)
  BY <1>1, <1>2 DEF Tables
<1> QED  BY <1>1, <1>2, <1>3, StopTable

LEMMA FileInvariance ==
  ASSUME FileIInv, [FileNext]_fileVars
  PROVE  FileIInv'
<1>1. CASE UNCHANGED fileVars
  BY <1>1 DEF fileVars, vars, life, FileIInv, FileTypeOK, TypeOK, TableOK, TakenIn
<1>2. CASE Stopping
  BY <1>2, GrowingStopped, EmplaceStopped, EraseStopped, RehashStopped, ClearStopped DEF Stopping
<1>3. CASE \E n \in Requests : Opening(n)
  BY <1>3, RequestsAssumption, OpeningKeepsFile
<1> QED  BY <1>1, <1>2, <1>3, CallKeepsFile, EndKeepsFile, OthersKeepFile DEF FileNext

LEMMA FileInitially == ASSUME FileInit PROVE FileIInv
<1>1. IInv
  BY InvariantInit DEF FileInit
<1> QED  BY <1>1 DEF FileInit, IInv, TableOK, RestOK, Answers, FileIInv, FileTypeOK, TypeOK, Tables

-----------------------------------------------------------------------------
(* The theorems. *)

(* Whatever the calls, their stops and the openings in between, the file   *)
(* holds a table and the map on it keeps its types.                        *)
THEOREM FileTypeCorrect == FileSpec => []FileTypeOK
<1>1. FileInit => FileIInv
  BY FileInitially
<1>2. FileIInv /\ [FileNext]_fileVars => FileIInv'
  BY FileInvariance
<1>3. FileIInv => FileTypeOK
  BY DEF FileIInv
<1> QED  BY <1>1, <1>2, <1>3, PTL DEF FileSpec

(* In every state in which no key is there twice, to every size that can   *)
(* be asked for, the two passes of rehash agree: the moves inside the one  *)
(* file end in the layout that was planned, unless a chain closes.         *)
THEOREM RehashFollowsPlan == FileSpec => []MovesFollowPlan
<1>1. FileTypeOK => MovesFollowPlan
  BY TypedFollowsPlan DEF FileTypeOK
<1> QED  BY <1>1, FileTypeCorrect, PTL

-----------------------------------------------------------------------------
(* The count, where no rehash loses an element. *)

LEMMA RehashExact ==
  ASSUME IInv, Exact, UniqueKeys, NoChainCloses, NEW n \in Requests, rehash(n)
  PROVE  Exact'
<1>1. PICK A, B, t : A = M_buckets /\ B = RehashSize(n) /\ t = M_file
  OBVIOUS
<1>2. A \in Nat /\ B \in Nat /\ t \in Tables(A)
  BY <1>1, RehashSizeType DEF IInv, TableOK
<1>3. \/ UNCHANGED table
      \/ /\ ~Unmapped(B) /\ ~PlanTo(B).loops
         /\ M_file' = Moved(M_file, PlanTo(B), M_buckets, B)
         /\ M_buckets' = B
         /\ M_elem' = M_elem
  BY <1>1, Zenon DEF rehash, RehashTo, RehashSize, NoRehash, Traps, Loops
<1>4. CASE UNCHANGED table
  BY <1>4 DEF table, Exact, TakenIn
<1>5. CASE /\ ~Unmapped(B) /\ ~PlanTo(B).loops
           /\ M_file' = Moved(M_file, PlanTo(B), M_buckets, B)
           /\ M_buckets' = B
           /\ M_elem' = M_elem
  <2>1. M_file' \in Tables(B)
    BY <1>2, <1>5, RehashMoves
  <2>2. TakenOf(M_file') = TakenIn(M_file', B) /\ TakenOf(t) = TakenIn(t, A)
    BY <1>2, <2>1, DomainTaken
  <2>3. CASE B = 0
    <3>1. TakenIn(M_file', B) = {}
      BY <2>3 DEF TakenIn, Slots
    <3>2. TakenIn(t, A) = {}
      BY <1>1, <1>2, <1>5, <2>3, KeysOfType DEF Unmapped, Occupied, keys
    <3> QED  BY <1>1, <1>5, <3>1, <3>2 DEF Exact
  <2>4. CASE B # 0
    <3>1. /\ keys \in KeyTables(A)
          /\ \A i \in Slots(A) : keys[i] = Free <=> t[i] = Free
          /\ \A i \in Slots(A) : t[i] # Free => keys[i] = t[i].key
      BY <1>1, <1>2, KeysOfType DEF keys
    <3>2. Unrepeated(keys, A)
      BY <1>1, <3>1 DEF UniqueKeys, Occupied, Taken, Unrepeated
    <3>3. PICK V, plan : V = Element \cup {Free} /\ plan = Plan(keys, A, B)
      OBVIOUS
    <3>4. t \in [Slots(A) -> V] /\ Free \in V
      BY <1>2, <3>3 DEF Tables
    <3>5. ~plan.loops /\ ~HasCycle(plan)
      BY <1>1, <1>5, <2>4, <3>3 DEF NoChainCloses, PlanTo
    <3>6. Cardinality(TakenOf(Moved(t, plan, A, B))) = Cardinality(TakenOf(t))
      BY <1>2, <2>4, <3>1, <3>2, <3>3, <3>4, <3>5, PlannedCount
    <3>7. Moved(t, plan, A, B) = M_file'
      BY <1>1, <1>5, <3>3 DEF PlanTo
    <3>8. Cardinality(TakenIn(M_file', B)) = Cardinality(TakenIn(t, A))
      BY <2>2, <3>6, <3>7
    <3> QED  BY <1>1, <1>5, <3>8 DEF Exact
  <2> QED  BY <2>3, <2>4
<1> QED  BY <1>3, <1>4, <1>5

LEMMA OpensExact ==
  ASSUME FileIInv, NEW n \in Nat, Opening(n)
  PROVE  Exact'
<1>1. M_buckets \in Nat /\ M_file \in Tables(M_buckets)
  BY DEF FileIInv, FileTypeOK, TypeOK, Tables
<1>2. CASE Reopen(n)
  <2>1. PICK B, t : B = next_larger(DefaultChoices, n) /\ t = Truncated(M_file, B)
    OBVIOUS
  <2>2. B \in Nat
    BY <2>1, DefaultAssumption, NextSizeLarger
  <2>3. t \in Tables(B)
    BY <1>1, <2>1, <2>2, TruncatedType
  <2>4. Taken(KeysOf(t, B), B) = TakenIn(t, B)
    BY <2>2, <2>3, KeysOfType
  <2>5. Opens(t, B, DefaultChoices, Cardinality(TakenIn(t, B)))
    BY <1>2, <2>1, <2>4, Zenon DEF Reopen
  <2> QED  BY <2>5 DEF Opens, Exact
<1>3. CASE \E choices \in ChoiceSets : OpenEmpty(n, choices)
  <2>1. PICK B, t, choices : t = [i \in Slots(B) |-> Free] /\ Opens(t, B, choices, 0)
    BY <1>3, Zenon DEF OpenEmpty
  <2>2. Cardinality(TakenIn(t, B)) = 0
    <3>1. TakenIn(t, B) = {}
      BY <2>1 DEF TakenIn
    <3> QED  BY <3>1, FS_EmptySet
  <2> QED  BY <2>1, <2>2 DEF Opens, Exact
<1> QED  BY <1>2, <1>3 DEF Opening

LEMMA ExactKept ==
  ASSUME FileIInv, opened => Exact /\ UniqueKeys /\ NoChainCloses, [FileNext]_fileVars
  PROVE  opened' => Exact'
<1>1. CASE Call
  <2>1. IInv /\ Exact /\ UniqueKeys /\ NoChainCloses
    BY <1>1, OpenIInv DEF Call
  <2>2. Next => Exact'
    BY <2>1, Invariance
  <2>3. ASSUME NEW n \in Requests, rehash(n) PROVE Exact'
    BY <2>1, <2>3, RehashExact
  <2> QED  BY <1>1, <2>2, <2>3 DEF Call, RehashNext
<1>2. ASSUME UNCHANGED <<table, opened>> PROVE opened' => Exact'
  BY <1>2 DEF table, Exact, TakenIn
<1>3. CASE UNCHANGED fileVars \/ Wiping \/ GrowUnlinked \/ MoveConstruct
  <2>1. UNCHANGED <<table, opened>>
    BY <1>3 DEF fileVars, vars, life, table, Wiping, destruct_is_wipe, GrowUnlinked, Traps, MoveConstruct
  <2> QED  BY <1>2, <2>1
<1>4. CASE Close \/ Kill \/ Stopping
  <2>1. opened' = FALSE
    BY <1>4, Zenon DEF Close, Kill, Stopping, StopGrowing, StopClear, StopEmplace, StopErase,
                       StopRehash, StopMoving, Stop, Leaves
  <2> QED  BY <2>1
<1>5. CASE DestroyMovedFrom
  BY <1>5 DEF DestroyMovedFrom, Exact, TakenIn
<1>6. CASE \E n \in Requests : Opening(n)
  BY <1>6, RequestsAssumption, OpensExact
<1> QED  BY <1>1, <1>3, <1>4, <1>5, <1>6 DEF FileNext

(* While no rehash meets a repeated key or a closing chain, size() is the  *)
(* number of taken slots: through every call, every way a map ends, and    *)
(* the constructor that counts what a stopped program has left.            *)
THEOREM CountCorrectWhenOpen ==
  FileSpec /\ [](opened => UniqueKeys /\ NoChainCloses) => []CountWhenOpen
<1>1. FileInit => FileIInv /\ (opened => Exact)
  BY FileInitially, InvariantInit DEF FileInit
<1>2. FileIInv /\ [FileNext]_fileVars => FileIInv'
  BY FileInvariance
<1>3. FileIInv /\ (opened => Exact) /\ (opened => UniqueKeys /\ NoChainCloses) /\ [FileNext]_fileVars
        => (opened => Exact)'
  BY ExactKept
<1>4. FileIInv /\ (opened => Exact) => CountWhenOpen
  BY OpenIInv, InvariantImplies DEF CountWhenOpen
<1> QED  BY <1>1, <1>2, <1>3, <1>4, PTL DEF FileSpec

-----------------------------------------------------------------------------
(* Walks over the table. *)

Below(ks, i, B) == {j \in Taken(ks, B) : j < i}

LEMMA ForwardNext ==
  ASSUME NEW B \in Nat, NEW ks, NEW i \in Slots(B), NEW f, f = Forward(ks, i, B)
  PROVE  /\ f \in Taken(ks, B) \cup {B} /\ i < f
         /\ \A j \in Taken(ks, B) : j < f <=> j <= i
<1>1. PICK S : S = {j \in i + 1 .. B : j = B \/ ks[j] # Free}
  OBVIOUS
<1>2. S \subseteq Nat /\ B \in S
  BY <1>1 DEF Slots
<1>3. f \in S /\ \A j \in S : f <= j
  BY <1>1, <1>2, MinNat DEF Forward
<1>4. \A j \in Taken(ks, B) : j \in Nat /\ j < B /\ (i < j => j \in S)
  BY <1>1 DEF Slots, Taken
<1>5. i \in Nat /\ f \in Nat /\ i < f /\ f <= B /\ (f = B \/ f \in Taken(ks, B))
  BY <1>1, <1>2, <1>3 DEF Slots, Taken
<1> QED  BY <1>3, <1>4, <1>5

LEMMA BeginFirst ==
  ASSUME NEW B \in Nat \ {0}, NEW ks
  PROVE  begin(ks, B) \in Taken(ks, B) \cup {B} /\ Below(ks, begin(ks, B), B) = {}
<1>1. 0 \in Slots(B)
  BY DEF Slots
<1>2. \A j \in Taken(ks, B) : j \in Nat /\ ks[j] # Free
  BY DEF Slots, Taken
<1>3. CASE ks[0] = Free
  <2>1. PICK f : f = begin(ks, B)
    OBVIOUS
  <2>2. f = Forward(ks, 0, B)
    BY <1>3, <2>1 DEF begin
  <2>3. f \in Taken(ks, B) \cup {B} /\ \A j \in Taken(ks, B) : j < f <=> j <= 0
    BY <1>1, <2>2, ForwardNext
  <2>4. \A j \in Taken(ks, B) : ~(j < f)
    BY <1>2, <1>3, <2>3
  <2> QED  BY <2>1, <2>3, <2>4 DEF Below
<1>4. CASE ks[0] # Free
  BY <1>1, <1>2, <1>4 DEF begin, Below, Taken
<1> QED  BY <1>3, <1>4

(* n steps of ++ from begin(), as long as they do not start at end().      *)
WalksFrom(h, ks, n, B) ==
  /\ h[0] = begin(ks, B)
  /\ \A m \in 1 .. n : h[m - 1] # B => h[m] = Forward(ks, h[m - 1], B)

Visited(h, ks, m, B) ==
  /\ h[m] \in Taken(ks, B) \cup {B}
  /\ Below(ks, h[m], B) = {h[j] : j \in 0 .. m - 1}
  /\ Cardinality(Below(ks, h[m], B)) = m

LEMMA WalkVisits ==
  ASSUME NEW B \in Nat \ {0}, NEW ks, NEW n, n = Cardinality(Taken(ks, B)),
         NEW h, WalksFrom(h, ks, n, B)
  PROVE  /\ n \in Nat
         /\ \A m \in 0 .. n : Visited(h, ks, m, B)
         /\ \A m \in 0 .. n : h[m] = B <=> m = n
<1>1. PICK T : T = Taken(ks, B)
  OBVIOUS
<1>2. IsFiniteSet(T) /\ n \in Nat /\ \A i \in T : i \in Nat /\ i < B
  <2>1. IsFiniteSet(Slots(B)) /\ T \subseteq Slots(B)
    BY <1>1, FS_Interval DEF Slots, Taken
  <2> QED  BY <1>1, <2>1, FS_Subset, FS_CardinalityType DEF Slots
<1>3. Below(ks, B, B) = T
  BY <1>1, <1>2 DEF Below
<1>4. ASSUME NEW m \in 0 .. n, Visited(h, ks, m, B) PROVE h[m] = B <=> m = n
  <2>1. h[m] = B => m = n
    BY <1>1, <1>3, <1>4 DEF Visited
  <2>2. ASSUME h[m] \in T PROVE m # n
    <3>1. Below(ks, h[m], B) \subseteq T /\ h[m] \notin Below(ks, h[m], B)
      BY <1>1, <1>2, <2>2 DEF Below
    <3>2. Cardinality(Below(ks, h[m], B)) # Cardinality(T)
      BY <1>2, <2>2, <3>1, FS_Subset
    <3> QED  BY <1>1, <1>4, <3>2 DEF Visited
  <2> QED  BY <1>1, <1>4, <2>1, <2>2 DEF Visited
<1> DEFINE P == {m \in 0 .. n : Visited(h, ks, m, B)}
<1>5. 0 \in P
  <2>1. h[0] \in Taken(ks, B) \cup {B} /\ Below(ks, h[0], B) = {}
    BY BeginFirst DEF WalksFrom
  <2> QED  BY <1>2, <2>1, FS_EmptySet DEF Visited
<1>6. ASSUME NEW m \in 1 .. n, m - 1 \in P PROVE m \in P
  <2>1. PICK x, y : x = h[m - 1] /\ y = h[m]
    OBVIOUS
  <2>2. /\ x \in T
        /\ Below(ks, x, B) = {h[j] : j \in 0 .. m - 2}
        /\ Cardinality(Below(ks, x, B)) = m - 1
    <3>1. m - 1 \in 0 .. n /\ m - 1 # n /\ m - 1 - 1 = m - 2
      BY <1>2
    <3>2. Visited(h, ks, m - 1, B)
      BY <1>6
    <3>3. x # B
      BY <1>4, <2>1, <3>1, <3>2
    <3> QED  BY <1>1, <2>1, <3>1, <3>2, <3>3 DEF Visited
  <2>3. x \in Slots(B) /\ y = Forward(ks, x, B)
    BY <1>1, <1>2, <2>1, <2>2 DEF WalksFrom, Slots
  <2>4. y \in T \cup {B} /\ \A j \in T : j < y <=> j <= x
    BY <1>1, <2>3, ForwardNext
  <2>5. Below(ks, y, B) = Below(ks, x, B) \cup {x} /\ x \notin Below(ks, x, B)
    BY <1>1, <1>2, <2>2, <2>4 DEF Below
  <2>6. IsFiniteSet(Below(ks, x, B))
    <3>1. Below(ks, x, B) \subseteq T
      BY <1>1 DEF Below
    <3> QED  BY <1>2, <3>1, FS_Subset
  <2>7. Cardinality(Below(ks, y, B)) = m
    <3>1. PICK W : W = Below(ks, x, B)
      OBVIOUS
    <3>2. IsFiniteSet(W) /\ Cardinality(W) = m - 1 /\ x \notin W
      BY <2>2, <2>5, <2>6, <3>1
    <3>3. Cardinality(W \cup {x}) = m - 1 + 1
      BY <3>2, FS_AddElement
    <3>4. m - 1 + 1 = m
      BY <1>2
    <3> QED  BY <2>5, <3>1, <3>3, <3>4
  <2>8. Below(ks, y, B) = {h[j] : j \in 0 .. m - 1}
    <3>1. \A j : j \in 0 .. m - 1 <=> j \in 0 .. m - 2 \/ j = m - 1
      BY <1>2
    <3> QED  BY <2>1, <2>2, <2>5, <3>1
  <2>9. Visited(h, ks, m, B)
    BY <1>1, <2>1, <2>4, <2>7, <2>8 DEF Visited
  <2>10. m \in 0 .. n
    BY <1>2
  <2> QED  BY <2>9, <2>10
<1>7. \A m \in 0 .. n : m \in P
  <2> HIDE DEF P
  <2> QED  BY <1>2, <1>5, <1>6, UpTo
<1> QED  BY <1>2, <1>4, <1>7

LEMMA BackwardReturns ==
  ASSUME NEW B \in Nat, NEW ks, NEW x \in Taken(ks, B), NEW y, y = Forward(ks, x, B)
  PROVE  Backward(ks, y) = x
<1>1. x \in Slots(B) /\ x \in Nat
  BY DEF Taken, Slots
<1>2. y \in Taken(ks, B) \cup {B} /\ \A j \in Taken(ks, B) : j < y <=> j <= x
  BY <1>1, ForwardNext
<1>3. PICK S : S = {j \in 0 .. y - 1 : ks[j] # Free}
  OBVIOUS
<1>4. y \in Nat /\ y <= B
  BY <1>2 DEF Taken, Slots
<1>5. \A j \in S : j \in Nat /\ j \in Taken(ks, B) /\ j <= x
  BY <1>2, <1>3, <1>4 DEF Taken, Slots
<1>6. x \in S
  BY <1>1, <1>2, <1>3, <1>4 DEF Taken
<1>7. S \subseteq Nat /\ S # {}
  BY <1>5, <1>6
<1>8. PICK m : m = Max(S)
  OBVIOUS
<1>9. m \in S /\ \A j \in S : j <= m
  BY <1>1, <1>5, <1>7, <1>8, MaxNat
<1>10. m \in Nat /\ m <= x /\ x <= m
  BY <1>5, <1>6, <1>9
<1> QED  BY <1>1, <1>3, <1>8, <1>10 DEF Backward

WalkIs(h, ks, n, B) ==
  h = [m \in 0 .. n |-> IF m = 0 THEN begin(ks, B) ELSE Forward(ks, h[m - 1], B)]

LEMMA WalkExists ==
  ASSUME NEW B \in Nat \ {0}, NEW ks, NEW n, n = Cardinality(Taken(ks, B))
  PROVE  \E h : WalkIs(h, ks, n, B)
<1>0. n \in Nat
  <2>1. IsFiniteSet(Slots(B)) /\ Taken(ks, B) \subseteq Slots(B)
    BY FS_Interval DEF Slots, Taken
  <2> QED  BY <2>1, FS_Subset, FS_CardinalityType
<1>1. PICK S, base : S = Taken(ks, B) \cup {B} /\ base = begin(ks, B)
  OBVIOUS
<1>2. base \in S
  BY <1>1, BeginFirst
<1>3. \A x \in S : x # B => Forward(ks, x, B) \in S
  BY <1>1, ForwardNext DEF Taken
<1> DEFINE G == [m \in 1 .. n |-> [x \in S |-> IF x = B THEN B ELSE Forward(ks, x, B)]]
<1>4. /\ G \in StepsOn(S, n)
      /\ \A m \in 1 .. n : \A x \in S : x # B => G[m][x] = Forward(ks, x, B)
  BY <1>1, <1>3 DEF StepsOn
<1> HIDE DEF G
<1>5. PICK h : Iterates(h, S, n, base, G)
  BY <1>0, <1>2, <1>4, Iteration
<1>6. h \in [0 .. n -> S] /\ h[0] = base
  BY <1>5 DEF Iterates
<1>7. \A m \in 1 .. n : m - 1 \in 0 .. n /\ m - 1 # n
  BY <1>0
<1>8. \A m \in 1 .. n : h[m - 1] # B => h[m] = Forward(ks, h[m - 1], B)
  BY <1>4, <1>5, <1>6, <1>7 DEF Iterates
<1>9. WalksFrom(h, ks, n, B)
  BY <1>1, <1>6, <1>8 DEF WalksFrom
<1>10. \A m \in 1 .. n : h[m - 1] # B
  BY <1>7, <1>9, WalkVisits
<1>11. \A m \in 1 .. n : h[m] = Forward(ks, h[m - 1], B)
  BY <1>8, <1>10
<1>12. h = [m \in 0 .. n |-> IF m = 0 THEN begin(ks, B) ELSE Forward(ks, h[m - 1], B)]
  BY <1>0, <1>1, <1>6, <1>11
<1> QED  BY <1>12 DEF WalkIs

WalkBackIs(g, ks, n, B) ==
  g = [m \in 0 .. n |-> IF m = 0 THEN B ELSE Backward(ks, g[m - 1])]

(* As many steps as there are taken slots lead through all of them to the  *)
(* end, and as many steps back the same way.                               *)
LEMMA WalkIsRound ==
  ASSUME NEW B \in Nat \ {0}, NEW ks, NEW n, n = Cardinality(Taken(ks, B)),
         NEW h, WalkIs(h, ks, n, B)
  PROVE  /\ {h[m] : m \in 0 .. n - 1} = Taken(ks, B)
         /\ \E g : WalkBackIs(g, ks, n, B)
         /\ \A g : WalkBackIs(g, ks, n, B) => \A m \in 0 .. n : g[n - m] = h[m]
<1>1. WalksFrom(h, ks, n, B)
  <2>1. h = [m \in 0 .. n |-> IF m = 0 THEN begin(ks, B) ELSE Forward(ks, h[m - 1], B)]
    BY DEF WalkIs
  <2>2. n \in Nat
    <3>1. IsFiniteSet(Slots(B)) /\ Taken(ks, B) \subseteq Slots(B)
      BY FS_Interval DEF Slots, Taken
    <3> QED  BY <3>1, FS_Subset, FS_CardinalityType
  <2>3. 0 \in 0 .. n /\ \A m \in 1 .. n : m \in 0 .. n /\ m # 0
    BY <2>2
  <2> QED  BY <2>1, <2>3 DEF WalksFrom
<1>2. /\ n \in Nat
      /\ \A m \in 0 .. n : Visited(h, ks, m, B)
      /\ \A m \in 0 .. n : h[m] = B <=> m = n
  BY <1>1, WalkVisits
<1>3. {h[m] : m \in 0 .. n - 1} = Taken(ks, B)
  <2>1. n \in 0 .. n /\ h[n] = B
    BY <1>2
  <2>2. Below(ks, B, B) = {h[m] : m \in 0 .. n - 1}
    BY <1>2, <2>1 DEF Visited
  <2>3. Below(ks, B, B) = Taken(ks, B)
    BY DEF Below, Taken, Slots
  <2> QED  BY <2>2, <2>3
<1>4. ASSUME NEW m \in 1 .. n PROVE Backward(ks, h[m]) = h[m - 1]
  <2>1. m - 1 \in 0 .. n /\ m - 1 # n
    BY <1>2
  <2>2. h[m - 1] # B /\ h[m - 1] \in Taken(ks, B)
    BY <1>2, <2>1 DEF Visited
  <2>3. h[m] = Forward(ks, h[m - 1], B)
    BY <1>1, <2>2 DEF WalksFrom
  <2> QED  BY <2>2, <2>3, BackwardReturns
<1>5. \E g : WalkBackIs(g, ks, n, B)
  <2> DEFINE g == [m \in 0 .. n |-> h[n - m]]
  <2>1. g[0] = B
    BY <1>2
  <2>2. ASSUME NEW m \in 1 .. n PROVE g[m] = Backward(ks, g[m - 1])
    <3>1. /\ m \in 0 .. n /\ m - 1 \in 0 .. n
          /\ n - (m - 1) \in 1 .. n /\ n - (m - 1) - 1 = n - m
      BY <1>2
    <3>2. g[m] = h[n - m] /\ g[m - 1] = h[n - (m - 1)]
      BY <3>1
    <3> QED  BY <1>4, <3>1, <3>2
  <2>3. g = [m \in 0 .. n |-> g[m]]
    OBVIOUS
  <2> HIDE DEF g
  <2>4. g = [m \in 0 .. n |-> IF m = 0 THEN B ELSE Backward(ks, g[m - 1])]
    <3>1. \A m \in 0 .. n : g[m] = IF m = 0 THEN B ELSE Backward(ks, g[m - 1])
      BY <1>2, <2>1, <2>2
    <3> QED  BY <2>3, <3>1
  <2> QED  BY <2>4 DEF WalkBackIs
<1>6. ASSUME NEW g, WalkBackIs(g, ks, n, B), NEW m \in 0 .. n PROVE g[n - m] = h[m]
  <2>1. g = [j \in 0 .. n |-> IF j = 0 THEN B ELSE Backward(ks, g[j - 1])]
    BY <1>6 DEF WalkBackIs
  <2>2. g[0] = B /\ \A j \in 1 .. n : g[j] = Backward(ks, g[j - 1])
    <3>1. 0 \in 0 .. n /\ \A j \in 1 .. n : j \in 0 .. n /\ j # 0
      BY <1>2
    <3> QED  BY <2>1, <3>1
  <2> DEFINE P == {j \in 0 .. n : g[j] = h[n - j]}
  <2>3. 0 \in P
    BY <1>2, <2>2
  <2>4. ASSUME NEW j \in 1 .. n, j - 1 \in P PROVE j \in P
    <3>1. j \in 0 .. n /\ n - (j - 1) \in 1 .. n /\ n - (j - 1) - 1 = n - j
      BY <1>2
    <3>2. g[j - 1] = h[n - (j - 1)]
      BY <2>4
    <3>3. g[j] = h[n - j]
      BY <1>4, <2>2, <3>1, <3>2
    <3> QED  BY <3>1, <3>3
  <2>5. \A j \in 0 .. n : j \in P
    <3> HIDE DEF P
    <3> QED  BY <1>2, <2>3, <2>4, UpTo
  <2>6. n - m \in 0 .. n /\ n - (n - m) = m
    BY <1>2
  <2>7. g[n - m] = h[n - (n - m)]
    BY <2>5, <2>6
  <2> QED  BY <2>6, <2>7
<1> QED  BY <1>3, <1>5, <1>6

LEMMA CountedWalk ==
  ASSUME FileIInv, opened => Exact
  PROVE  WalkVisitsAll
<1> SUFFICES ASSUME opened, M_buckets > 0
             PROVE  /\ {Walk(M_elem)[m] : m \in 0 .. M_elem - 1} = Occupied
                    /\ \A m \in 0 .. M_elem : WalkBack(M_buckets, M_elem)[M_elem - m] = Walk(M_elem)[m]
  BY DEF WalkVisitsAll
<1>1. PICK B, n : B = M_buckets /\ n = M_elem
  OBVIOUS
<1>2. B \in Nat \ {0} /\ n = Cardinality(Taken(keys, B))
  BY <1>1, OpenIInv, InvariantImplies DEF CountMatches, Occupied, IInv, TableOK
<1> DEFINE h == CHOOSE f : f = [m \in 0 .. n |-> IF m = 0 THEN begin(keys, B) ELSE Forward(keys, f[m - 1], B)]
           g == CHOOSE f : f = [m \in 0 .. n |-> IF m = 0 THEN B ELSE Backward(keys, f[m - 1])]
<1>3. Walk(M_elem) = h
  BY <1>1 DEF Walk
<1>4. WalkBack(M_buckets, M_elem) = g
  BY <1>1 DEF WalkBack
<1>5. WalkIs(h, keys, n, B)
  <2>1. \E f : WalkIs(f, keys, n, B)
    BY <1>2, WalkExists
  <2> QED  BY <2>1 DEF WalkIs
<1>6. /\ {h[m] : m \in 0 .. n - 1} = Taken(keys, B)
      /\ \E f : WalkBackIs(f, keys, n, B)
      /\ \A f : WalkBackIs(f, keys, n, B) => \A m \in 0 .. n : f[n - m] = h[m]
  <2> HIDE DEF h, g
  <2> QED  BY <1>2, <1>5, WalkIsRound
<1>7. WalkBackIs(g, keys, n, B)
  <2> HIDE DEF h
  <2> QED  BY <1>6 DEF WalkBackIs
<1> HIDE DEF h, g
<1> QED  BY <1>1, <1>3, <1>4, <1>6, <1>7 DEF Occupied

(* And then size() steps of ++ lead from begin() through every element to  *)
(* end(), and as many of -- back the same way.                             *)
THEOREM WalkCorrect ==
  FileSpec /\ [](opened => UniqueKeys /\ NoChainCloses) => []WalkVisitsAll
<1>1. FileInit => FileIInv /\ (opened => Exact)
  BY FileInitially, InvariantInit DEF FileInit
<1>2. FileIInv /\ [FileNext]_fileVars => FileIInv'
  BY FileInvariance
<1>3. FileIInv /\ (opened => Exact) /\ (opened => UniqueKeys /\ NoChainCloses) /\ [FileNext]_fileVars
        => (opened => Exact)'
  BY ExactKept
<1>4. FileIInv /\ (opened => Exact) => WalkVisitsAll
  BY CountedWalk
<1> QED  BY <1>1, <1>2, <1>3, <1>4, PTL DEF FileSpec

-----------------------------------------------------------------------------
(* What a stopped call costs. *)

(* Shifts make no element and lose none but that of the slot they run      *)
(* over, wherever they are stopped.                                        *)
LEMMA ShiftUpKeepsOthers ==
  ASSUME NEW B \in Nat, NEW t, DOMAIN t = Slots(B), NEW i \in Slots(B), NEW hole \in Slots(B),
         t[hole] = Free, NEW k
  PROVE  OthersThan(k, ShiftUp(t, i, hole, B), B) = OthersThan(k, t, B)
<1>1. PICK u : u = ShiftUp(t, i, hole, B)
  OBVIOUS
<1>2. PICK src, dst : Shuffles(src, dst, t, u, i, hole, B)
  BY <1>1, ShiftUpMoves
<1>3. u[i] = t[i]
  BY <1>1 DEF ShiftUp
<1>4. ASSUME NEW j \in Slots(B), t[j] # Free PROVE \E m \in Slots(B) : u[m] = t[j]
  <2>1. j \in Slots(B) \ {hole}
    BY <1>4
  <2>2. dst[j] \in Slots(B) \ {i} /\ src[dst[j]] = j
    BY <1>2, <2>1 DEF Shuffles
  <2>3. u[dst[j]] = t[src[dst[j]]]
    BY <1>2, <2>2 DEF Shuffles
  <2> QED  BY <2>2, <2>3
<1>5. ASSUME NEW m \in Slots(B) PROVE \E j \in Slots(B) : u[m] = t[j]
  <2>1. CASE m = i
    BY <1>3, <2>1
  <2>2. CASE m # i
    BY <1>2, <2>2 DEF Shuffles
  <2> QED  BY <2>1, <2>2
<1> QED  BY <1>1, <1>4, <1>5 DEF OthersThan

LEMMA ShiftDownKeepsOthers ==
  ASSUME NEW B \in Nat \ {0}, NEW t, DOMAIN t = Slots(B), NEW start \in Slots(B), NEW last \in Slots(B),
         NEW k, t[start] = Free \/ t[start].key = k
  PROVE  OthersThan(k, ShiftDown(t, start, last, B), B) = OthersThan(k, t, B)
<1> DEFINE D(i) == Distance(start, i, B)
           up(i) == Advance(i, 1, B)
<1>1. PICK u : u = ShiftDown(t, start, last, B)
  OBVIOUS
<1>2. \A i \in Slots(B) : u[i] = IF D(i) < D(last) THEN t[up(i)] ELSE t[i]
  BY <1>1 DEF ShiftDown
<1>3. \A i \in Slots(B) :
        /\ up(i) \in Slots(B)
        /\ D(i) \in 0 .. B - 1
        /\ i # start => /\ Advance(i, B - 1, B) \in Slots(B)
                        /\ D(Advance(i, B - 1, B)) = D(i) - 1
                        /\ up(Advance(i, B - 1, B)) = i
  BY DEF Advance, Distance, Slots
<1> HIDE DEF D, up
<1>4. ASSUME NEW j \in Slots(B), j # start PROVE \E i \in Slots(B) : u[i] = t[j]
  <2>0. D(last) \in 0 .. B - 1
    BY <1>3
  <2>1. CASE D(j) <= D(last)
    BY <1>2, <1>3, <1>4, <2>0, <2>1
  <2>2. CASE ~(D(j) <= D(last))
    BY <1>2, <1>3, <2>0, <2>2
  <2> QED  BY <2>1, <2>2
<1>5. \A i \in Slots(B) : \E j \in Slots(B) : u[i] = t[j]
  BY <1>2, <1>3
<1>6. ASSUME NEW x \in OthersThan(k, t, B) PROVE x \in OthersThan(k, u, B)
  <2>1. PICK j \in Slots(B) : t[j] = x /\ t[j] # Free /\ t[j].key # k
    BY <1>6 DEF OthersThan
  <2>2. PICK i \in Slots(B) : u[i] = t[j]
    BY <1>4, <2>1
  <2> QED  BY <2>1, <2>2 DEF OthersThan
<1>7. ASSUME NEW x \in OthersThan(k, u, B) PROVE x \in OthersThan(k, t, B)
  BY <1>5, <1>7 DEF OthersThan
<1> QED  BY <1>1, <1>6, <1>7

(* What a stop leaves is under the name if that leads there. *)
LEMMA StopSpares ==
  ASSUME NEW t, NEW B, NEW k, NEW key, Stop(t, B, key), linked,
         OthersThan(k, t, B) = OthersThan(k, M_file, M_buckets)
  PROVE  SparesOthers(k)
<1>1. M_file' = t /\ M_buckets' = B
  BY DEF Stop, Leaves
<1> QED  BY <1>1 DEF SparesOthers

LEMMA StopEmplaceSpares ==
  ASSUME FileIInv, linked, NEW k \in Key, StopEmplace(k)
  PROVE  SparesOthers(k)
<1>1. TypeOK /\ M_buckets \in Nat /\ M_file \in Tables(M_buckets)
  BY DEF FileIInv, FileTypeOK, TypeOK, Tables
<1>2. PICK B, t : B = EmplaceBuckets /\ t = Resized(M_file, B)
  OBVIOUS
<1>3. PICK res : res = open_address_emplace_index(KeysOf(t, B), k, B)
  OBVIOUS
<1>4. /\ ~EmplaceLoops(KeysOf(t, B), k, B) /\ res.inserted
      /\ \E d \in 0 .. Distance(res.index, res.hole, B) :
           Stop(ShiftUp(t, Advance(res.index, d, B), res.hole, B), B, k)
  BY <1>2, <1>3, Zenon DEF StopEmplace
<1>5. B \in Nat \ {0} /\ B >= M_buckets
  BY <1>1, <1>2, EmplaceBucketsType DEF StopEmplace
<1>6. t \in Tables(B) /\ OthersThan(k, t, B) = OthersThan(k, M_file, M_buckets)
  BY <1>1, <1>2, <1>5, ResizedContents
<1>7. res.index \in Slots(B) /\ res.hole \in Slots(B) /\ t[res.hole] = Free
  <2>1. KeysOf(t, B) \in KeyTables(B) /\ \A i \in Slots(B) : KeysOf(t, B)[i] = Free <=> t[i] = Free
    BY <1>5, <1>6, KeysOfType
  <2> QED  BY <1>3, <1>4, <1>5, <2>1, EmplaceResult
<1>8. PICK d \in 0 .. B : Stop(ShiftUp(t, Advance(res.index, d, B), res.hole, B), B, k)
  <2>1. Distance(res.index, res.hole, B) \in 0 .. B
    BY <1>5, <1>7 DEF Distance, Slots
  <2> QED  BY <1>4, <1>5, <2>1
<1>9. PICK i \in Slots(B) : i = Advance(res.index, d, B)
  BY <1>5, <1>7, AdvanceType
<1>10. OthersThan(k, ShiftUp(t, i, res.hole, B), B) = OthersThan(k, t, B)
  BY <1>5, <1>6, <1>7, ShiftUpKeepsOthers DEF Tables
<1> QED  BY <1>6, <1>8, <1>9, <1>10, StopSpares

LEMMA StopEraseSpares ==
  ASSUME FileIInv, linked, NEW k \in Key, StopErase(k)
  PROVE  SparesOthers(k)
<1>1. TypeOK /\ M_buckets \in Nat /\ M_file \in Tables(M_buckets)
  BY DEF FileIInv, FileTypeOK, TypeOK, Tables
<1>2. PICK B, t, res : B = M_buckets /\ t = M_file /\ res = open_address_erase_index(keys, k, B)
  OBVIOUS
<1>3. /\ B > 0 /\ res.last # B
      /\ \E d \in 0 .. Distance(res.start, res.last, B) :
           Stop(ShiftDown(t, res.start, Advance(res.start, d, B), B), B, k)
  BY <1>2, Zenon DEF StopErase
<1>4. B \in Nat \ {0} /\ t \in Tables(B) /\ keys = KeysOf(t, B)
  BY <1>1, <1>2, <1>3 DEF keys
<1>5. /\ res.start \in Slots(B) /\ res.last \in Slots(B)
      /\ t[res.start] # Free /\ t[res.start].key = k
  <2>1. /\ keys \in KeyTables(B)
        /\ \A i \in Slots(B) : t[i] # Free => keys[i] = t[i].key
        /\ \A i \in Slots(B) : keys[i] = Free <=> t[i] = Free
    BY <1>4, KeysOfType
  <2>2. res.start \in Slots(B) /\ res.last \in Slots(B) /\ keys[res.start] = k
    BY <1>2, <1>3, <1>4, <2>1, EraseResult
  <2> QED  BY <2>1, <2>2, FreeAssumption
<1>6. PICK d \in 0 .. B : Stop(ShiftDown(t, res.start, Advance(res.start, d, B), B), B, k)
  <2>1. Distance(res.start, res.last, B) \in 0 .. B
    BY <1>4, <1>5 DEF Distance, Slots
  <2> QED  BY <1>3, <1>4, <2>1
<1>7. PICK i \in Slots(B) : i = Advance(res.start, d, B)
  BY <1>4, <1>5, AdvanceType
<1>8. OthersThan(k, ShiftDown(t, res.start, i, B), B) = OthersThan(k, t, B)
  BY <1>4, <1>5, ShiftDownKeepsOthers DEF Tables
<1> QED  BY <1>2, <1>6, <1>7, <1>8, StopSpares

(* What a stopped growth leaves below the slots it has freed, in them and   *)
(* above.                                                                  *)
LEMMA StopGrowingAdds ==
  ASSUME FileIInv, linked, StopGrowing
  PROVE  Elements' = Elements \cup {ZeroSlot}
<1>1. TypeOK /\ M_buckets \in Nat
  BY DEF FileIInv, FileTypeOK, TypeOK
<1>2. PICK B \in GrownSizes : \E freed \in M_buckets .. B - 1 :
        Stop(Truncated(Resized(M_file, freed), B), B, Free)
  BY DEF StopGrowing
<1>3. B \in Nat
  BY <1>1, <1>2, GrownSizesType
<1>4. PICK freed \in M_buckets .. B - 1 : Stop(Truncated(Resized(M_file, freed), B), B, Free)
  BY <1>2
<1>5. PICK A, t, u : A = M_buckets /\ t = M_file /\ u = Truncated(Resized(t, freed), B)
  OBVIOUS
<1>6. M_file' = u /\ M_buckets' = B
  BY <1>4, <1>5 DEF Stop, Leaves
<1>7. DOMAIN t = Slots(A)
  BY <1>1, <1>5 DEF TypeOK
<1>8. \A i \in Slots(B) : u[i] = IF i < A THEN t[i] ELSE IF i < freed THEN Free ELSE ZeroSlot
  BY <1>1, <1>3, <1>4, <1>5, <1>7 DEF Truncated, Resized, Slots
<1>9. ZeroSlot.key # Free /\ ZeroSlot # Free
  BY ZeroAssumption, FreeAssumption, FreeSlotAssumption DEF ZeroSlot, Element
<1>10. OthersThan(Free, u, B) = OthersThan(Free, t, A) \cup {ZeroSlot}
  <2>1. A \in Nat /\ Slots(A) \subseteq Slots(B) /\ freed \in Slots(B) /\ A <= freed
    BY <1>1, <1>3, <1>4, <1>5 DEF Slots
  <2>2. u[freed] = ZeroSlot
    BY <1>8, <2>1, <1>4
  <2>3. \A i \in Slots(A) : u[i] = t[i]
    BY <1>8, <2>1 DEF Slots
  <2>4. \A i \in Slots(B) : u[i] # Free => i \in Slots(A) \/ u[i] = ZeroSlot
    BY <1>8, <2>1 DEF Slots
  <2> QED  BY <1>9, <2>1, <2>2, <2>3, <2>4 DEF OthersThan
<1> QED  BY <1>5, <1>6, <1>10 DEF Elements

LEMMA StopClearInvents ==
  ASSUME FileIInv, linked, StopClear
  PROVE  Elements' \subseteq Elements
<1>1. PICK n \in Slots(M_buckets) :
        Stop([i \in Slots(M_buckets) |-> IF i < n THEN Free ELSE M_file[i]], M_buckets, Free)
  BY DEF StopClear
<1>2. M_buckets' = M_buckets /\ \A i \in Slots(M_buckets) : M_file'[i] \in {Free, M_file[i]}
  BY <1>1 DEF Stop, Leaves
<1> QED  BY <1>2 DEF Elements, OthersThan

(* The elements are all others, if no key is left out. *)
LEMMA ElementsAreOthers ==
  ASSUME NEW B \in Nat, NEW t \in Tables(B)
  PROVE  OthersThan(Free, t, B) = ElementsOf(t)
<1>1. DOMAIN t = Slots(B) /\ \A i \in Slots(B) : t[i] # Free => t[i].key # Free
  BY FreeAssumption DEF Tables, Element
<1> QED  BY <1>1 DEF OthersThan, ElementsOf, TakenOf

LEMMA StoppedUnwindingKeeps ==
  ASSUME NEW D, NEW V, Free \in V, NEW t \in [D -> V],
         NEW c, Len(c) \in Nat, Len(c) > 1, \A m \in 1 .. Len(c) : c[m] \in D,
         \A m, n \in 1 .. Len(c) : c[m] = c[n] => m = n, t[c[Len(c)]] = Free,
         NEW u \in StoppedUnwinding(t, c)
  PROVE  ElementsOf(u) = ElementsOf(t)
<1>1. PICK L \in Nat : L = Len(c) /\ L > 1
  OBVIOUS
<1>2. \A n \in 0 .. L - 1 : /\ DOMAIN Popped(t, c, n) = D
                            /\ ElementsOf(Popped(t, c, n)) = ElementsOf(t)
                            /\ Popped(t, c, n)[c[L - n]] = Free
  <2> SUFFICES ASSUME NEW n \in 0 .. L - 1
               PROVE  /\ DOMAIN Popped(t, c, n) = D
                      /\ ElementsOf(Popped(t, c, n)) = ElementsOf(t)
                      /\ Popped(t, c, n)[c[L - n]] = Free
    OBVIOUS
  <2>1. /\ L >= 1 /\ \A m \in 1 .. L : c[m] \in DOMAIN t
        /\ t = [i \in DOMAIN t |-> t[i]]
        /\ \A m, k \in 1 .. L : c[m] = c[k] => m = k
        /\ t[c[L]] = Free
    BY <1>1
  <2> QED  BY <1>1, <2>1, PoppedKeepsElements
<1>3. CASE u \in {Popped(t, c, n) : n \in 0 .. L - 1}
  BY <1>2, <1>3
<1>4. CASE u \in {CopyOnly(Popped(t, c, n - 1), c[L - n], c[L - n + 1]) : n \in 1 .. L - 1}
  <2>1. PICK n \in 1 .. L - 1 : u = CopyOnly(Popped(t, c, n - 1), c[L - n], c[L - n + 1])
    BY <1>4
  <2>2. n - 1 \in 0 .. L - 1 /\ L - n \in 1 .. L /\ L - n + 1 \in 1 .. L /\ L - (n - 1) = L - n + 1 /\ L - n # L - n + 1
    OBVIOUS
  <2>3. PICK w, from, to : w = Popped(t, c, n - 1) /\ from = c[L - n] /\ to = c[L - n + 1]
    OBVIOUS
  <2>4. /\ DOMAIN w = D /\ ElementsOf(w) = ElementsOf(t) /\ w[to] = Free
        /\ from \in D /\ to \in D /\ from # to
    BY <1>1, <1>2, <2>2, <2>3
  <2>5. ElementsOf(CopyOnly(w, from, to)) = ElementsOf(w)
    BY <2>4, CopyKeepsElements
  <2> QED  BY <2>1, <2>3, <2>4, <2>5
<1> QED  BY <1>1, <1>3, <1>4 DEF StoppedUnwinding

LEMMA StopRehashSpares ==
  ASSUME FileIInv, linked, UniqueKeys, NoChainCloses, NEW n \in Requests, StopRehash(n)
  PROVE  Elements' = Elements
<1>1. TypeOK /\ M_buckets \in Nat /\ M_file \in Tables(M_buckets)
  BY DEF FileIInv, FileTypeOK, TypeOK, Tables
<1>2. PICK A, B, plan, V : /\ A = M_buckets /\ B = RehashSize(n)
                           /\ plan = PlanTo(B) /\ V = Element \cup {Free}
  OBVIOUS
<1>3. ~Unmapped(B) /\ ~plan.loops /\ StopMoving(B, plan)
  BY <1>2, Zenon DEF StopRehash
<1>4. A \in Nat /\ B \in Nat
  BY <1>1, <1>2, RehashSizeType
<1>5. PICK m \in 0 .. A : \E st \in {MovedSoFar(M_file, plan, m, A, B)} :
         \E t \in {st.t} \cup (IF m < A /\ st.first[m] \notin {Invalid, m}
                               THEN StoppedUnwinding(st.t, ChainFrom(st.first, m)) ELSE {}) :
           Stop(t, Max({A, B}), Free)
  BY <1>2, <1>3, Zenon DEF StopMoving
<1>6. PICK st : /\ st = MovedSoFar(M_file, plan, m, A, B)
                /\ \E t \in {st.t} \cup (IF m < A /\ st.first[m] \notin {Invalid, m}
                                         THEN StoppedUnwinding(st.t, ChainFrom(st.first, m)) ELSE {}) :
                     Stop(t, Max({A, B}), Free)
  BY <1>5, Zenon
<1>7. PICK t : /\ Stop(t, Max({A, B}), Free)
               /\ \/ t = st.t
                  \/ /\ m < A /\ st.first[m] \notin {Invalid, m}
                     /\ t \in StoppedUnwinding(st.t, ChainFrom(st.first, m))
  BY <1>6
<1>8. M_file \in [Slots(A) -> V] /\ Free \in V
  BY <1>1, <1>2 DEF Tables
<1>9. /\ keys \in KeyTables(A)
      /\ \A i \in Slots(A) : keys[i] = Free <=> M_file[i] = Free
      /\ Unrepeated(keys, A)
  <2>1. /\ keys \in KeyTables(A)
        /\ \A i \in Slots(A) : keys[i] = Free <=> M_file[i] = Free
        /\ \A i \in Slots(A) : M_file[i] # Free => keys[i] = M_file[i].key
    BY <1>1, <1>2, KeysOfType DEF keys
  <2>2. Unrepeated(keys, A)
    BY <1>2, <2>1 DEF UniqueKeys, Occupied, Taken, Unrepeated
  <2> QED  BY <2>1, <2>2
<1>10. /\ plan.first \in Firsts(A, B) /\ Paired(keys, plan, A, B)
  <2>1. B # 0 \/ Taken(keys, A) = {}
    BY <1>2, <1>3 DEF Unmapped, Occupied
  <2>2. plan = Plan(keys, A, B)
    BY <1>2 DEF PlanTo
  <2> QED  BY <1>3, <1>4, <1>9, <2>1, <2>2, PlanPaired
<1>11. Apart(plan.first) /\ Covers(plan.first, M_file)
  <2>1. Apart(plan.first)
    BY <1>10 DEF Paired, Apart, Firsts
  <2>2. Covers(plan.first, M_file)
    BY <1>8, <1>9, <1>10 DEF Paired, Covers, Firsts, TakenOf
  <2> QED  BY <2>1, <2>2
<1>12. NoneCloses(plan.first)
  <2>1. CASE B = 0
    <3>0. Slots(B) = {}
      BY <2>1 DEF Slots
    <3>1. \A i \in DOMAIN plan.first : plan.first[i] = Invalid
      BY <1>10, <3>0 DEF Firsts
    <3> QED  BY <3>1 DEF NoneCloses
  <2>2. CASE B # 0
    <3>1. ~HasCycle(plan)
      BY <1>2, <2>2 DEF NoChainCloses
    <3> QED  BY <3>1 DEF HasCycle, NoneCloses
  <2> QED  BY <2>1, <2>2
<1>13. /\ ElementsOf(st.t) = ElementsOf(M_file)
       /\ m < A /\ st.first[m] \notin {Invalid, m} =>
            \A c : c = ChainFrom(st.first, m) =>
              /\ Len(c) \in Nat /\ Len(c) > 1
              /\ \A i \in 1 .. Len(c) : c[i] \in Slots(A) \cup Slots(B)
              /\ \A i, j \in 1 .. Len(c) : c[i] = c[j] => i = j
              /\ st.t[c[Len(c)]] = Free
  BY <1>4, <1>6, <1>8, <1>10, <1>11, <1>12, MovingKeepsElements
<1>14. st \in States(A, B, V)
  BY <1>4, <1>6, <1>8, <1>10, MovesNoMore
<1>15. PICK D : D = Slots(A) \cup Slots(B)
  OBVIOUS
<1>16. st.t \in [D -> V]
  BY <1>14, <1>15 DEF States
<1>17. ElementsOf(t) = ElementsOf(st.t) /\ t \in [D -> V]
  <2>1. CASE t = st.t
    BY <1>16, <2>1
  <2>2. CASE /\ m < A /\ st.first[m] \notin {Invalid, m}
             /\ t \in StoppedUnwinding(st.t, ChainFrom(st.first, m))
    <3>1. PICK c : c = ChainFrom(st.first, m)
      OBVIOUS
    <3>2. /\ Len(c) \in Nat /\ Len(c) > 1
          /\ \A i \in 1 .. Len(c) : c[i] \in D
          /\ \A i, j \in 1 .. Len(c) : c[i] = c[j] => i = j
          /\ st.t[c[Len(c)]] = Free
      BY <1>13, <1>15, <2>2, <3>1
    <3>3. ElementsOf(t) = ElementsOf(st.t)
      <4>1. PICK w : w = st.t
        OBVIOUS
      <4>2. w \in [D -> V] /\ w[c[Len(c)]] = Free /\ t \in StoppedUnwinding(w, c)
        BY <1>16, <2>2, <3>1, <3>2, <4>1
      <4>3. ElementsOf(t) = ElementsOf(w)
        BY <1>8, <3>2, <4>2, StoppedUnwindingKeeps
      <4> QED  BY <4>1, <4>3
    <3>4. m \in Slots(A)
      BY <1>4, <2>2 DEF Slots
    <3>5. t \in [D -> V]
      BY <1>4, <1>8, <1>14, <1>15, <2>2, <3>4, UnwindingType
    <3> QED  BY <3>3, <3>5
  <2> QED  BY <1>7, <2>1, <2>2
<1>18. PICK M \in Nat : M = Max({A, B}) /\ Slots(M) = D
  BY <1>4, <1>15, SlotsOfBoth
<1>19. t \in Tables(M)
  BY <1>2, <1>17, <1>18 DEF Tables
<1>20. OthersThan(Free, t, M) = OthersThan(Free, M_file, M_buckets)
  BY <1>1, <1>13, <1>17, <1>19, ElementsAreOthers
<1>21. SparesOthers(Free)
  BY <1>7, <1>18, <1>20, StopSpares
<1> QED  BY <1>21 DEF SparesOthers, Elements

LEMMA CallSpares ==
  ASSUME FileIInv, Call, ret'.key # Free
  PROVE  SparesOthers(ret'.key)
<1>1. IInv /\ opened'
  BY OpenIInv DEF Call, life
<1>2. CASE Next
  <2>1. ~Clear
    BY DEF Clear, NoCall
  <2>2. Kept(ret'.key) \/ UNCHANGED vars
    BY <1>1, <1>2, <2>1, Invariance
  <2> QED  BY <1>1, <2>2 DEF Kept, vars, SparesOthers
<1>3. CASE \E n \in Requests : rehash(n)
  <2>1. PICK n \in Requests : rehash(n)
    BY <1>3
  <2>2. UNCHANGED table
    <3>1. PICK B : B = RehashSize(n)
      OBVIOUS
    <3>2. NoRehash \/ Traps \/ Loops \/ ret' = NoCall
      BY <2>1, <3>1, Zenon DEF rehash, RehashTo
    <3> QED  BY <3>2 DEF NoRehash, Traps, Loops, NoCall
  <2> QED  BY <1>1, <2>2 DEF table, SparesOthers
<1> QED  BY <1>2, <1>3 DEF Call, RehashNext

(* A call about one key, returned or stopped between two of its copies,    *)
(* leaves the file exactly the elements of other keys that it had.  A      *)
(* stopped growth leaves all elements and the one of zero bytes, a stopped *)
(* clear none that was not there.  A stopped rehash leaves exactly the     *)
(* elements there were, where keys are distinct and no chain closes: then  *)
(* no move is between taking an element out and putting it in.             *)
THEOREM StopsSpareOthers == FileSpec => StoppedOrNot
<1>1. FileInit => FileIInv
  BY FileInitially
<1>2. FileIInv /\ [FileNext]_fileVars => FileIInv'
  BY FileInvariance
<1>3. ASSUME FileIInv, FileNext, opened, linked, ret'.key # Free
      PROVE  SparesOthers(ret'.key)
  <2>1. CASE Call
    BY <1>3, <2>1, CallSpares
  <2>2. CASE Stopping
    <3>1. PICK k \in Key : StopEmplace(k) \/ StopErase(k)
      BY <1>3, <2>2, Zenon DEF Stopping, StopGrowing, StopClear, StopRehash, StopMoving, Stop, NoCall
    <3>2. ret'.key = k
      BY <3>1, Zenon DEF StopEmplace, StopErase, Stop, NoCall
    <3> QED  BY <1>3, <3>1, <3>2, StopEmplaceSpares, StopEraseSpares
  <2>3. ~(Wiping \/ GrowUnlinked \/ Close \/ Kill \/ MoveConstruct \/ DestroyMovedFrom)
    <3>1. ret' # NoCall
      BY <1>3 DEF NoCall
    <3> QED  BY <1>3, <3>1, Zenon
         DEF Wiping, destruct_is_wipe, GrowUnlinked, Close, Kill, MoveConstruct, DestroyMovedFrom
  <2>4. ~ \E n \in Requests : Opening(n)
    BY <1>3, Zenon DEF Opening, Reopen, OpenEmpty, Opens
  <2> QED  BY <1>3, <2>1, <2>2, <2>3, <2>4 DEF FileNext
<1>4. FileIInv /\ [FileNext]_fileVars =>
        [opened /\ linked =>
           /\ ret'.key # Free => SparesOthers(ret'.key)
           /\ StopGrowing => Elements' = Elements \cup {ZeroSlot}
           /\ StopClear => Elements' \subseteq Elements
           /\ UniqueKeys /\ NoChainCloses =>
                \A n \in Requests : StopRehash(n) => Elements' = Elements]_fileVars
  BY <1>3, StopGrowingAdds, StopClearInvents, StopRehashSpares
<1> QED  BY <1>1, <1>2, <1>4, PTL DEF FileSpec, StoppedOrNot

-----------------------------------------------------------------------------
(* A loop that erases.  Where no element has passed the end, slot 0 stops  *)
(* a shift: it is free or its element is at home.  So the shift ends at or *)
(* behind the slot of the erased element.                                  *)

(* An element in slot j would be moved down if the slot below were freed.  *)
MovesDown(ks, j, B) == j \in Taken(ks, B) /\ Home(ks[j], B) # j

LEMMA EraseStaysBehind ==
  ASSUME NEW B \in Nat \ {0}, NEW t \in Tables(B), NEW k \in Key,
         Overflowed(KeysOf(t, B), B) = {},
         NEW res, res = open_address_erase_index(KeysOf(t, B), k, B), res.last # B
  PROVE  /\ res.start \in Slots(B) /\ res.last \in Slots(B)
         /\ res.start <= res.last
         /\ t[res.start].key = k
         /\ \A j \in res.start .. res.last : t[j] # Free
         /\ res.last # res.start <=> MovesDown(KeysOf(t, B), res.start + 1, B)
<1>1. PICK ks : ks = KeysOf(t, B)
  OBVIOUS
<1>2. /\ ks \in KeyTables(B)
      /\ \A i \in Slots(B) : t[i] # Free => ks[i] = t[i].key
      /\ \A i \in Slots(B) : ks[i] = Free <=> t[i] = Free
  BY <1>1, KeysOfType
<1>3. /\ res.start \in Slots(B) /\ res.last \in Slots(B) /\ ks[res.start] = k
      /\ \A j \in Slots(B) :
           Distance(res.start, j, B) <= Distance(res.start, res.last, B) => ks[j] # Free
  BY <1>1, <1>2, EraseResult
<1>4. PICK i, next, stop : /\ i = res.start /\ next = Advance(i, 1, B)
                           /\ stop = FreeSlots(ks, B) \cup AtHome(ks, B) \cup {i}
  OBVIOUS
<1>5. res.last = Advance(i, Steps(next, stop, B), B)
  BY <1>1, <1>4 DEF open_address_erase_index
<1>6. 0 \in stop
  <2>1. 0 \in Slots(B)
    BY DEF Slots
  <2>2. CASE ks[0] = Free
    BY <1>4, <2>1, <2>2 DEF FreeSlots
  <2>3. CASE ks[0] # Free
    <3>1. ks[0] \in Key
      BY <1>2, <2>1, <2>3 DEF KeyTables
    <3>2. Home(ks[0], B) \in Slots(B) /\ ~(Home(ks[0], B) > 0)
      BY <1>1, <2>1, <2>3, <3>1, HomeType DEF Overflowed, Taken
    <3>3. Home(ks[0], B) = 0
      BY <3>2 DEF Slots
    <3> QED  BY <1>4, <2>1, <2>3, <3>3 DEF AtHome, Taken
  <2> QED  BY <2>2, <2>3
<1>7. i \in Slots(B) /\ i <= res.last
  <2>1. i \in 0 .. B - 1 /\ next \in Slots(B) /\ 0 \in Slots(B)
    BY <1>3, <1>4 DEF Slots, Advance
  <2>2. Steps(next, stop, B) <= Distance(next, 0, B) /\ Steps(next, stop, B) \in 0 .. B
    BY <1>6, <2>1, StepsFind, StepsStop
  <2>3. Distance(next, 0, B) = B - 1 - i
    BY <1>4, <2>1 DEF Distance, Advance
  <2> QED  BY <1>3, <1>4, <1>5, <2>1, <2>2, <2>3 DEF Advance
<1>8. ASSUME NEW j \in i .. res.last PROVE t[j] # Free
  <2>1. j \in Slots(B) /\ Distance(i, j, B) <= Distance(i, res.last, B)
    BY <1>3, <1>7, <1>8 DEF Slots, Distance
  <2> QED  BY <1>2, <1>3, <1>4, <2>1
<1>9. t[i].key = k
  <2>1. i \in i .. res.last
    BY <1>3, <1>7 DEF Slots
  <2> QED  BY <1>2, <1>3, <1>4, <1>8, <2>1
<1>10. res.last # i <=> MovesDown(ks, i + 1, B)
  <2>1. i \in 0 .. B - 1 /\ next \in Slots(B) /\ 0 \in Slots(B)
    BY <1>3, <1>4 DEF Slots, Advance
  <2>2. PICK s : s = Steps(next, stop, B)
    OBVIOUS
  <2>3. s \in 0 .. B - 1 /\ Advance(next, s, B) \in stop
    <3>1. s \in 0 .. B /\ s < B /\ FirstIn(next, stop, B) \in stop
      BY <1>6, <2>1, <2>2, StepsFind, StepsStop
    <3> QED  BY <2>2, <3>1 DEF FirstIn
  <2>4. next \in stop => s = 0
    <3>1. next \in stop => s <= Distance(next, next, B)
      BY <2>1, <2>2, StepsFind
    <3> QED  BY <2>1, <2>3, <3>1 DEF Distance, Slots
  <2>5. s = 0 => next \in stop
    BY <2>1, <2>3 DEF Advance, Slots
  <2>6. res.last = i <=> s = 0
    BY <1>5, <2>1, <2>2, <2>3 DEF Advance
  <2>7. next \in stop <=> ~MovesDown(ks, i + 1, B)
    <3>1. CASE i + 1 < B
      <4>1. next = i + 1 /\ next # i /\ next \in Slots(B)
        BY <1>4, <2>1, <3>1 DEF Advance
      <4>2. next \in stop <=> ks[next] = Free \/ Home(ks[next], B) = next
        BY <1>4, <4>1, Zenon DEF FreeSlots, AtHome, Taken
      <4>3. MovesDown(ks, next, B) <=> ks[next] # Free /\ Home(ks[next], B) # next
        BY <4>1, Zenon DEF MovesDown, Taken
      <4> QED  BY <4>1, <4>2, <4>3, Zenon
    <3>2. CASE ~(i + 1 < B)
      <4>1. next = 0 /\ i + 1 \notin Slots(B)
        BY <1>4, <2>1, <3>2 DEF Advance, Slots
      <4> QED  BY <1>6, <4>1 DEF MovesDown, Taken
    <3> QED  BY <3>1, <3>2
  <2> QED  BY <2>4, <2>5, <2>6, <2>7
<1> QED  BY <1>1, <1>3, <1>4, <1>7, <1>8, <1>9, <1>10

LEMMA SlideFollows ==
  ASSUME NEW B \in Nat \ {0}, NEW t, NEW i \in Slots(B), NEW last \in Slots(B), i <= last,
         \A j \in i .. last : t[j] # Free,
         NEW u, u = [ShiftDown(t, i, last, B) EXCEPT ![last] = Free]
  PROVE  ElementsFrom(i, u, B) = ElementsFrom(i + 1, t, B)
<1>1. i \in 0 .. B - 1 /\ last \in 0 .. B - 1
  BY DEF Slots
<1>2. u[last] = Free
  BY DEF ShiftDown
<1>3. ASSUME NEW j \in i .. B - 1, j # last
      PROVE  u[j] = IF j < last THEN t[j + 1] ELSE t[j]
  <2>1. j \in Slots(B)
    BY <1>1 DEF Slots
  <2>2. Distance(i, j, B) < Distance(i, last, B) <=> j < last
    BY <1>1 DEF Distance
  <2>3. j < last => Advance(j, 1, B) = j + 1
    BY <1>1 DEF Advance
  <2> QED  BY <1>3, <2>1, <2>2, <2>3 DEF ShiftDown
<1>4. ASSUME NEW j \in i .. B - 1, u[j] # Free
      PROVE  \E m \in i + 1 .. B - 1 : t[m] = u[j] /\ t[m] # Free
  <2>1. j # last
    BY <1>2, <1>4
  <2>2. CASE j < last
    <3>1. j + 1 \in i + 1 .. B - 1
      BY <1>1, <2>2
    <3> QED  BY <1>3, <1>4, <2>1, <2>2, <3>1
  <2>3. CASE ~(j < last)
    <3>1. j \in i + 1 .. B - 1
      BY <1>1, <2>1, <2>3
    <3> QED  BY <1>3, <1>4, <2>1, <2>3, <3>1
  <2> QED  BY <2>2, <2>3
<1>5. ASSUME NEW m \in i + 1 .. B - 1, t[m] # Free
      PROVE  \E j \in i .. B - 1 : u[j] = t[m] /\ u[j] # Free
  <2>1. CASE m <= last
    <3>1. m - 1 \in i .. B - 1 /\ m - 1 # last /\ m - 1 < last /\ (m - 1) + 1 = m
      BY <1>1, <2>1
    <3>2. u[m - 1] = t[m]
      BY <1>3, <3>1
    <3> QED  BY <1>5, <3>1, <3>2
  <2>2. CASE ~(m <= last)
    <3>1. m \in i .. B - 1 /\ m # last /\ ~(m < last)
      BY <1>1, <2>2
    <3>2. u[m] = t[m]
      BY <1>3, <3>1
    <3> QED  BY <1>5, <3>1, <3>2
  <2> QED  BY <2>1, <2>2
<1>6. ElementsFrom(i, u, B) \subseteq ElementsFrom(i + 1, t, B)
  BY <1>4 DEF ElementsFrom
<1>7. ElementsFrom(i + 1, t, B) \subseteq ElementsFrom(i, u, B)
  BY <1>5 DEF ElementsFrom
<1> QED  BY <1>6, <1>7

LEMMA EraseAtFollows ==
  ASSUME FileIInv, opened, UniqueKeys, Overflowed(keys, M_buckets) = {},
         NEW i \in Occupied, EraseAt(i), ret'.ok
  PROVE  GoesOn(i)
<1>1. TableOK /\ M_buckets \in Nat /\ M_file \in Tables(M_buckets) /\ keys = KeysOf(M_file, M_buckets)
  BY DEF FileIInv, TableOK, keys
<1>2. i \in TakenIn(M_file, M_buckets)
  BY <1>1, KeysOfType DEF Occupied
<1>3. PICK B, k : B = M_buckets /\ k = M_file[i].key
  OBVIOUS
<1>4. i \in Slots(B) /\ M_file[i] # Free /\ k \in Key /\ B \in Nat \ {0}
  BY <1>1, <1>2, <1>3 DEF TakenIn, Slots, Tables, Element
<1>5. PICK res : res = open_address_erase_index(keys, k, B)
  OBVIOUS
<1>6. /\ M_buckets' = B
      /\ res.last # B =>
           /\ M_file' = [ShiftDown(M_file, res.start, res.last, B) EXCEPT ![res.last] = Free]
           /\ M_elem' = M_elem - 1
      /\ ret'.ok = find(k).found
      /\ ret'.at = IF M_elem' = 0 THEN B ELSE i
  BY <1>3, <1>5, Zenon DEF EraseAt, erase, Answer
<1>7. res.last # B
  BY <1>1, <1>3, <1>4, <1>5, <1>6, KeysOfType, EraseResult DEF find
<1>8. /\ res.start \in Slots(B) /\ res.last \in Slots(B) /\ res.start <= res.last
      /\ M_file[res.start].key = k
      /\ \A j \in res.start .. res.last : M_file[j] # Free
      /\ res.last # res.start <=> MovesDown(keys, res.start + 1, B)
  BY <1>1, <1>3, <1>4, <1>5, <1>7, EraseStaysBehind
<1>9. res.start = i
  <2>1. res.start \in res.start .. res.last
    BY <1>8 DEF Slots
  <2>2. res.start \in Occupied
    BY <1>1, <1>3, <1>8, <2>1, KeysOfType DEF Occupied, TakenIn
  <2> QED  BY <1>3, <1>8, <2>2 DEF UniqueKeys
<1>10. ElementsFrom(i, M_file', B) = ElementsFrom(i + 1, M_file, B)
  BY <1>4, <1>6, <1>7, <1>8, <1>9, SlideFollows
<1>11. ASSUME M_elem' = 0 PROVE ~Refills(i)
  <2>1. PICK S : S = TakenIn(M_file, M_buckets)
    OBVIOUS
  <2>2. IsFiniteSet(S) /\ i \in S /\ Cardinality(S) \in Nat /\ Cardinality(S) <= 1
    BY <1>1, <1>2, <1>6, <1>7, <1>11, <2>1, TakenFinite, FS_CardinalityType DEF TableOK
  <2>3. ASSUME NEW j \in S PROVE j = i
    <3>1. IsFiniteSet(S \ {i}) /\ Cardinality(S \ {i}) = Cardinality(S) - 1
      BY <2>2, FS_RemoveElement
    <3>2. S \ {i} = {}
      BY <2>2, <3>1, FS_EmptySet, FS_CardinalityType
    <3> QED  BY <2>3, <3>2
  <2>4. i + 1 \notin S
    BY <1>4, <2>3 DEF Slots
  <2> QED  BY <1>1, <2>1, <2>4, KeysOfType DEF Refills, Occupied
<1>12. Refills(i) <=> res.last # i
  BY <1>3, <1>8, <1>9 DEF Refills, MovesDown, Occupied
<1>13. M_file' \in Tables(B) /\ (M_file'[i] = Free <=> ~Refills(i))
  <2>1. PICK w : w = ShiftDown(M_file, i, res.last, B)
    OBVIOUS
  <2>2. w \in Tables(B) /\ M_file' = [w EXCEPT ![res.last] = Free]
    BY <1>1, <1>3, <1>4, <1>6, <1>7, <1>9, <2>1, ShiftedType
  <2>3. M_file' \in Tables(B)
    BY <2>2 DEF Tables
  <2>4. CASE res.last = i
    BY <1>4, <1>12, <2>2, <2>3, <2>4 DEF Tables
  <2>5. CASE res.last # i
    <3>1. i + 1 \in i .. res.last /\ Distance(i, i, B) < Distance(i, res.last, B) /\ Advance(i, 1, B) = i + 1
      BY <1>4, <1>8, <1>9, <2>5 DEF Slots, Distance, Advance
    <3>2. w[i] = M_file[i + 1] /\ M_file[i + 1] # Free
      BY <1>4, <1>8, <1>9, <2>1, <3>1 DEF ShiftDown
    <3>3. M_file'[i] = w[i]
      BY <1>4, <2>2, <2>5 DEF Tables
    <3> QED  BY <1>12, <2>3, <2>5, <3>2, <3>3
  <2> QED  BY <2>3, <2>4, <2>5
<1>14. /\ keys' = KeysOf(M_file', B)
       /\ Occupied' = Taken(keys', B)
       /\ \A j \in Slots(B) : j \in Occupied' <=> M_file'[j] # Free
  <2>1. keys' = KeysOf(M_file', B) /\ Occupied' = Taken(keys', B)
    BY <1>6 DEF keys, Occupied
  <2> QED  BY <1>4, <1>13, <2>1, KeysOfType DEF Taken
<1>15. CASE Refills(i)
  <2>1. ret'.at = i
    BY <1>6, <1>11, <1>15
  <2> QED  BY <1>3, <1>4, <1>6, <1>10, <1>13, <1>14, <1>15, <2>1 DEF GoesOn
<1>16. CASE ~Refills(i)
  <2>1. ret'.at \notin Occupied'
    BY <1>4, <1>6, <1>13, <1>14, <1>16 DEF Taken, Slots
  <2>2. PICK next : next = Forward(keys', i, B)
    OBVIOUS
  <2>3. \A j \in Slots(B) : j \in Occupied' => (j < next <=> j <= i)
    BY <1>4, <1>14, <2>2, ForwardNext
  <2>4. next \in Nat /\ i < next
    BY <1>4, <1>14, <2>2, ForwardNext DEF Taken, Slots
  <2>5. ElementsFrom(next, M_file', B) = ElementsFrom(i, M_file', B)
    <3>1. \A j \in Slots(B) : M_file'[j] # Free => (j >= next <=> j >= i)
      BY <1>4, <1>13, <1>14, <1>16, <2>3, <2>4 DEF Slots
    <3> QED  BY <1>4, <2>4, <3>1 DEF ElementsFrom, Slots
  <2> QED  BY <1>3, <1>6, <1>10, <1>16, <2>1, <2>2, <2>5 DEF GoesOn
<1> QED  BY <1>15, <1>16

(* EraseKeepsWalk while the table holds no key twice and no element past   *)
(* the end: a loop over erase(iterator) that takes the step of ++ from a   *)
(* slot that was not filled again sees every element once.  A key          *)
(* there twice may be erased in its other place, and behind an element     *)
(* past the end the shift of erase brings slot 0 to the end.               *)
THEOREM ErasingKeepsWalk ==
  FileSpec /\ [](opened => UniqueKeys /\ Overflowed(keys, M_buckets) = {}) => EraseKeepsWalk
<1>1. FileInit => FileIInv
  BY FileInitially
<1>2. FileIInv /\ [FileNext]_fileVars => FileIInv'
  BY FileInvariance
<1>3. FileIInv /\ (opened => UniqueKeys /\ Overflowed(keys, M_buckets) = {}) =>
        [opened /\ ret'.ok /\ ret'.val = None =>
           \A i \in Occupied : EraseAt(i) => GoesOn(i)]_fileVars
  BY EraseAtFollows
<1> QED  BY <1>1, <1>2, <1>3, PTL DEF FileSpec, EraseKeepsWalk

-----------------------------------------------------------------------------
(* The order over a rehash.  The first pass puts the keys into the vector  *)
(* as emplace puts them into the table, and its slots only get fuller: if  *)
(* the last one ends up free, it has been free all along.                  *)

OrderlyPlan(ks, plan, B) ==
  ~plan.loops /\ KeysPlaced(ks, plan, B)[B - 1] = Free => Ordered(KeysPlaced(ks, plan, B), B)

(* Placing an element is what emplace does on the keys.                    *)
LEMMA PlacedKeys ==
  ASSUME NEW A \in Nat, NEW B \in Nat \ {0}, NEW ks, NEW o \in Slots(A), NEW plan \in Plans(A, B),
         NEW p \in Slots(B), NEW q \in Slots(B),
         NEW next, next = Place(plan, o, p, ShiftUp(plan.second, p, q, B)),
         NEW placed, placed = KeysPlaced(ks, plan, B),
         NEW u, u = KeysPlaced(ks, next, B)
  PROVE  /\ u[p] = ks[o]
         /\ \A j \in Slots(B) \ {p} : u[j] = ShiftUp(placed, p, q, B)[j]
<1>1. PICK s : s = ShiftUp(plan.second, p, q, B)
  OBVIOUS
<1>2. o # Free
  BY NoSlotAssumption DEF Slots
<1>3. DOMAIN s = Slots(B) /\ plan.second \in [Slots(B) -> Slots(A) \cup {Free}]
  BY <1>1 DEF ShiftUp, Plans
<1>4. next.second = [s EXCEPT ![p] = o]
  BY <1>1 DEF Place, Plans
<1>5. u[p] = ks[o]
  BY <1>2, <1>3, <1>4 DEF KeysPlaced
<1>6. ASSUME NEW j \in Slots(B) \ {p} PROVE u[j] = ShiftUp(placed, p, q, B)[j]
  <2>1. Advance(j, B - 1, B) \in Slots(B)
    BY AdvanceType
  <2>2. u[j] = IF s[j] = Free THEN Free ELSE ks[s[j]]
    BY <1>3, <1>4 DEF KeysPlaced
  <2>3. \A i \in Slots(B) : placed[i] = IF plan.second[i] = Free THEN Free ELSE ks[plan.second[i]]
    BY DEF KeysPlaced
  <2> QED  BY <1>1, <2>1, <2>2, <2>3 DEF ShiftUp
<1> QED  BY <1>5, <1>6

LEMMA PlaceOneOrders ==
  ASSUME NEW A \in Nat, NEW B \in Nat \ {0}, NEW ks \in KeyTables(A), Unrepeated(ks, A),
         NEW o \in Slots(A), NEW plan, Sound(ks, o, plan, A, B), OrderlyPlan(ks, plan, B)
  PROVE  OrderlyPlan(ks, PlaceOne(ks, B, plan, o), B)
<1>1. PICK placed, k : placed = KeysPlaced(ks, plan, B) /\ k = ks[o]
  OBVIOUS
<1>2. PICK next : next = PlaceOne(ks, B, plan, o)
  OBVIOUS
<1>3. k # Free => next = PlaceKey(placed, B, plan, k, o)
  BY <1>1, <1>2 DEF PlaceOne, KeysPlaced
<1>4. CASE k = Free
  BY <1>1, <1>4 DEF PlaceOne
<1>5. CASE k # Free /\ (plan.loops \/ EmplaceLoops(placed, k, B))
  <2>1. plan \in Plans(A, B) /\ next = [plan EXCEPT !.loops = TRUE]
    BY <1>3, <1>5 DEF PlaceKey, Sound
  <2>2. next.loops
    BY <2>1 DEF Plans
  <2> QED  BY <1>2, <2>2 DEF OrderlyPlan
<1>6. CASE k # Free /\ ~plan.loops /\ ~EmplaceLoops(placed, k, B)
  <2>1. plan \in Plans(A, B) /\ PairedBelow(ks, o, plan, A, B)
    BY <1>6 DEF Sound
  <2>2. /\ placed \in KeyTables(B) /\ k \in Key
        /\ \A j \in Slots(B) : placed[j] # k
    BY <1>1, <1>6, <2>1, PlacedBefore DEF KeyTables
  <2>3. PICK res, p, q : res = open_address_emplace_index(placed, k, B) /\ p = res.index /\ q = res.hole
    OBVIOUS
  <2>4. /\ res.inserted /\ p \in Slots(B) /\ q \in Slots(B) /\ placed[q] = Free
        /\ \A j \in Slots(B) : Distance(p, j, B) < Distance(p, q, B) => placed[j] # Free
    BY <1>6, <2>2, <2>3, EmplaceResult
  <2>5. next = Place(plan, o, p, ShiftUp(plan.second, p, q, B))
    BY <1>3, <1>6, <2>3 DEF PlaceKey, PlaceAt
  <2>6. PICK u : u = KeysPlaced(ks, next, B)
    OBVIOUS
  <2>7. u[p] = k /\ \A j \in Slots(B) \ {p} : u[j] = ShiftUp(placed, p, q, B)[j]
    BY <1>1, <2>1, <2>4, <2>5, <2>6, PlacedKeys
  <2>8. ASSUME u[B - 1] = Free PROVE Ordered(u, B)
    <3>1. B \in Nat /\ DOMAIN u = Slots(B) /\ B - 1 \in Slots(B) /\ u[p] # Free
      BY <1>6, <2>6, <2>7 DEF KeysPlaced, Slots
    <3>2. /\ \A j \in Slots(B) : u[j] # Free <=> placed[j] # Free \/ j = q
          /\ ElementsIn(u, Slots(B) \ {p}) = ElementsIn(placed, Slots(B))
      BY ONLY <2>4, <2>7, <3>1, ShiftUpContents
    <3>3. placed[B - 1] = Free
      BY <2>8, <3>1, <3>2
    <3>4. Ordered(placed, B)
      BY <1>1, <1>6, <3>3 DEF OrderlyPlan
    <3>5. /\ Belongs(placed, Home(k, B), p, B)
          /\ p <= q
          /\ \A j \in Slots(B) : p <= j /\ j < q => placed[j] # Free
      BY <2>2, <2>3, <2>4, <3>3, <3>4, EmplacePlace
    <3>6. ASSUME NEW j \in Slots(B)
          PROVE  u[j] = IF j = p THEN k ELSE IF p < j /\ j <= q THEN placed[j - 1] ELSE placed[j]
      <4>1. Distance(p, j, B) <= Distance(p, q, B) <=> p <= j /\ j <= q
        BY <2>4, <3>5 DEF Distance, Slots
      <4>2. p < j => Advance(j, B - 1, B) = j - 1
        BY <2>4 DEF Advance, Slots
      <4>3. j # p => (p < j /\ j <= q <=> p <= j /\ j <= q)
        BY <2>4 DEF Slots
      <4> QED  BY <2>7, <4>1, <4>2, <4>3 DEF ShiftUp
    <3> QED  BY <2>2, <2>4, <3>4, <3>5, <3>6, PutKeepsOrder
  <2> QED  BY <1>2, <2>6, <2>8 DEF OrderlyPlan
<1> QED  BY <1>4, <1>5, <1>6

LEMMA PlanOrdered ==
  ASSUME NEW A \in Nat, NEW B \in Nat \ {0}, NEW ks \in KeyTables(A), Unrepeated(ks, A)
  PROVE  OrderlyPlan(ks, Plan(ks, A, B), B)
<1>1. PICK after : PlansOf(after, ks, A, B)
  BY PlanRounds
<1>2. /\ after[0] = EmptyPlan(A, B) /\ after[A] = Plan(ks, A, B)
      /\ \A m \in 1 .. A : after[m] = PlaceOne(ks, B, after[m - 1], m - 1)
      /\ \A m \in 0 .. A : Sound(ks, m, after[m], A, B)
  BY <1>1 DEF PlansOf
<1> DEFINE P == {m \in 0 .. A : OrderlyPlan(ks, after[m], B)}
<1>3. 0 \in P
  <2>1. \A j \in Slots(B) : KeysPlaced(ks, EmptyPlan(A, B), B)[j] = Free
    BY DEF KeysPlaced, EmptyPlan
  <2> QED  BY <1>2, <2>1 DEF OrderlyPlan, Ordered, Reachable, Sorted, Unique
<1>4. ASSUME NEW m \in 1 .. A, m - 1 \in P PROVE m \in P
  <2>1. PICK o, plan : o = m - 1 /\ plan = after[m - 1]
    OBVIOUS
  <2>2. o \in Slots(A) /\ Sound(ks, o, plan, A, B) /\ OrderlyPlan(ks, plan, B)
    BY <1>2, <1>4, <2>1 DEF Slots
  <2>3. OrderlyPlan(ks, PlaceOne(ks, B, plan, o), B)
    BY <2>2, PlaceOneOrders
  <2> QED  BY <1>2, <2>1, <2>3
<1>5. A \in P
  <2> HIDE DEF P
  <2>1. A \in 0 .. A
    OBVIOUS
  <2> QED  BY <1>3, <1>4, <2>1, UpTo
<1> QED  BY <1>2, <1>5

(* The table is brought to B slots as planned.                             *)
RehashedTo(B, plan) ==
  /\ plan = PlanTo(B)
  /\ M_buckets' = B
  /\ ret' = NoCall
  /\ B = 0 => TakenIn(M_file, M_buckets) = {}
  /\ B # 0 => /\ Unrepeated(keys, M_buckets) /\ ~plan.loops
              /\ {plan.second[j] : j \in Slots(B)} \ {Free} = TakenIn(M_file, M_buckets)
              /\ M_file' = Planned(M_file, plan, B)

(* Where no chain closes, the file holds what the plan says.               *)
LEMMA RehashPlanned ==
  ASSUME IInv, UniqueKeys, NoChainCloses, NEW n \in Requests, rehash(n), ~UNCHANGED table
  PROVE  \E B \in Nat : RehashedTo(B, PlanTo(B))
<1>1. PICK A, B, t, plan : A = M_buckets /\ B = RehashSize(n) /\ t = M_file /\ plan = PlanTo(B)
  OBVIOUS
<1>2. A \in Nat /\ B \in Nat /\ t \in Tables(A)
  BY <1>1, RehashSizeType DEF IInv, TableOK
<1>3. \/ UNCHANGED table
      \/ /\ ~Unmapped(B) /\ ~plan.loops
         /\ M_file' = Moved(t, plan, A, B)
         /\ M_buckets' = B /\ ret' = NoCall
  BY <1>1, Zenon DEF rehash, RehashTo, RehashSize, NoRehash, Traps, Loops
<1>4. /\ ~Unmapped(B) /\ ~plan.loops
      /\ M_file' = Moved(t, plan, A, B)
      /\ M_buckets' = B /\ ret' = NoCall
  BY <1>3
<1>5. B = 0 => TakenIn(t, A) = {}
  BY <1>1, <1>2, <1>4, KeysOfType DEF Unmapped, Occupied, keys
<1>6. ASSUME B # 0
      PROVE  /\ Unrepeated(keys, A)
             /\ {plan.second[j] : j \in Slots(B)} \ {Free} = TakenIn(t, A)
             /\ M_file' = Planned(t, plan, B)
  <2>1. /\ keys \in KeyTables(A)
        /\ \A i \in Slots(A) : keys[i] = Free <=> t[i] = Free
        /\ \A i \in Slots(A) : t[i] # Free => keys[i] = t[i].key
        /\ Taken(keys, A) = TakenIn(t, A)
    BY <1>1, <1>2, KeysOfType DEF keys
  <2>2. Unrepeated(keys, A)
    BY <1>1, <2>1 DEF UniqueKeys, Occupied, Taken, Unrepeated
  <2>3. PICK V : V = Element \cup {Free}
    OBVIOUS
  <2>4. t \in [Slots(A) -> V] /\ Free \in V
    BY <1>2, <2>3 DEF Tables
  <2>5. plan = Plan(keys, A, B) /\ ~HasCycle(plan)
    BY <1>1, <1>6 DEF NoChainCloses, PlanTo
  <2>6. /\ {plan.second[j] : j \in Slots(B)} \ {Free} = Taken(keys, A)
        /\ HasCycle(plan) \/ Moved(t, plan, A, B) = Planned(t, plan, B)
    BY <1>2, <1>4, <1>6, <2>1, <2>2, <2>4, <2>5, PlanFollowed
  <2> QED  BY <1>4, <2>1, <2>2, <2>5, <2>6
<1> QED  BY <1>1, <1>2, <1>4, <1>5, <1>6 DEF RehashedTo

(* The elements are the same then.                                         *)
LEMMA RehashElements ==
  ASSUME IInv, UniqueKeys, NoChainCloses, NEW n \in Requests, rehash(n)
  PROVE  OthersThan(Free, M_file', M_buckets') = OthersThan(Free, M_file, M_buckets)
<1>1. CASE UNCHANGED table
  BY <1>1 DEF table, OthersThan
<1>2. CASE ~UNCHANGED table
  <2>0. PICK B \in Nat : RehashedTo(B, PlanTo(B))
    BY <1>2, RehashPlanned
  <2>1. PICK plan : /\ M_buckets' = B
                    /\ B = 0 => TakenIn(M_file, M_buckets) = {}
                    /\ B # 0 => /\ {plan.second[j] : j \in Slots(B)} \ {Free} = TakenIn(M_file, M_buckets)
                                /\ M_file' = Planned(M_file, plan, B)
    BY <2>0 DEF RehashedTo
  <2>2. M_buckets \in Nat /\ M_file \in Tables(M_buckets)
    BY DEF IInv, TableOK
  <2>3. \A i \in TakenIn(M_file, M_buckets) : M_file[i] # Free /\ M_file[i].key # Free /\ i # Free
    BY <2>2, FreeAssumption, NoSlotAssumption DEF TakenIn, Tables, Element, Slots
  <2>4. CASE B = 0
    <3>1. Slots(B) = {} /\ TakenIn(M_file, M_buckets) = {}
      BY <2>1, <2>4 DEF Slots
    <3> QED  BY <2>1, <3>1 DEF OthersThan, TakenIn
  <2>5. CASE B # 0
    <3>1. \A j \in Slots(B) : M_file'[j] = IF plan.second[j] = Free THEN Free ELSE M_file[plan.second[j]]
      BY <2>1, <2>5 DEF Planned
    <3>2. ASSUME NEW j \in Slots(B), M_file'[j] # Free
          PROVE  \E i \in TakenIn(M_file, M_buckets) : M_file'[j] = M_file[i]
      BY <2>1, <2>5, <3>1, <3>2
    <3>3. ASSUME NEW i \in TakenIn(M_file, M_buckets)
          PROVE  \E j \in Slots(B) : M_file'[j] = M_file[i]
      BY <2>1, <2>3, <2>5, <3>1
    <3>4. OthersThan(Free, M_file, M_buckets) = {M_file[i] : i \in TakenIn(M_file, M_buckets)}
      BY <2>3 DEF OthersThan, TakenIn
    <3>5. OthersThan(Free, M_file', B) \subseteq {M_file[i] : i \in TakenIn(M_file, M_buckets)}
      BY <3>2 DEF OthersThan
    <3>6. {M_file[i] : i \in TakenIn(M_file, M_buckets)} \subseteq OthersThan(Free, M_file', B)
      BY <2>3, <3>3 DEF OthersThan
    <3> QED  BY <2>1, <3>4, <3>5, <3>6
  <2> QED  BY <2>4, <2>5
<1> QED  BY <1>1, <1>2

(* "Check to see when elements are moved around that they still exist": a  *)
(* rehash keeps the set of elements, whatever its size and from wherever   *)
(* the moves start, while keys are distinct and no chain closes; the run   *)
(* map_rehash_cycle shows a chain that closes.                             *)
THEOREM RehashKeepsAll ==
  RehashSpec /\ [](UniqueKeys /\ NoChainCloses) => RehashKeepsElements
<1>1. IInv /\ [RehashNext]_vars => IInv'
  BY Invariance, RehashKeeps DEF RehashNext
<1>2. IInv /\ UniqueKeys /\ NoChainCloses /\ [RehashNext]_vars =>
        [(\E n \in Requests : rehash(n)) =>
           OthersThan(Free, M_file', M_buckets') = OthersThan(Free, M_file, M_buckets)]_vars
  BY RehashElements
<1> QED  BY <1>1, <1>2, InvariantInit, PTL DEF RehashSpec, RehashKeepsElements

LEMMA RehashOrders ==
  ASSUME IInv, UniqueKeys, NoChainCloses, TableOrdered, NEW n \in Requests, rehash(n), LastSlotFree'
  PROVE  TableOrdered'
<1>1. CASE UNCHANGED table
  BY <1>1 DEF table, TableOrdered, keys
<1>2. CASE ~UNCHANGED table
  <2>0. PICK B \in Nat : RehashedTo(B, PlanTo(B))
    BY <1>2, RehashPlanned
  <2>1. PICK plan : /\ plan = PlanTo(B) /\ M_buckets' = B
                    /\ B # 0 => /\ Unrepeated(keys, M_buckets) /\ ~plan.loops
                                /\ {plan.second[j] : j \in Slots(B)} \ {Free} = TakenIn(M_file, M_buckets)
                                /\ M_file' = Planned(M_file, plan, B)
    BY <2>0 DEF RehashedTo
  <2>2. CASE B = 0
    <3>1. Slots(M_buckets') = {}
      BY <2>1, <2>2 DEF Slots
    <3>2. Ordered(KeysOf(M_file', M_buckets'), M_buckets')
      BY <3>1, EmptyOrdered
    <3> QED  BY <3>2 DEF TableOrdered, keys
  <2>3. CASE B # 0
    <3>1. M_buckets \in Nat /\ M_file \in Tables(M_buckets) /\ keys = KeysOf(M_file, M_buckets)
      BY DEF IInv, TableOK, keys
    <3>2. OrderlyPlan(keys, plan, B)
      BY <2>1, <2>3, <3>1, KeysOfType, PlanOrdered DEF PlanTo
    <3>3. KeysOf(M_file', B) = KeysPlaced(keys, plan, B)
      <4>1. ASSUME NEW j \in Slots(B) PROVE KeysOf(M_file', B)[j] = KeysPlaced(keys, plan, B)[j]
        <5>1. M_file'[j] = IF plan.second[j] = Free THEN Free ELSE M_file[plan.second[j]]
          BY <2>1, <2>3 DEF Planned
        <5>2. plan.second[j] # Free => plan.second[j] \in Slots(M_buckets)
          BY <2>1, <2>3 DEF TakenIn
        <5> QED  BY <3>1, <5>1, <5>2 DEF KeysOf, KeysPlaced
      <4> QED  BY <4>1 DEF KeysOf, KeysPlaced
    <3>4. KeysPlaced(keys, plan, B)[B - 1] = Free
      <4>1. M_file'[B - 1] = Free /\ B - 1 \in Slots(B)
        BY <2>1, <2>3 DEF LastSlotFree, Slots
      <4>2. KeysOf(M_file', B)[B - 1] = Free
        BY <4>1 DEF KeysOf
      <4> QED  BY <3>3, <4>2
    <3> QED  BY <2>1, <2>3, <3>2, <3>3, <3>4 DEF OrderlyPlan, TableOrdered, keys
  <2> QED  BY <2>2, <2>3
<1> QED  BY <1>1, <1>2

-----------------------------------------------------------------------------
(* The lives of a file in which every call is completed and the file is    *)
(* reopened with the number of slots it has; without the destructors of    *)
(* moved-from maps, and with them.                                         *)
RegularNext ==
  \/ Call \/ Wiping \/ Close \/ Kill \/ MoveConstruct
  \/ \E n \in Requests : Opening(n) /\ (ret'.ok => M_buckets' = M_buckets)

CompleteNext == RegularNext \/ GrowUnlinked \/ DestroyMovedFrom

CompleteSpec == FileInit /\ [][CompleteNext]_fileVars

LEMMA CompleteIsFile == CompleteNext => FileNext
BY DEF CompleteNext, RegularNext, FileNext

LEMMA OrderedUnique ==
  ASSUME FileIInv, TableOrdered
  PROVE  UniqueKeys /\ Lookup
<1>1. M_buckets \in Nat /\ M_file \in Tables(M_buckets)
  BY DEF FileIInv, FileTypeOK, TypeOK, Tables
<1>2. UniqueKeys
  BY <1>1, KeysOfType DEF TableOrdered, Ordered, Unique, UniqueKeys, Occupied, Taken, keys
<1> QED  BY <1>1, <1>2, OrderFinds

(* A reopening with the same number of slots finds what was left.          *)
LEMMA ReopenSame ==
  ASSUME FileIInv, NEW n, Opening(n), ret'.ok => M_buckets' = M_buckets
  PROVE  \/ UNCHANGED <<M_file, M_buckets>> /\ ret' = [NoCall EXCEPT !.ok = TRUE]
         \/ (\A i \in Slots(M_buckets') : M_file'[i] = Free) /\ ret' = NoCall
<1>1. M_file \in Tables(M_buckets)
  BY DEF FileIInv, FileTypeOK, TypeOK, Tables
<1>2. CASE Reopen(n)
  <2>1. PICK B : B = next_larger(DefaultChoices, n)
    OBVIOUS
  <2>2. M_buckets' = B /\ M_file' = Truncated(M_file, B) /\ ret' = [NoCall EXCEPT !.ok = TRUE]
    BY <1>2, <2>1, Zenon DEF Reopen, Opens
  <2>3. ret'.ok
    BY <2>2 DEF NoCall
  <2>4. Truncated(M_file, M_buckets) = M_file
    BY <1>1 DEF Truncated, Tables
  <2> QED  BY <2>2, <2>3, <2>4
<1>3. CASE \E choices \in ChoiceSets : OpenEmpty(n, choices)
  <2>1. PICK B : M_buckets' = B /\ M_file' = [i \in Slots(B) |-> Free] /\ ret' = NoCall
    BY <1>3, Zenon DEF OpenEmpty, Opens
  <2> QED  BY <2>1
<1> QED  BY <1>2, <1>3 DEF Opening

LEMMA OrderKept ==
  ASSUME FileIInv, opened => Exact /\ LastSlotFree /\ NoChainCloses, opened' => LastSlotFree',
         TableOrdered, [CompleteNext]_fileVars
  PROVE  TableOrdered'
<1>1. ASSUME UNCHANGED <<M_file, M_buckets>> PROVE TableOrdered'
  BY <1>1 DEF TableOrdered, keys
<1>2. ASSUME \A i \in Slots(M_buckets') : M_file'[i] = Free PROVE TableOrdered'
  BY <1>2, EmptyOrdered DEF TableOrdered, keys
<1>3. CASE Call
  <2>1. IInv /\ Exact /\ UniqueKeys /\ NoChainCloses /\ LastSlotFree /\ LastSlotFree'
    BY <1>3, OpenIInv, OrderedUnique DEF Call, life
  <2>2. Next => TableOrdered'
    BY <2>1, OrderInvariance
  <2>3. ASSUME NEW n \in Requests, rehash(n) PROVE TableOrdered'
    BY <2>1, <2>3, RehashOrders
  <2> QED  BY <1>3, <2>2, <2>3 DEF Call, RehashNext
<1>4. CASE UNCHANGED fileVars \/ Wiping \/ GrowUnlinked \/ MoveConstruct
  <2>1. UNCHANGED <<M_file, M_buckets>>
    BY <1>4 DEF fileVars, vars, table, Wiping, destruct_is_wipe, GrowUnlinked, Traps, MoveConstruct
  <2> QED  BY <1>1, <2>1
<1>5. CASE Close \/ Kill \/ DestroyMovedFrom
  <2>1. UNCHANGED <<M_file, M_buckets>> \/ (M_file' = NoSlots /\ M_buckets' = 0)
    BY <1>5 DEF Close, Kill, Leaves, DestroyMovedFrom
  <2>2. \A i \in Slots(0) : NoSlots[i] = Free
    BY DEF NoSlots
  <2> QED  BY <1>1, <1>2, <2>1, <2>2
<1>6. ASSUME NEW n \in Requests, Opening(n), ret'.ok => M_buckets' = M_buckets
      PROVE  TableOrdered'
  BY <1>1, <1>2, <1>6, ReopenSame
<1> QED  BY <1>3, <1>4, <1>5, <1>6, Zenon DEF CompleteNext, RegularNext

(* Lookup over rehashes and the lives of the file, while the last slot is  *)
(* free and no chain of a rehash closes: find leads to every element of    *)
(* the file.  A rehash lays all elements out anew in the order find        *)
(* expects, whatever the sizes and wherever the old slots were.            *)
THEOREM FileLookupCorrect ==
  CompleteSpec /\ [](opened => LastSlotFree /\ NoChainCloses) => []Lookup
<1>1. FileInit => FileIInv /\ (opened => Exact) /\ TableOrdered
  BY FileInitially, InvariantInit, InitOrdered DEF FileInit
<1>2. FileIInv /\ [CompleteNext]_fileVars => FileIInv'
  BY FileInvariance, CompleteIsFile
<1>3. FileIInv /\ (opened => Exact) /\ TableOrdered /\ (opened => LastSlotFree /\ NoChainCloses)
        /\ [CompleteNext]_fileVars => (opened => Exact)'
  BY ExactKept, CompleteIsFile, OrderedUnique
<1>4. FileIInv /\ (opened => Exact) /\ TableOrdered /\ (opened => LastSlotFree /\ NoChainCloses)
        /\ (opened => LastSlotFree /\ NoChainCloses)' /\ [CompleteNext]_fileVars => TableOrdered'
  BY OrderKept
<1>5. FileIInv /\ TableOrdered => Lookup
  BY OrderedUnique
<1> QED  BY <1>1, <1>2, <1>3, <1>4, <1>5, PTL DEF CompleteSpec

-----------------------------------------------------------------------------
(* The lives without the destructors of moved-from maps are those of a     *)
(* dictionary that outlives its object.                                    *)

RegularSpec == FileInit /\ [][RegularNext]_fileVars

DurableIInv ==
  /\ FileIInv /\ (opened => Exact)
  /\ TableOrdered
  /\ linked /\ (~opened => ~M_delete)

(* The answers and contents are those of MapIsDictionary.                  *)
LEMMA CallIsDurable ==
  ASSUME [Dict!Next]_(Dict!vars), opened, UNCHANGED <<opened, M_delete>>
  PROVE  [Durable!DurableNext]_(Durable!durableVars)
<1>1. CASE UNCHANGED Dict!vars
  <2>1. UNCHANGED Durable!vars
    BY <1>1, Zenon DEF Dict!vars, Durable!vars
  <2> QED  BY <2>1, Zenon DEF Durable!durableVars
<1>2. CASE Dict!Next
  <2>1. Durable!Next
    BY <1>2, Zenon DEF Dict!Next, Durable!Next, Dict!Emplace, Durable!Emplace, Dict!InsertOrAssign,
         Durable!InsertOrAssign, Dict!Subscript, Durable!Subscript, Dict!Find, Durable!Find,
         Dict!Erase, Durable!Erase, Dict!Clear, Durable!Clear, Dict!Reorganise, Durable!Reorganise,
         Dict!NoAnswer, Durable!NoAnswer, Dict!Present, Durable!Present
  <2>2. Durable!Call
    BY <2>1, Zenon DEF Durable!Call
  <2> QED  BY <2>2, Zenon DEF Durable!DurableNext
<1> QED  BY <1>1, <1>2

LEMMA QuietIsDurable ==
  ASSUME ret' = NoCall, Contents' = Contents
  PROVE  Durable!Reorganise
<1>1. Dict!Reorganise
  BY IsQuiet
<1> QED  BY <1>1, Zenon DEF Dict!Reorganise, Durable!Reorganise, Dict!NoAnswer, Durable!NoAnswer

LEMMA EmptyIsDurable ==
  ASSUME ret' = NoCall, \A i \in Slots(M_buckets') : M_file'[i] = Free
  PROVE  Durable!Clear
<1>1. \A k \in Key : Contents'[k] = None
  BY ValueOfNone, ContentsValueNext
<1>2. Contents' = [k \in Key |-> None]
  BY <1>1, ContentsValueNext
<1>3. Told' = [ok |-> FALSE, val |-> None]
  BY DEF Told, NoCall
<1> QED  BY <1>2, <1>3, Zenon DEF Durable!Clear, Durable!NoAnswer, Told

(* A rehash is a call that only reorganises.                               *)
LEMMA RehashIsQuiet ==
  ASSUME IInv, UniqueKeys, NoChainCloses, InOrder, InOrder', NEW n \in Requests, rehash(n)
  PROVE  [Dict!Next]_(Dict!vars)
<1>1. CASE UNCHANGED <<table, ret>>
  BY <1>1, IsStutter
<1>2. CASE ret' = NoCall
  <2>1. OthersThan(Free, M_file', M_buckets') = OthersThan(Free, M_file, M_buckets)
    BY RehashElements
  <2>2. ASSUME NEW o \in Key PROVE Contents'[o] = Contents[o]
    <3>1. o # Free
      BY FreeAssumption
    <3>2. ValueIn(o, M_file', M_buckets') = ValueIn(o, M_file, M_buckets)
      BY <2>1, <3>1, OthersValues DEF InOrder, TableOK, keys
    <3> QED  BY <3>2, ContentsValue, ContentsValueNext
  <2>3. Contents' = Contents
    BY <2>2, ContentsValue, ContentsValueNext
  <2> QED  BY <1>2, <2>3, IsQuiet, Zenon DEF Dict!Next
<1>3. UNCHANGED <<table, ret>> \/ ret' = NoCall
  BY Zenon DEF rehash, NoRehash, Traps, Loops, RehashTo
<1> QED  BY <1>1, <1>2, <1>3

LEMMA StepIsDurable ==
  ASSUME DurableIInv, opened => LastSlotFree /\ NoChainCloses,
         FileIInv', TableOrdered', [RegularNext]_fileVars
  PROVE  [Durable!DurableNext]_(Durable!durableVars) /\ linked' /\ (~opened' => ~M_delete')
<1>1. ASSUME UNCHANGED <<M_file, M_buckets>>, ret' = NoCall
      PROVE  Durable!Reorganise
  BY <1>1, ContentsSame, QuietIsDurable
<1>2. CASE UNCHANGED fileVars
  <2>1. UNCHANGED Dict!vars /\ UNCHANGED <<opened, M_delete, linked>>
    BY <1>2, IsStutter DEF fileVars, vars, life, table
  <2>2. UNCHANGED Durable!durableVars
    BY <2>1, Zenon DEF Dict!vars, Durable!vars, Durable!durableVars
  <2> QED  BY <2>1, <2>2 DEF DurableIInv
<1>3. CASE Call
  <2>1. opened /\ IInv /\ Exact /\ TableOrdered /\ UniqueKeys /\ LastSlotFree /\ NoChainCloses
    BY <1>3, OpenIInv, OrderedUnique DEF Call, DurableIInv
  <2>2. UNCHANGED <<opened, M_delete, linked>>
    BY <1>3 DEF Call, life
  <2>3. InOrder
    BY <2>1, OrderUnique DEF IInv
  <2>4. InOrder'
    BY <2>1, <2>2 DEF FileIInv, TableOrdered, Ordered, InOrder
  <2>5. [Dict!Next]_(Dict!vars)
    <3>1. CASE Next
      BY <2>1, <2>4, <3>1, CallsAreDictionary DEF OrderlyCall
    <3>2. ASSUME NEW n \in Requests, rehash(n) PROVE [Dict!Next]_(Dict!vars)
      BY <2>1, <2>3, <2>4, <3>2, RehashIsQuiet
    <3> QED  BY <1>3, <3>1, <3>2 DEF Call, RehashNext
  <2> QED  BY <2>1, <2>2, <2>5, CallIsDurable DEF DurableIInv
<1>4. CASE Wiping \/ MoveConstruct
  <2>1. /\ UNCHANGED <<M_file, M_buckets>> /\ ret' = NoCall
        /\ opened /\ UNCHANGED <<opened, linked>>
    BY <1>4 DEF Wiping, destruct_is_wipe, MoveConstruct, Open, table
  <2>2. Wiping => Durable!SetWipe
    BY <1>1, <2>1, Zenon DEF Wiping, destruct_is_wipe, Durable!SetWipe
  <2>3. MoveConstruct => Durable!Call
    BY <1>1, <2>1, Zenon DEF MoveConstruct, Durable!Call, Durable!Next
  <2> QED  BY <1>4, <2>1, <2>2, <2>3, Zenon DEF Durable!DurableNext, DurableIInv
<1>5. CASE Close \/ Kill
  <2>1. ret' = NoCall /\ opened /\ ~opened' /\ ~M_delete' /\ linked'
    BY <1>5 DEF Close, Kill, Open, Leaves
  <2>2. CASE Close /\ M_delete
    <3>1. M_file' = NoSlots /\ M_buckets' = 0
      BY <2>2 DEF Close, Leaves
    <3>2. \A i \in Slots(0) : NoSlots[i] = Free
      BY DEF NoSlots
    <3>3. Durable!Clear
      BY <2>1, <3>1, <3>2, EmptyIsDurable
    <3>4. Durable!Close
      BY <2>1, <2>2, <3>3, Zenon DEF Durable!Close
    <3> QED  BY <2>1, <3>4, Zenon DEF Durable!DurableNext
  <2>3. CASE Kill \/ (Close /\ ~M_delete)
    <3>1. UNCHANGED <<M_file, M_buckets>>
      BY <2>3 DEF Close, Kill, Leaves, DurableIInv
    <3>2. Durable!Reorganise
      BY <1>1, <2>1, <3>1
    <3>3. Durable!Kill
      BY <2>1, <3>2, Zenon DEF Durable!Kill
    <3> QED  BY <2>1, <3>3, Zenon DEF Durable!DurableNext
  <2> QED  BY <1>5, <2>2, <2>3
<1>6. ASSUME NEW n \in Requests, Opening(n), ret'.ok => M_buckets' = M_buckets
      PROVE  [Durable!DurableNext]_(Durable!durableVars) /\ linked' /\ (~opened' => ~M_delete')
  <2>1. ~opened /\ opened' /\ ~M_delete' /\ linked'
    <3>1. \E B, t, choices, elem : Opens(t, B, choices, elem)
      BY <1>6, Zenon DEF Opening, Reopen, OpenEmpty
    <3> QED  BY <3>1 DEF Opens, DurableIInv
  <2>2. CASE UNCHANGED <<M_file, M_buckets>> /\ ret' = [NoCall EXCEPT !.ok = TRUE]
    <3>1. Contents' = Contents
      BY <2>2, ContentsSame
    <3>2. Told' = [ok |-> TRUE, val |-> None]
      BY <2>2 DEF Told, NoCall
    <3>3. Durable!Reopen
      BY <2>1, <3>1, <3>2, Zenon DEF Durable!Reopen, Told
    <3> QED  BY <2>1, <3>3, Zenon DEF Durable!DurableNext
  <2>3. CASE (\A i \in Slots(M_buckets') : M_file'[i] = Free) /\ ret' = NoCall
    <3>1. Durable!Clear
      BY <2>3, EmptyIsDurable
    <3>2. Durable!Open
      BY <2>1, <3>1, Zenon DEF Durable!Open
    <3> QED  BY <2>1, <3>2, Zenon DEF Durable!DurableNext
  <2> QED  BY <1>6, <2>2, <2>3, ReopenSame DEF DurableIInv
<1> QED  BY <1>2, <1>3, <1>4, <1>5, <1>6, Zenon DEF RegularNext

LEMMA EmptyDurable == FileInit => Durable!DurableInit
<1> SUFFICES ASSUME FileInit PROVE Durable!DurableInit
  OBVIOUS
<1>1. Dict!Init
  BY EmptyDictionary DEF FileInit
<1>2. Durable!Init
  BY <1>1, Zenon DEF Dict!Init, Durable!Init, Dict!NoAnswer, Durable!NoAnswer
<1>3. opened = TRUE /\ M_delete = FALSE
  BY DEF FileInit
<1> QED  BY <1>2, <1>3, Zenon DEF Durable!DurableInit

(* The map and its file are a dictionary that outlives the object and the  *)
(* program: every call answers from it, a rehash leaves it as it is, what  *)
(* was stored is there again after a destructor, a kill and a reopening    *)
(* with the same number of slots, and after destruct_is_wipe(true) the     *)
(* destructor, but no kill, empties it.                                    *)
THEOREM FileIsDurable ==
  RegularSpec /\ [](opened => LastSlotFree /\ NoChainCloses) => ImplementsDurable
<1>1. FileInit => DurableIInv
  BY FileInitially, InvariantInit, InitOrdered, Zenon DEF FileInit, DurableIInv
<1>2. DurableIInv /\ [RegularNext]_fileVars => FileIInv'
  BY FileInvariance, CompleteIsFile DEF CompleteNext, DurableIInv
<1>3. DurableIInv /\ (opened => LastSlotFree /\ NoChainCloses) /\ [RegularNext]_fileVars
        => (opened => Exact)'
  BY ExactKept, CompleteIsFile, OrderedUnique DEF CompleteNext, DurableIInv
<1>4. DurableIInv /\ (opened => LastSlotFree /\ NoChainCloses)
        /\ (opened => LastSlotFree /\ NoChainCloses)' /\ [RegularNext]_fileVars => TableOrdered'
  BY OrderKept DEF CompleteNext, DurableIInv
<1>5. DurableIInv /\ (opened => LastSlotFree /\ NoChainCloses) /\ FileIInv' /\ TableOrdered'
        /\ [RegularNext]_fileVars
        => [Durable!DurableNext]_(Durable!durableVars) /\ linked' /\ (~opened => ~M_delete)'
  BY StepIsDurable
<1>6. FileIInv' /\ (opened => Exact)' /\ TableOrdered' /\ linked' /\ (~opened => ~M_delete)'
        => DurableIInv'
  BY DEF DurableIInv
<1> QED  BY <1>1, <1>2, <1>3, <1>4, <1>5, <1>6, EmptyDurable, PTL
         DEF RegularSpec, ImplementsDurable, Durable!DurableSpec
=============================================================================
