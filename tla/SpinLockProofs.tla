--------------------------- MODULE SpinLockProofs ---------------------------
(***************************************************************************)
(* Proofs about SpinLock for any number of threads and any depth up to     *)
(* what M_recurse can count.  But for the types they are for machines      *)
(* whose compare_exchange_weak fails only when it should: with spurious    *)
(* failures the lock may be kept by who has released it, as TLC shows.     *)
(*                                                                         *)
(* M_free, M_holder and M_recurse change in steps that other threads       *)
(* interleave; the invariant says, for each step of the one thread that    *)
(* Has the lock, which of the three it has set.                            *)
(***************************************************************************)
EXTENDS SpinLock, TLAPS

Has(t) ==
  pc[t] \in {"acquired", "recurse", "count", "fewer", "clear", "free"} \/ depth[t] > 0

Taken(t) ==
  /\ ~M_free
  /\ pc[t] = "acquired" => M_holder = Nobody /\ M_recurse = 0 /\ depth[t] = 0
  /\ pc[t] = "clear"    => M_holder = t      /\ M_recurse = 0 /\ depth[t] = 1
  /\ pc[t] = "free"     => M_holder = Nobody /\ M_recurse = 0 /\ depth[t] = 1
  /\ pc[t] = "count"    => depth[t] > 0
  /\ pc[t] = "fewer"    => depth[t] > 1
  /\ pc[t] \notin {"acquired", "clear", "free"} => M_holder = t /\ M_recurse = depth[t]

Bounded(t) ==
  /\ depth[t] <= MaxDepth
  /\ pc[t] \in {"exchange", "compare", "acquired", "recurse"} => depth[t] < MaxDepth

IInv ==
  /\ TypeOK
  /\ M_free => M_holder = Nobody /\ M_recurse = 0
  /\ \A t \in Thread : (M_holder = t => Has(t)) /\ (Has(t) => Taken(t)) /\ Bounded(t)
  /\ \A t, u \in Thread : Has(t) /\ Has(u) => t = u

LEMMA InitIInv == Init => IInv
BY NobodyAssumption, DepthAssumption DEF Init, IInv, TypeOK, Has, Taken, Bounded

LEMMA Inductive ==
  ASSUME ~SpuriousFailures
  PROVE  Spec => []IInv
<1> USE NobodyAssumption, DepthAssumption DEF Goto
<1>1. ASSUME IInv, NEW t \in Thread, CallLock(t) \/ CallUnlock(t) PROVE IInv'
  BY <1>1 DEF CallLock, CallUnlock, shared, IInv, TypeOK, Has, Taken, Bounded
<1>2. ASSUME IInv, NEW t \in Thread, ExchangeFree(t) PROVE IInv'
  <2>1. CASE M_free' = FALSE /\ M_free /\ pc'[t] = "acquired"
    <3>1. \A u \in Thread : ~Has(u)
      BY <1>2, <2>1 DEF IInv, Taken
    <3>2. \A u \in Thread \ {t} : ~Has(u)'
      BY <1>2, <3>1 DEF ExchangeFree, IInv, TypeOK, Has
    <3>3. depth[t] = 0 /\ M_holder = Nobody /\ M_recurse = 0
      BY <1>2, <2>1, <3>1 DEF IInv, TypeOK, Has
    <3> QED  BY <1>2, <2>1, <3>2, <3>3 DEF ExchangeFree, IInv, TypeOK, Has, Taken, Bounded
  <2>2. CASE M_free' = M_free /\ pc'[t] = "compare" /\ pc' = [pc EXCEPT ![t] = "compare"]
    BY <1>2, <2>2 DEF ExchangeFree, IInv, TypeOK, Has, Taken, Bounded
  <2> QED  BY <1>2, <2>1, <2>2 DEF ExchangeFree, IInv, TypeOK
<1>3. ASSUME IInv, NEW t \in Thread, CompareHolder(t) PROVE IInv'
  BY <1>3 DEF CompareHolder, shared, IInv, TypeOK, Has, Taken, Bounded
<1>4. ASSUME IInv, NEW t \in Thread, SetHolder(t) PROVE IInv'
  BY <1>4 DEF SetHolder, IInv, TypeOK, Has, Taken, Bounded
<1>5. ASSUME IInv, NEW t \in Thread, Recurse(t) PROVE IInv'
  BY <1>5 DEF Recurse, Deeper, IInv, TypeOK, Has, Taken, Bounded
<1>6. ASSUME IInv, NEW t \in Thread, LoadFree(t) \/ OwnHolder(t) PROVE IInv'
  BY <1>6 DEF LoadFree, OwnHolder, shared, IInv, TypeOK, Has, Taken, Bounded
<1>7. ASSUME IInv, NEW t \in Thread, ExchangeCount(t) PROVE IInv'
  BY <1>7 DEF ExchangeCount, IInv, TypeOK, Has, Taken, Bounded
<1>8. ASSUME IInv, NEW t \in Thread, ClearHolder(t) PROVE IInv'
  BY <1>8 DEF ClearHolder, IInv, TypeOK, Has, Taken, Bounded
<1>9. ASSUME IInv, NEW t \in Thread, SetFree(t) PROVE IInv'
  <2>1. \A u \in Thread \ {t} : ~Has(u)
    BY <1>9 DEF SetFree, IInv, Has
  <2>2. \A u \in Thread : ~Has(u)'
    BY <1>9, <2>1 DEF SetFree, Shallower, IInv, TypeOK, Has, Taken
  <2>3. M_holder = Nobody /\ M_recurse = 0
    BY <1>9 DEF SetFree, IInv, Has, Taken
  <2> QED  BY <1>9, <2>2, <2>3 DEF SetFree, Shallower, IInv, TypeOK, Bounded
<1>10. ASSUME IInv, NEW t \in Thread, Fewer(t) PROVE IInv'
  <2>1. depth[t] > 1 /\ M_holder = t /\ M_recurse = depth[t] /\ Has(t) /\ ~M_free
    BY <1>10 DEF Fewer, IInv, Has, Taken
  <2>2. \A u \in Thread \ {t} : ~Has(u) /\ ~Has(u)'
    BY <1>10, <2>1 DEF Fewer, Shallower, IInv, TypeOK, Has
  <2>3. depth'[t] = depth[t] - 1 /\ M_recurse' = depth'[t] /\ pc'[t] = "out" /\ Has(t)'
    BY <1>10, <2>1 DEF Fewer, Shallower, IInv, TypeOK, Has
  <2> QED  BY <1>10, <2>1, <2>2, <2>3 DEF Fewer, Shallower, IInv, TypeOK, Taken, Bounded
<1>11. IInv /\ UNCHANGED vars => IInv'
  BY DEF vars, IInv, TypeOK, Has, Taken, Bounded
<1>12. IInv /\ [Next]_vars => IInv'
  BY <1>1, <1>2, <1>3, <1>4, <1>5, <1>6, <1>7, <1>8, <1>9, <1>10, <1>11 DEF Next, Lock, Unlock
<1> QED  BY InitIInv, <1>12, PTL DEF Spec

-----------------------------------------------------------------------------
(* M_recurse stays within its width and no thread leaves the code of lock  *)
(* and unlock, with spurious failures too, when M_recurse may wrap.        *)
THEOREM SpinTypeCorrect == Spec => []TypeOK
<1> USE NobodyAssumption, DepthAssumption DEF Goto, TypeOK
<1>1. Init => TypeOK
  BY DEF Init
<1>2. ASSUME TypeOK, NEW t \in Thread, CallLock(t) \/ CallUnlock(t) PROVE TypeOK'
  BY <1>2 DEF CallLock, CallUnlock, shared
<1>3. ASSUME TypeOK, NEW t \in Thread, ExchangeFree(t) \/ CompareHolder(t) PROVE TypeOK'
  BY <1>3 DEF ExchangeFree, CompareHolder, shared
<1>4. ASSUME TypeOK, NEW t \in Thread, SetHolder(t) PROVE TypeOK'
  BY <1>4 DEF SetHolder
<1>5. ASSUME TypeOK, NEW t \in Thread, Recurse(t) PROVE TypeOK'
  BY <1>5 DEF Recurse, Deeper
<1>6. ASSUME TypeOK, NEW t \in Thread, LoadFree(t) \/ OwnHolder(t) PROVE TypeOK'
  BY <1>6 DEF LoadFree, OwnHolder, shared
<1>7. ASSUME TypeOK, NEW t \in Thread, ExchangeCount(t) PROVE TypeOK'
  BY <1>7 DEF ExchangeCount
<1>8. ASSUME TypeOK, NEW t \in Thread, ClearHolder(t) PROVE TypeOK'
  BY <1>8 DEF ClearHolder
<1>9. ASSUME TypeOK, NEW t \in Thread, SetFree(t) PROVE TypeOK'
  BY <1>9 DEF SetFree, Shallower
<1>10. ASSUME TypeOK, NEW t \in Thread, Fewer(t) PROVE TypeOK'
  BY <1>10 DEF Fewer, Shallower
<1>11. TypeOK /\ UNCHANGED vars => TypeOK'
  BY DEF vars
<1>12. TypeOK /\ [Next]_vars => TypeOK'
  BY <1>2, <1>3, <1>4, <1>5, <1>6, <1>7, <1>8, <1>9, <1>10, <1>11 DEF Next, Lock, Unlock
<1> QED  BY <1>1, <1>12, PTL DEF Spec

(* No two threads have spin_lock at once, whatever strays into unlock.     *)
THEOREM SpinExclusion ==
  ASSUME ~SpuriousFailures
  PROVE  Spec => []MutualExclusion
<1>1. IInv => MutualExclusion  BY DEF IInv, MutualExclusion, Has
<1> QED  BY Inductive, <1>1, PTL

(* M_recurse is how often the owner has to unlock, and never wraps.        *)
THEOREM RecursionCorrect ==
  ASSUME ~SpuriousFailures
  PROVE  Spec => [](TypeOK /\ RecursionCounted)
<1>1. IInv => TypeOK /\ RecursionCounted
  BY NobodyAssumption DEF IInv, TypeOK, RecursionCounted, Has, Taken
<1> QED  BY Inductive, <1>1, PTL

(* A thread that has undone its calls keeps nobody out.                    *)
THEOREM Released ==
  ASSUME ~SpuriousFailures
  PROVE  Spec => []ReleasedWhenDone
<1>1. IInv => ReleasedWhenDone
  BY DEF IInv, TypeOK, ReleasedWhenDone, Has
<1> QED  BY Inductive, <1>1, PTL

(* Locking again never makes the owner wait.                               *)
THEOREM OwnerGetsIn ==
  ASSUME ~SpuriousFailures
  PROVE  Spec => NoSelfDeadlock
<1>1. ASSUME IInv, [Next]_vars, NEW t \in Thread, depth[t] > 0, pc[t] = "compare"
      PROVE  pc'[t] # "exchange"
  <2>1. M_holder = t
    BY <1>1 DEF IInv, Has, Taken
  <2>2. CASE UNCHANGED vars
    BY <1>1, <2>2 DEF vars
  <2>3. ASSUME NEW u \in Thread, CallLock(u) \/ Lock(u) \/ CallUnlock(u) \/ Unlock(u)
        PROVE  pc'[t] # "exchange"
    <3>1. CASE u = t
      BY <1>1, <2>1, <2>3, <3>1 DEF IInv, TypeOK, CallLock, Lock, CallUnlock, Unlock, ExchangeFree, CompareHolder,
         SetHolder, Recurse, LoadFree, OwnHolder, ExchangeCount, ClearHolder, SetFree, Fewer, Goto
    <3>2. CASE u # t
      BY <1>1, <2>3, <3>2 DEF IInv, TypeOK, CallLock, Lock, CallUnlock, Unlock, ExchangeFree, CompareHolder,
         SetHolder, Recurse, LoadFree, OwnHolder, ExchangeCount, ClearHolder, SetFree, Fewer, Goto
    <3> QED  BY <3>1, <3>2
  <2> QED  BY <1>1, <2>2, <2>3 DEF Next
<1>2. IInv /\ [Next]_vars =>
        [\A t \in Thread : depth[t] > 0 /\ pc[t] = "compare" => pc'[t] # "exchange"]_vars
  BY <1>1
<1> QED  BY Inductive, <1>2, PTL DEF Spec, NoSelfDeadlock
=============================================================================
