------------------------------ MODULE SpinLock ------------------------------
(***************************************************************************)
(* spin_lock of spin_lock.h, a recursive lock, with a step for every       *)
(* access to M_free, M_recurse and M_holder.  M_holder is no atomic: it is *)
(* loaded and stored whole on the machines the code runs on.               *)
(*                                                                         *)
(* A thread may call lock and unlock in any order: unlock does nothing for *)
(* a thread that is not in.  compare_exchange_weak may fail though it      *)
(* finds the value it wants, which SpuriousFailures allows or not: x86     *)
(* never does, ARM (backoff.h:11-39 supports both) does.                   *)
(***************************************************************************)
EXTENDS Integers, FiniteSets

CONSTANTS
  Thread,
  Nobody,            \* M_holder = 0
  SpuriousFailures,
  MaxRecurse,        \* the largest value of M_recurse, an unsigned type
  MaxDepth           \* bound: how often a thread calls lock without unlock

ASSUME NobodyAssumption   == Nobody \notin Thread
ASSUME SpuriousAssumption == SpuriousFailures \in BOOLEAN
ASSUME DepthAssumption    == MaxDepth \in Nat /\ MaxRecurse \in Nat /\ MaxDepth <= MaxRecurse

VARIABLES
  M_free, M_recurse, M_holder,
  pc,      \* the next access of each thread
  depth    \* of each thread: the calls of lock it has not undone

vars == <<M_free, M_recurse, M_holder, pc, depth>>

shared == <<M_free, M_recurse, M_holder>>

Init ==
  /\ M_free = TRUE /\ M_recurse = 0 /\ M_holder = Nobody
  /\ pc = [t \in Thread |-> "out"]
  /\ depth = [t \in Thread |-> 0]

Goto(t, from, to) == pc[t] = from /\ pc' = [pc EXCEPT ![t] = to]

Deeper(t) == depth' = [depth EXCEPT ![t] = depth[t] + 1]

(* unlock by a thread that has nothing to undo leaves its depth.           *)
Shallower(t) ==
  depth' = [depth EXCEPT ![t] = IF depth[t] > 0 THEN depth[t] - 1 ELSE 0]

-----------------------------------------------------------------------------
(* lock *)

CallLock(t) ==
  /\ depth[t] < MaxDepth
  /\ Goto(t, "out", "exchange")
  /\ UNCHANGED <<shared, depth>>

(* M_free.compare_exchange_weak(want, false) *)
ExchangeFree(t) ==
  /\ UNCHANGED <<M_recurse, M_holder, depth>>
  /\ \/ M_free /\ M_free' = FALSE /\ Goto(t, "exchange", "acquired")
     \/ (M_free => SpuriousFailures) /\ UNCHANGED M_free /\ Goto(t, "exchange", "compare")

(* Mutant of CompareHolder: any owner is taken for the caller. *)
CompareAnyHolder(t) ==
  /\ UNCHANGED <<shared, depth>>
  /\ \/ M_holder # Nobody /\ Goto(t, "compare", "recurse")
     \/ M_holder = Nobody /\ Goto(t, "compare", "exchange")

CompareHolder(t) ==
  /\ UNCHANGED <<shared, depth>>
  /\ \/ M_holder = t  /\ Goto(t, "compare", "recurse")
     \/ M_holder # t /\ Goto(t, "compare", "exchange")

(* Mutant of SetHolder: the owner is not written down. *)
SetNoHolder(t) == Goto(t, "acquired", "recurse") /\ UNCHANGED <<shared, depth>>

SetHolder(t) ==
  /\ Goto(t, "acquired", "recurse")
  /\ M_holder' = t
  /\ UNCHANGED <<M_free, M_recurse, depth>>

(* Mutant of Recurse: a level is counted twice. *)
RecurseTwice(t) ==
  /\ Goto(t, "recurse", "out")
  /\ M_recurse' = M_recurse + 2
  /\ Deeper(t)
  /\ UNCHANGED <<M_free, M_holder>>

(* M_recurse.fetch_add(1), at the end of both ways in. *)
Recurse(t) ==
  /\ Goto(t, "recurse", "out")
  /\ M_recurse' = IF M_recurse = MaxRecurse THEN 0 ELSE M_recurse + 1
  /\ Deeper(t)
  /\ UNCHANGED <<M_free, M_holder>>

-----------------------------------------------------------------------------
(* unlock *)

CallUnlock(t) == Goto(t, "out", "load") /\ UNCHANGED <<shared, depth>>

(* !M_free.load() *)
LoadFree(t) ==
  /\ UNCHANGED <<shared, depth>>
  /\ \/ ~M_free /\ Goto(t, "load", "own")
     \/ M_free  /\ Goto(t, "load", "out")

(* Mutant of OwnHolder: anyone may unlock. *)
OwnAnyHolder(t) ==
  /\ Goto(t, "own", "count")
  /\ UNCHANGED <<shared, depth>>

(* M_holder == pthread_self() *)
OwnHolder(t) ==
  /\ UNCHANGED <<shared, depth>>
  /\ \/ M_holder = t  /\ Goto(t, "own", "count")
     \/ M_holder # t /\ Goto(t, "own", "out")

(* Mutant of ExchangeCount: the outermost unlock is taken for a nested one. *)
ExchangeNever(t) ==
  /\ Goto(t, "count", "fewer")
  /\ UNCHANGED <<shared, depth>>

(* M_recurse.compare_exchange_weak(want, 0) with want = 1 *)
ExchangeCount(t) ==
  /\ UNCHANGED <<M_free, M_holder, depth>>
  /\ \/ M_recurse = 1 /\ M_recurse' = 0 /\ Goto(t, "count", "clear")
     \/ (M_recurse = 1 => SpuriousFailures) /\ UNCHANGED M_recurse /\ Goto(t, "count", "fewer")

(* Mutant of ClearHolder: freed before the holder is cleared. *)
FreeFirst(t) ==
  /\ Goto(t, "clear", "free")
  /\ M_free' = TRUE
  /\ UNCHANGED <<M_holder, M_recurse, depth>>

ClearHolder(t) ==
  /\ Goto(t, "clear", "free")
  /\ M_holder' = Nobody
  /\ UNCHANGED <<M_free, M_recurse, depth>>

SetFree(t) ==
  /\ Goto(t, "free", "out")
  /\ M_free' = TRUE
  /\ Shallower(t)
  /\ UNCHANGED <<M_recurse, M_holder>>

Fewer(t) ==
  /\ Goto(t, "fewer", "out")
  /\ M_recurse' = IF M_recurse = 0 THEN MaxRecurse ELSE M_recurse - 1
  /\ Shallower(t)
  /\ UNCHANGED <<M_free, M_holder>>

-----------------------------------------------------------------------------
Lock(t)   == ExchangeFree(t) \/ CompareHolder(t) \/ SetHolder(t) \/ Recurse(t)
Unlock(t) == LoadFree(t) \/ OwnHolder(t) \/ ExchangeCount(t) \/ ClearHolder(t) \/ SetFree(t) \/ Fewer(t)

Next == \E t \in Thread : CallLock(t) \/ Lock(t) \/ CallUnlock(t) \/ Unlock(t)

Spec == Init /\ [][Next]_vars

(* A thread that has begun a call is scheduled again. *)
FairSpec == Spec /\ \A t \in Thread : WF_vars(Lock(t)) /\ WF_vars(Unlock(t))
-----------------------------------------------------------------------------
(* Properties. *)

TypeOK ==
  /\ M_free \in BOOLEAN
  /\ M_recurse \in 0 .. MaxRecurse
  /\ M_holder \in Thread \cup {Nobody}
  /\ pc \in [Thread -> {"out", "exchange", "compare", "acquired", "recurse",
                        "load", "own", "count", "clear", "free", "fewer"}]
  /\ depth \in [Thread -> Nat]

(* Two threads never have the lock at once, though unlock may be called    *)
(* by anyone and reads the holder while another thread sets it.            *)
MutualExclusion == \A t, u \in Thread : depth[t] > 0 /\ depth[u] > 0 => t = u

(* M_recurse counts the calls the owner has still to undo: the owner has   *)
(* to unlock as often as it locked, and no stray unlock counts.            *)
RecursionCounted ==
  \A t \in Thread :
    /\ M_holder = t /\ pc[t] # "clear" => M_recurse = depth[t]
    /\ depth[t] > 0 => M_holder = t \/ pc[t] = "free"

(* The outermost unlock gives the lock away: "Before every variable        *)
(* increment, gain access to the lock and release afterwards"              *)
(* (tests_impl/locks/README.md:27).  A thread that has returned from all   *)
(* its calls and undone them does not keep others out.                     *)
ReleasedWhenDone == \A t \in Thread : pc[t] = "out" /\ depth[t] = 0 => M_holder # t

(* The owner gets in again without waiting for itself. *)
NoSelfDeadlock ==
  [][\A t \in Thread : depth[t] > 0 /\ pc[t] = "compare" => pc'[t] # "exchange"]_vars

(* While anyone waits, the lock is not left without an owner for ever.     *)
SomebodyEnters ==
  (\E t \in Thread : pc[t] \in {"exchange", "compare"}) ~> (\E t \in Thread : depth[t] > 0)
===============================================================================
