----------------------------- MODULE QueueLock ------------------------------
(***************************************************************************)
(* queue_lock of queue_lock.h, in both of its builds, with a step for      *)
(* every access to M_head and M_tail.                                      *)
(*                                                                         *)
(* M_tail of the default build is no atomic.  The machines the code runs   *)
(* on load and store it whole, and the load of the atomic wanted_head      *)
(* keeps the compiler from moving it out of the loop, so what the race can *)
(* do is to separate the load and the store of ++M_tail.                   *)
(* Threads keep to the protocol: who is in calls unlock, and none calls    *)
(* lock twice.  M_backoff changes nothing the lock reads.                  *)
(***************************************************************************)
EXTENDS Integers, FiniteSets

CONSTANTS
  Thread,
  Span     \* the number of values of Base, an unsigned type

ASSUME ThreadAssumption ==
  IsFiniteSet(Thread) /\ Span \in Nat /\ Cardinality(Thread) <= Span /\ Span > 0

VARIABLES
  safe,         \* SAFE_BUILD is defined
  M_head, M_tail,
  pc,
  wanted_head,
  original,     \* of the safe build
  loaded        \* what ++M_tail of the default build has read

vars == <<safe, M_head, M_tail, pc, wanted_head, original, loaded>>

Base == 0 .. Span - 1

(* Mutant of Incremented: it does not wrap. *)
Wider(n) == n + 1

(* Mutant of Incremented: a signed type that saturates instead of wrapping. *)
Saturated(n) == IF n = Span - 1 THEN n ELSE n + 1

Incremented(n) == IF n = Span - 1 THEN 0 ELSE n + 1

Init ==
  /\ safe \in BOOLEAN
  /\ M_head = 0 /\ M_tail = 0
  /\ pc = [t \in Thread |-> "out"]
  /\ wanted_head = [t \in Thread |-> 0]
  /\ original = [t \in Thread |-> 0]
  /\ loaded = [t \in Thread |-> 0]

Goto(t, from, to) == pc[t] = from /\ pc' = [pc EXCEPT ![t] = to] /\ UNCHANGED safe

(* lock: M_head.fetch_add(1). *)
FetchAdd(t) ==
  /\ Goto(t, "out", "waiting")
  /\ M_head' = Incremented(M_head)
  /\ wanted_head' = [wanted_head EXCEPT ![t] = M_head]
  /\ original' = IF safe THEN [original EXCEPT ![t] = M_head] ELSE original
  /\ UNCHANGED <<M_tail, loaded>>

(* Mutant of Served: whoever is not ahead of the tail enters. *)
ServedLate(t) == wanted_head[t] <= M_tail

Served(t) == wanted_head[t] = M_tail

(* The loop condition, false at last. *)
Enter(t) ==
  /\ Goto(t, "waiting", "locked")
  /\ Served(t)
  /\ UNCHANGED <<M_head, M_tail, wanted_head, original, loaded>>

(* compare_exchange_strong leaves M_tail in wanted_head when it fails.  In  *)
(* the default build a failed comparison changes nothing.                  *)
FailExchange(t) ==
  /\ safe
  /\ Goto(t, "waiting", "failed")
  /\ ~Served(t)
  /\ wanted_head' = [wanted_head EXCEPT ![t] = M_tail]
  /\ UNCHANGED <<M_head, M_tail, original, loaded>>

(* Mutant of Retry: the loop compares with what it has read. *)
RetryStale(t) ==
  /\ Goto(t, "failed", "waiting")
  /\ UNCHANGED <<M_head, M_tail, wanted_head, original, loaded>>

Retry(t) ==
  /\ Goto(t, "failed", "waiting")
  /\ wanted_head' = [wanted_head EXCEPT ![t] = original[t]]
  /\ UNCHANGED <<M_head, M_tail, original, loaded>>

(* unlock: ++M_tail, one step if it is atomic. *)
Unlock(t) ==
  /\ safe
  /\ Goto(t, "locked", "out")
  /\ M_tail' = Incremented(M_tail)
  /\ UNCHANGED <<M_head, wanted_head, original, loaded>>

LoadTail(t) ==
  /\ ~safe
  /\ Goto(t, "locked", "unlocking")
  /\ loaded' = [loaded EXCEPT ![t] = M_tail]
  /\ UNCHANGED <<M_head, M_tail, wanted_head, original>>

StoreTail(t) ==
  /\ Goto(t, "unlocking", "out")
  /\ M_tail' = Incremented(loaded[t])
  /\ UNCHANGED <<M_head, wanted_head, original, loaded>>

Step(t) == Enter(t) \/ FailExchange(t) \/ Retry(t) \/ Unlock(t) \/ LoadTail(t) \/ StoreTail(t)

Next == \E t \in Thread : FetchAdd(t) \/ Step(t)

Spec == Init /\ [][Next]_vars

(* Threads are scheduled, and owners unlock in the end; nobody has to ask. *)
FairSpec == Spec /\ \A t \in Thread : WF_vars(Step(t))
-----------------------------------------------------------------------------
(* Properties. *)

TypeOK ==
  /\ safe \in BOOLEAN
  /\ M_head \in Base /\ M_tail \in Base
  /\ pc \in [Thread -> {"out", "waiting", "failed", "locked", "unlocking"}]
  /\ wanted_head \in [Thread -> Base]
  /\ original \in [Thread -> Base]
  /\ loaded \in [Thread -> Base]

Inside(t) == pc[t] \in {"locked", "unlocking"}

(* Two threads are never in the lock at once, however often Base wraps     *)
(* around and though the M_tail they compare with is no atomic.            *)
MutualExclusion == \A t, u \in Thread : Inside(t) /\ Inside(u) => t = u

(* The place of a ticket in the queue whose first is M_tail. *)
Place(n) == IF n >= M_tail THEN n - M_tail ELSE n - M_tail + Span

Ticket(t) == IF safe THEN original[t] ELSE wanted_head[t]

Active == {t \in Thread : pc[t] # "out"}

(* queue_lock is a FairLock: the queue is the tickets from M_tail on, and  *)
(* it is kept through every wrap of Base.                                  *)
Fair == INSTANCE FairLock WITH
  state <- [t \in Thread |-> CASE pc[t] = "out"                   -> "out"
                               [] pc[t] \in {"waiting", "failed"} -> "waiting"
                               [] OTHER                           -> "holding"],
  ahead <- [t \in Thread |->
              {u \in Active : t \in Active /\ Place(Ticket(u)) < Place(Ticket(t))}]

ImplementsFairLock == Fair!Spec

(* With the scheduling of FairSpec the lock is as fair as FairLock, which  *)
(* the wait of a thread shows: nobody who asks is left out for ever.       *)
NobodyStarves == \A t \in Thread : pc[t] = "waiting" ~> pc[t] = "locked"
=============================================================================
