------------------------------ MODULE FairLock ------------------------------
(***************************************************************************)
(* What queue_lock promises: "any request to obtain the lock will be       *)
(* honored on a first come first serve basis" (queue_lock.h:28-29), with   *)
(* no promise on how long an owner keeps the lock.  A request is the       *)
(* drawing of a ticket.  That the lock is not "fully fair" (36-40) is taken *)
(* to be about threads that overtake one another before they have drawn;   *)
(* nothing is said of them here.                                           *)
(***************************************************************************)
CONSTANT Thread

VARIABLES
  state,   \* of each thread: "out", "waiting" or "holding"
  ahead    \* the threads that asked before it and have not released

vars == <<state, ahead>>

Init ==
  /\ state = [t \in Thread |-> "out"]
  /\ ahead = [t \in Thread |-> {}]

Request(t) ==
  /\ state[t] = "out"
  /\ state' = [state EXCEPT ![t] = "waiting"]
  /\ ahead' = [ahead EXCEPT ![t] = {u \in Thread : state[u] # "out"}]

Grant(t) ==
  /\ state[t] = "waiting" /\ ahead[t] = {}
  /\ state' = [state EXCEPT ![t] = "holding"]
  /\ UNCHANGED ahead

Release(t) ==
  /\ state[t] = "holding"
  /\ state' = [state EXCEPT ![t] = "out"]
  /\ ahead' = [u \in Thread |-> ahead[u] \ {t}]

Next == \E t \in Thread : Request(t) \/ Grant(t) \/ Release(t)

Spec == Init /\ [][Next]_vars

(* The lock grants what it can grant, and owners release it in the end. *)
Fairness == \A t \in Thread : WF_vars(Grant(t)) /\ WF_vars(Release(t))

FairSpec == Spec /\ Fairness
=============================================================================
