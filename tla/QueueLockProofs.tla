-------------------------- MODULE QueueLockProofs ---------------------------
(***************************************************************************)
(* Proofs about QueueLock, for any number of threads and any width of      *)
(* Base.  The tickets that are out are a window of Base that starts at     *)
(* M_tail and ends before M_head: every thread has a ticket of its own in  *)
(* it, and the one inside the lock has the first.  The window is never     *)
(* longer than Base, as there are no more threads than values.             *)
(***************************************************************************)
EXTENDS QueueLock, FiniteSetTheorems, TLAPS

Out == Cardinality(Active)

(* The ticket n places behind M_tail. *)
At(n) == IF M_tail + n >= Span THEN M_tail + n - Span ELSE M_tail + n

Window ==
  /\ M_head = At(Out)
  /\ \A t \in Active : Place(Ticket(t)) < Out
  /\ \A t, u \in Active : Ticket(t) = Ticket(u) => t = u

(* What the thread keeps for itself agrees with the ticket it drew. *)
Private ==
  \A t \in Thread :
    /\ pc[t] \in {"waiting", "locked", "unlocking"} => wanted_head[t] = Ticket(t)
    /\ pc[t] = "failed" => safe
    /\ Inside(t) => Ticket(t) = M_tail
    /\ pc[t] = "unlocking" => ~safe /\ loaded[t] = M_tail

IInv == TypeOK /\ Window /\ Private

(* The threads that hold a ticket are as many as Cardinality says. *)
LEMMA ActiveFinite ==
  /\ IsFiniteSet(Active) /\ Out \in Nat /\ Out <= Span
  /\ \A t \in Thread \ Active : Cardinality(Active \cup {t}) = Out + 1 /\ Out < Span
  /\ \A t \in Active : Cardinality(Active \ {t}) = Out - 1 /\ Out > 0
<1>1. IsFiniteSet(Thread) /\ Active \subseteq Thread
  BY ThreadAssumption DEF Active
<1>2. IsFiniteSet(Active) /\ Out <= Cardinality(Thread)
  BY <1>1, FS_Subset DEF Out
<1>3. Out \in Nat /\ Cardinality(Thread) \in Nat
  BY <1>1, <1>2, FS_CardinalityType DEF Out
<1>4. Out <= Span
  BY <1>2, <1>3, ThreadAssumption
<1>5. ASSUME NEW t \in Thread \ Active
      PROVE  Cardinality(Active \cup {t}) = Out + 1 /\ Out < Span
  <2>1. Cardinality(Active \cup {t}) = Out + 1
    BY <1>2, <1>5, FS_AddElement DEF Out
  <2>2. Cardinality(Active \cup {t}) <= Cardinality(Thread)
    BY <1>1, <1>5, FS_Subset
  <2> QED  BY <2>1, <2>2, <1>3, ThreadAssumption
<1>6. ASSUME NEW t \in Active
      PROVE  Cardinality(Active \ {t}) = Out - 1 /\ Out > 0
  <2>1. Cardinality(Active \ {t}) = Out - 1
    BY <1>2, <1>6, FS_RemoveElement DEF Out
  <2>2. Out # 0
    BY <1>2, <1>6, FS_EmptySet DEF Out
  <2> QED  BY <2>1, <2>2, <1>3
<1> QED  BY <1>2, <1>3, <1>4, <1>5, <1>6

LEMMA InitIInv == Init => IInv
<1> SUFFICES ASSUME Init PROVE IInv  OBVIOUS
<1> USE DEF Init
<1>1. TypeOK  BY ThreadAssumption DEF TypeOK, Base
<1>2. Active = {}  BY DEF Active
<1>3. Out = 0  BY <1>2, FS_EmptySet DEF Out
<1>4. Window  BY <1>2, <1>3, ThreadAssumption DEF Window, At
<1>5. Private  BY DEF Private, Ticket, Inside
<1> QED  BY <1>1, <1>4, <1>5 DEF IInv

(* Drawing a ticket lengthens the window by one at its end. *)
LEMMA FetchAddKeeps ==
  ASSUME IInv, NEW t \in Thread, FetchAdd(t)
  PROVE  /\ IInv'
         /\ Active' = Active \cup {t} /\ t \notin Active
         /\ Place(Ticket(t))' = Out
         /\ \A u \in Active : Place(Ticket(u))' = Place(Ticket(u))
<1> USE DEF FetchAdd, Goto
<1>1. TypeOK'
  BY ThreadAssumption DEF IInv, TypeOK, Base, Incremented
<1>2. t \notin Active /\ Active' = Active \cup {t}
  BY DEF IInv, TypeOK, Active
<1>3. Out \in Nat /\ Out < Span /\ Out' = Out + 1
  BY <1>2, ActiveFinite DEF Out
<1>4. \A u \in Active : Ticket(u)' = Ticket(u)
  BY <1>2 DEF IInv, TypeOK, Ticket, Active
<1>5. Ticket(t)' = M_head
  BY DEF IInv, TypeOK, Ticket
<1>6. M_head = At(Out) /\ M_tail' = M_tail /\ M_tail \in Base
  BY DEF IInv, Window, TypeOK
<1>7. Place(M_head) = Out
  BY <1>3, <1>6, ThreadAssumption DEF Place, At, Base
<1>8. Place(Ticket(t))' = Out
  BY <1>5, <1>6, <1>7 DEF Place
<1>9. \A u \in Active : Place(Ticket(u))' = Place(Ticket(u))
  BY <1>4, <1>6 DEF Place
<1>10. Window'
  <2>1. M_head' = At(Out)'
    BY <1>3, <1>6, ThreadAssumption DEF At, Base, Incremented
  <2>2. \A u \in Active : Place(Ticket(u)) < Out /\ Place(Ticket(u)) \in Int
    <3>1. \A u \in Active : Ticket(u) \in Base
      BY DEF IInv, TypeOK, Ticket, Active
    <3> QED  BY <3>1, <1>6, ThreadAssumption DEF IInv, Window, Place, Base
  <2>3. \A u \in Active' : Place(Ticket(u))' < Out'
    BY <1>2, <1>3, <1>8, <1>9, <2>2
  <2>4. \A u \in Active : Ticket(u) # M_head
    BY <1>3, <1>7, <2>2
  <2>5. \A u, w \in Active' : Ticket(u)' = Ticket(w)' => u = w
    BY <1>2, <1>4, <1>5, <2>4 DEF IInv, Window
  <2> QED  BY <2>1, <2>3, <2>5 DEF Window
<1>11. Private'
  <2> SUFFICES ASSUME NEW u \in Thread
               PROVE  /\ pc'[u] \in {"waiting", "locked", "unlocking"} => wanted_head'[u] = Ticket(u)'
                      /\ pc'[u] = "failed" => safe'
                      /\ Inside(u)' => Ticket(u)' = M_tail'
                      /\ pc'[u] = "unlocking" => ~safe' /\ loaded'[u] = M_tail'
    BY DEF Private
  <2>1. CASE u = t
    BY <2>1 DEF IInv, TypeOK, Inside, Ticket
  <2>2. CASE u # t
    BY <2>2 DEF IInv, TypeOK, Private, Inside, Ticket
  <2> QED  BY <2>1, <2>2
<1> QED  BY <1>1, <1>2, <1>8, <1>9, <1>10, <1>11 DEF IInv

(* Comparing with M_tail moves no ticket. *)
LEMMA ComparingKeeps ==
  ASSUME IInv, NEW t \in Thread, Enter(t) \/ FailExchange(t) \/ Retry(t) \/ LoadTail(t)
  PROVE  /\ IInv'
         /\ Active' = Active
         /\ \A u \in Active : Place(Ticket(u))' = Place(Ticket(u))
<1> USE DEF Enter, FailExchange, Retry, LoadTail, Goto
<1>1. TypeOK'
  BY DEF IInv, TypeOK
<1>2. Active' = Active
  BY DEF IInv, TypeOK, Active
<1>3. \A u \in Active : Ticket(u)' = Ticket(u)
  <2>1. ASSUME safe PROVE \A u \in Active : Ticket(u)' = Ticket(u)
    BY <2>1 DEF Ticket
  <2>2. ASSUME ~safe PROVE \A u \in Active : Ticket(u)' = Ticket(u)
    <3>1. pc[t] # "failed"
      BY <2>2 DEF IInv, Private
    <3> QED  BY <2>2, <3>1 DEF Ticket
  <2> QED  BY <2>1, <2>2
<1>4. UNCHANGED <<M_head, M_tail, safe>>
  OBVIOUS
<1>5. \A u \in Active : Place(Ticket(u))' = Place(Ticket(u))
  BY <1>3, <1>4 DEF Place
<1>6. Window'
  BY <1>2, <1>3, <1>4, <1>5 DEF IInv, Window, At, Out
<1>7. Private'
  <2> SUFFICES ASSUME NEW u \in Thread
               PROVE  /\ pc'[u] \in {"waiting", "locked", "unlocking"} => wanted_head'[u] = Ticket(u)'
                      /\ pc'[u] = "failed" => safe'
                      /\ Inside(u)' => Ticket(u)' = M_tail'
                      /\ pc'[u] = "unlocking" => ~safe' /\ loaded'[u] = M_tail'
    BY DEF Private
  <2>1. CASE Enter(t)
    BY <2>1 DEF IInv, TypeOK, Private, Inside, Ticket, Served
  <2>2. CASE FailExchange(t)
    BY <2>2 DEF IInv, TypeOK, Private, Inside, Ticket
  <2>3. CASE Retry(t)
    BY <2>3 DEF IInv, TypeOK, Private, Inside, Ticket
  <2>4. CASE LoadTail(t)
    BY <2>4 DEF IInv, TypeOK, Private, Inside, Ticket
  <2> QED  BY <2>1, <2>2, <2>3, <2>4
<1> QED  BY <1>1, <1>2, <1>5, <1>6, <1>7 DEF IInv

(* Unlocking shortens the window by one at its start. *)
LEMMA UnlockKeeps ==
  ASSUME IInv, NEW t \in Thread, Unlock(t) \/ StoreTail(t)
  PROVE  /\ IInv'
         /\ Active' = Active \ {t} /\ t \in Active
         /\ Place(Ticket(t)) = 0
         /\ \A u \in Active \ {t} : Place(Ticket(u)) > 0 /\ Place(Ticket(u))' = Place(Ticket(u)) - 1
<1> USE DEF Unlock, StoreTail, Goto
<1>1. Inside(t) /\ t \in Active /\ Active' = Active \ {t}
  BY DEF IInv, TypeOK, Inside, Active
<1>2. M_tail' = Incremented(M_tail) /\ M_tail \in Base
  BY DEF IInv, TypeOK, Private
<1>3. UNCHANGED <<M_head, safe, wanted_head, original, loaded>>
  OBVIOUS
<1>4. TypeOK'
  BY <1>2, <1>3, ThreadAssumption DEF IInv, TypeOK, Base, Incremented
<1>5. Out \in Nat /\ Out > 0 /\ Out <= Span /\ Out' = Out - 1
  BY <1>1, ActiveFinite DEF Out
<1>6. Ticket(t) = M_tail
  BY <1>1 DEF IInv, Private
<1>7. \A u \in Thread : Ticket(u)' = Ticket(u) /\ Ticket(u) \in Base
  BY <1>3 DEF IInv, TypeOK, Ticket
<1>8. Place(Ticket(t)) = 0
  BY <1>2, <1>6 DEF Place, Base
<1>9. \A u \in Active \ {t} : Ticket(u) # M_tail
  BY <1>1, <1>6 DEF IInv, Window
<1>10. ASSUME NEW u \in Active \ {t}
       PROVE  Place(Ticket(u)) > 0 /\ Place(Ticket(u))' = Place(Ticket(u)) - 1
              /\ Place(Ticket(u)) \in Int /\ Place(Ticket(u)) < Out
  <2>1. Ticket(u) \in Base /\ Ticket(u)' = Ticket(u) /\ Ticket(u) # M_tail
    BY <1>7, <1>9 DEF Active
  <2>2. Place(Ticket(u)) < Out
    BY DEF IInv, Window
  <2> QED  BY <1>2, <2>1, <2>2, ThreadAssumption DEF Place, Base, Incremented
<1>11. Window'
  <2>1. M_head' = At(Out)'
    <3>1. M_head = At(Out)  BY DEF IInv, Window
    <3> QED  BY <1>2, <1>3, <1>5, <3>1, ThreadAssumption DEF At, Base, Incremented
  <2>2. \A u \in Active' : Place(Ticket(u))' < Out'
    BY <1>1, <1>5, <1>10
  <2>3. \A u, w \in Active' : Ticket(u)' = Ticket(w)' => u = w
    BY <1>1, <1>7 DEF IInv, Window, Active
  <2> QED  BY <2>1, <2>2, <2>3 DEF Window
<1>12. \A u \in Thread \ {t} : ~Inside(u)
  BY <1>9 DEF IInv, Private, Inside, Active
<1>13. Private'
  <2> SUFFICES ASSUME NEW u \in Thread
               PROVE  /\ pc'[u] \in {"waiting", "locked", "unlocking"} => wanted_head'[u] = Ticket(u)'
                      /\ pc'[u] = "failed" => safe'
                      /\ Inside(u)' => Ticket(u)' = M_tail'
                      /\ pc'[u] = "unlocking" => ~safe' /\ loaded'[u] = M_tail'
    BY DEF Private
  <2>1. CASE u = t
    BY <2>1 DEF IInv, TypeOK, Inside
  <2>2. CASE u # t
    BY <2>2, <1>12, <1>3, <1>7 DEF IInv, TypeOK, Private, Inside
  <2> QED  BY <2>1, <2>2
<1> QED  BY <1>1, <1>4, <1>8, <1>10, <1>11, <1>13 DEF IInv

LEMMA StutterKeeps == IInv /\ UNCHANGED vars => IInv'
<1> SUFFICES ASSUME IInv, UNCHANGED vars PROVE IInv'  OBVIOUS
<1> USE DEF vars
<1>1. Active' = Active  BY DEF Active
<1>2. \A t \in Thread : Ticket(t)' = Ticket(t)  BY DEF Ticket
<1>3. TypeOK'  BY DEF IInv, TypeOK
<1>4. Window'  BY <1>1, <1>2 DEF IInv, Window, At, Out, Place, Active
<1>5. Private'  BY <1>2 DEF IInv, Private, Inside
<1> QED  BY <1>3, <1>4, <1>5 DEF IInv

LEMMA Inductive == Spec => []IInv
<1>1. IInv /\ [Next]_vars => IInv'
  BY FetchAddKeeps, ComparingKeeps, UnlockKeeps, StutterKeeps DEF Next, Step
<1> QED  BY InitIInv, <1>1, PTL DEF Spec

-----------------------------------------------------------------------------
(* Every variable keeps its type, M_head and M_tail the width of Base      *)
(* (queue_lock.h, both builds).                                            *)
THEOREM LockTypeCorrect == Spec => []TypeOK
<1>1. IInv => TypeOK  BY DEF IInv
<1> QED  BY Inductive, <1>1, PTL

(* No two threads are inside queue_lock at once, in either build and for   *)
(* any number of threads up to the number of values of Base.               *)
THEOREM Exclusion == Spec => []MutualExclusion
<1>1. IInv => MutualExclusion
  BY DEF IInv, Window, Private, MutualExclusion, Inside, Active
<1> QED  BY Inductive, <1>1, PTL

-----------------------------------------------------------------------------
(* The threads ahead of t, as the refinement mapping has them. *)
Ahead(t) == {u \in Active : t \in Active /\ Place(Ticket(u)) < Place(Ticket(t))}

LEMMA PlacesAreNumbers ==
  ASSUME IInv, NEW t \in Thread
  PROVE  Place(Ticket(t)) \in Nat
BY ThreadAssumption DEF IInv, TypeOK, Ticket, Place, Base

LEMMA FetchAddRequests ==
  ASSUME IInv, NEW t \in Thread, FetchAdd(t)
  PROVE  Fair!Request(t)
<1>1. /\ Active' = Active \cup {t} /\ t \notin Active
      /\ Place(Ticket(t))' = Out
      /\ \A u \in Active : Place(Ticket(u))' = Place(Ticket(u))
  BY FetchAddKeeps
<1>2. \A u \in Active : Place(Ticket(u)) < Out /\ Place(Ticket(u)) \in Nat
  BY PlacesAreNumbers DEF IInv, Window, Active
<1>3. Out \in Nat
  BY ActiveFinite
<1>4. Ahead(t)' = Active
  BY <1>1, <1>2, <1>3 DEF Ahead
<1>5. \A u \in Thread \ {t} : Ahead(u)' = Ahead(u)
  <2> SUFFICES ASSUME NEW u \in Thread \ {t} PROVE Ahead(u)' = Ahead(u)
    OBVIOUS
  <2>1. CASE u \in Active
    <3>1. ~(Place(Ticket(t))' < Place(Ticket(u))')
      BY <1>1, <1>2, <1>3, <2>1
    <3> QED  BY <1>1, <2>1, <3>1 DEF Ahead
  <2>2. CASE u \notin Active
    BY <1>1, <2>2 DEF Ahead
  <2> QED  BY <2>1, <2>2
<1> QED
  BY <1>4, <1>5 DEF IInv, TypeOK, FetchAdd, Goto, Ahead, Active, Fair!Request

(* An entering thread has the first ticket, so nobody is ahead of it. *)
LEMMA EnterGrants ==
  ASSUME IInv, NEW t \in Thread, Enter(t)
  PROVE  Fair!Grant(t)
<1>1. /\ Active' = Active
      /\ \A u \in Active : Place(Ticket(u))' = Place(Ticket(u))
  BY ComparingKeeps
<1>2. \A u \in Thread : Ahead(u)' = Ahead(u)
  BY <1>1 DEF Ahead
<1>3. Ahead(t) = {}
  <2>1. Place(Ticket(t)) = 0
    BY DEF IInv, TypeOK, Private, Enter, Goto, Served, Place, Base
  <2>2. \A u \in Active : ~(Place(Ticket(u)) < 0)
    BY PlacesAreNumbers DEF Active
  <2> QED  BY <2>1, <2>2 DEF Ahead
<1> QED
  BY <1>2, <1>3 DEF IInv, TypeOK, Enter, Goto, Ahead, Fair!Grant

LEMMA ComparingStutters ==
  ASSUME IInv, NEW t \in Thread, FailExchange(t) \/ Retry(t) \/ LoadTail(t)
  PROVE  UNCHANGED Fair!vars
<1>1. /\ Active' = Active
      /\ \A u \in Active : Place(Ticket(u))' = Place(Ticket(u))
  BY ComparingKeeps
<1>2. \A u \in Thread : Ahead(u)' = Ahead(u)
  BY <1>1 DEF Ahead
<1> QED
  BY <1>2 DEF IInv, TypeOK, FailExchange, Retry, LoadTail, Goto, Ahead, Fair!vars

(* All others move up by one place, which keeps their order. *)
LEMMA UnlockReleases ==
  ASSUME IInv, NEW t \in Thread, Unlock(t) \/ StoreTail(t)
  PROVE  Fair!Release(t)
<1>1. /\ Active' = Active \ {t} /\ t \in Active
      /\ Place(Ticket(t)) = 0
      /\ \A u \in Active \ {t} : Place(Ticket(u)) > 0 /\ Place(Ticket(u))' = Place(Ticket(u)) - 1
  BY UnlockKeeps
<1>2. \A u \in Active : Place(Ticket(u)) \in Nat
  BY PlacesAreNumbers DEF Active
<1>3. \A u \in Thread : Ahead(u)' = Ahead(u) \ {t}
  <2> SUFFICES ASSUME NEW u \in Thread PROVE Ahead(u)' = Ahead(u) \ {t}
    OBVIOUS
  <2>1. CASE u = t
    <3>1. \A w \in Active : ~(Place(Ticket(w)) < 0)
      BY <1>2
    <3> QED  BY <1>1, <2>1, <3>1 DEF Ahead
  <2>2. CASE u \in Active \ {t}
    BY <1>1, <1>2, <2>2 DEF Ahead
  <2>3. CASE u \notin Active
    BY <1>1, <2>3 DEF Ahead
  <2> QED  BY <2>1, <2>2, <2>3
<1> QED
  BY <1>3 DEF IInv, TypeOK, Unlock, StoreTail, Goto, Ahead, Fair!Release

LEMMA InitIsFair == Init => Fair!Init
<1> SUFFICES ASSUME Init PROVE Fair!Init  OBVIOUS
<1>1. Active = {}  BY DEF Init, Active
<1> QED  BY <1>1 DEF Init, Fair!Init

LEMMA StutterIsFair == UNCHANGED vars => UNCHANGED Fair!vars
<1> SUFFICES ASSUME UNCHANGED vars PROVE UNCHANGED Fair!vars  OBVIOUS
<1>1. Active' = Active  BY DEF vars, Active
<1>2. \A t \in Thread : Ahead(t)' = Ahead(t)
  BY <1>1 DEF vars, Ahead, Place, Ticket
<1> QED  BY <1>2 DEF vars, Ahead, Fair!vars

(* queue_lock honours the requests in the order of their fetch_add: it     *)
(* implements FairLock, in either build and through every wrap of Base.    *)
THEOREM FirstComeFirstServed == Spec => ImplementsFairLock
<1>1. IInv /\ [Next]_vars => [Fair!Next]_Fair!vars
  <2> SUFFICES ASSUME IInv, [Next]_vars PROVE [Fair!Next]_Fair!vars  OBVIOUS
  <2>1. CASE UNCHANGED vars
    BY <2>1, StutterIsFair
  <2>2. ASSUME NEW t \in Thread, FetchAdd(t) \/ Step(t)
        PROVE  [Fair!Next]_Fair!vars
    BY <2>2, FetchAddRequests, EnterGrants, ComparingStutters, UnlockReleases DEF Step, Fair!Next
  <2> QED  BY <2>1, <2>2 DEF Next
<1> QED  BY InitIsFair, Inductive, <1>1, PTL DEF Spec, ImplementsFairLock, Fair!Spec
=============================================================================
