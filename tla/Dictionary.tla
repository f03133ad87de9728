----------------------------- MODULE Dictionary -----------------------------
(***************************************************************************)
(* What unordered_map_file promises its callers, whatever the layout of    *)
(* its slots: a partial function from keys to values, each call answering  *)
(* from the value the key had when it was made.                            *)
(***************************************************************************)
CONSTANTS
  Key, Value,
  Default,  \* Value(), the value operator[] inserts; one of Value
  None      \* no value; not one of Value

VARIABLES
  dict,     \* the value of each key, or None
  ret       \* what the last call returned: [ok, val]

vars == <<dict, ret>>

NoAnswer == [ok |-> FALSE, val |-> None]
Present(k) == dict[k] # None

Init ==
  /\ dict = [k \in Key |-> None]
  /\ ret = NoAnswer

(* insert and emplace: the key's old value wins. *)
Emplace(k, v) ==
  /\ ret' = [ok |-> ~Present(k), val |-> dict'[k]]
  /\ dict' = IF Present(k) THEN dict ELSE [dict EXCEPT ![k] = v]

(* insert_or_assign: the new value wins. *)
InsertOrAssign(k, v) ==
  /\ ret' = [ok |-> ~Present(k), val |-> v]
  /\ dict' = [dict EXCEPT ![k] = v]

(* operator[]: the caller gets the value, inserted if it was not there. *)
Subscript(k) ==
  /\ ret' = [ok |-> ~Present(k), val |-> dict'[k]]
  /\ dict' = IF Present(k) THEN dict ELSE [dict EXCEPT ![k] = Default]

Find(k) ==
  /\ ret' = [ok |-> Present(k), val |-> dict[k]]
  /\ UNCHANGED dict

Erase(k) ==
  /\ ret' = [ok |-> Present(k), val |-> None]
  /\ dict' = [dict EXCEPT ![k] = None]

Clear ==
  /\ ret' = NoAnswer
  /\ dict' = [k \in Key |-> None]

(* Calls that only change the layout or its settings. *)
Reorganise ==
  /\ ret' = NoAnswer
  /\ UNCHANGED dict

Next ==
  \/ \E k \in Key, v \in Value : Emplace(k, v) \/ InsertOrAssign(k, v)
  \/ \E k \in Key : Subscript(k) \/ Find(k) \/ Erase(k)
  \/ Clear
  \/ Reorganise

Spec == Init /\ [][Next]_vars
=============================================================================
