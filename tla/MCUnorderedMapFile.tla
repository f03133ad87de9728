------------------------- MODULE MCUnorderedMapFile -------------------------
(***************************************************************************)
(* Instances of UnorderedMapFile for TLC.  Hash values are chosen so that  *)
(* chains of equal and of neighbouring homes form and shift each other.    *)
(***************************************************************************)
EXTENDS UnorderedMapFile, TLC

CONSTANTS a, b, c, d, e, f, u, v

Seven == {{7}}

(* Homes 5, 5, 5, 0, 2 and 6 in seven slots: the chain of slot 5 passes the *)
(* end and pushes the chain of slot 0 along.                               *)
WrapHash == (a :> 5) @@ (b :> 12) @@ (c :> 19) @@ (d :> 7) @@ (e :> 2) @@ (f :> 6)

(* A table that starts with one or two slots and grows, also by a number   *)
(* that is not a choice: the choices may change while it lives.            *)
Growing == {{1, 3}, {2}}
GrowHash == (a :> 5) @@ (b :> 2) @@ (c :> 6)
=============================================================================
