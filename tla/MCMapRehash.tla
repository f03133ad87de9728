---------------------------- MODULE MCMapRehash ----------------------------
(***************************************************************************)
(* An instance of MapRehash for TLC.                                       *)
(***************************************************************************)
EXTENDS MapRehash, TLC

CONSTANTS a, b, u, v

(* Keys that two sizes place in opposite orders: 35 and 85 are at home in  *)
(* slots 0 and 1 of seven, and in slots 1 and 0 of seventeen.              *)
SevenSeventeen == {{7, 17}}
TurnHash   == (a :> 35) @@ (b :> 85)
=============================================================================
