---------------------------- MODULE MCMapGrowth ----------------------------
(* The bucket choices a map has by default. *)
EXTENDS MapGrowth

DefaultChoices ==
  {1, 7, 17, 73, 181, 431, 1777, 4721, 10253, 41017, 140989, 487757, 1028957}
=============================================================================
