----------------------------- MODULE MCMapFile ------------------------------
(***************************************************************************)
(* Instances of MapFile for TLC.                                           *)
(***************************************************************************)
EXTENDS MapFile, TLC

CONSTANTS a, b, c, d, e, u, v

(* Five keys whose homes keep their order, and leave room before the end,  *)
(* in six slots (0, 0, 1, 1, 2) and in eleven (0, 6, 1, 7, 2).             *)
SixEleven == {{6, 11}}
CalmHash  == (a :> 0) @@ (b :> 6) @@ (c :> 1) @@ (d :> 7) @@ (e :> 2)

(* Keys that collide, wrap and change their order between three and four   *)
(* slots; asking for no slots, or for fewer than there are elements, too.  *)
ThreeFour == {{3, 4}}
WildHash  == (a :> 0) @@ (b :> 2) @@ (c :> 5)

(* No call is stopped, and the file is reopened with as many slots as it   *)
(* has.                                                                    *)
UnstoppedNext ==
  \/ Wiping \/ Close \/ Kill
  \/ \E n \in Requests : Opening(n) /\ (ret'.ok => M_buckets' = M_buckets)

(* And once the map is to wipe its file, it is not moved from, nor is it   *)
(* followed through other calls than its last ones.                        *)
CalmSpec == FileInit /\ [][UnstoppedNext \/ (~M_delete /\ (Call \/ MoveConstruct))]_fileVars

MovedSpec == FileInit /\ [][UnstoppedNext \/ Call \/ MoveConstruct \/ DestroyMovedFrom]_fileVars

(* A closing chain leaves M_elem too high for good; it is followed up to   *)
(* MaxElem.                                                                *)
CONSTANT MaxElem
BoundedSpec == FileInit /\ [][FileNext /\ M_elem' <= MaxElem]_fileVars
=============================================================================
