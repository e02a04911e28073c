---------------------------- MODULE MCTargetLock ----------------------------
(* Two names, two image files and a loop device over one of them; one disk *)
(* under two nodes.                                                        *)
EXTENDS TargetLock, TLC

CONSTANTS p1, p2, sda, byId, disk

MCDiskOf == sda :> disk @@ byId :> disk
Symmetry == Permutations(Proc) \cup Permutations(Node)
=============================================================================
