---------------------------- MODULE MCBPlusTree ----------------------------
(* Record ids are only compared for equality. *)
EXTENDS BPlusTree, TLC

RidSymmetry == Permutations(Rids)
=============================================================================
