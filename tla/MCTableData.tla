---------------------------- MODULE MCTableData ----------------------------
(* TableData for TLC. *)
EXTENDS TableData, TLC

BlockSymmetry == Permutations(Blocks)
=============================================================================
