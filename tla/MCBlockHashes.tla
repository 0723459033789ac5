---------------------------- MODULE MCBlockHashes ----------------------------
(* Small instances of BlockHashes for TLC. *)
EXTENDS BlockHashes, TLC

QuerySymmetry == Permutations(Queries) \cup Permutations(Nodes)
=============================================================================
