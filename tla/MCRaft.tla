------------------------------- MODULE MCRaft -------------------------------
(* Interchangeable nodes for TLC. *)
EXTENDS Raft, TLC

MCNodeSymmetry == Permutations(Node)
=============================================================================
