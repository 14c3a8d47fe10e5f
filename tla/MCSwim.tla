------------------------------- MODULE MCSwim -------------------------------
(* Three nodes, one of which probes, for TLC. *)
EXTENDS Swim

CONSTANTS n1, n2, n3

MCMember == {n1, n2, n3}
MCSeeds == [n \in MCMember |-> CASE n = n1 -> {} [] n = n2 -> {n1} [] n = n3 -> {n1, n2}]
==============================================================================
