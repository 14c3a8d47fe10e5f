---------------------------- MODULE MCBackendHealth ----------------------------
(* A primary and a replica for TLC. *)
EXTENDS BackendHealth

MCHosts == <<"p", "r">>
MCRole == [b \in {"p", "r"} |-> IF b = "p" THEN "primary" ELSE "replica"]
================================================================================
