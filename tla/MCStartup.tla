------------------------------ MODULE MCStartup ------------------------------
(* Client connections for TLC. *)
EXTENDS Startup, TLC

CONSTANTS u1, u2

MCUsers == {u1, u2}
MCUserMax == [u \in MCUsers |-> IF u = u1 THEN 1 ELSE 0]
MCRole == [c \in Conn |-> "primary"]
==============================================================================
