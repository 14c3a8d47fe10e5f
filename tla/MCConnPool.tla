------------------------------ MODULE MCConnPool ------------------------------
(* The connection pool for TLC. *)
EXTENDS ConnPool, TLC

CONSTANTS b1, b2

\* Every id is dialled to b1.
MCOneBackend == {b1}
MCAllOnOne == [c \in Conn |-> b1]

\* Two backends: one id, chosen arbitrarily, on the second.
MCTwoBackends == {b1, b2}
MCOneOnSecond == LET c2 == CHOOSE c \in Conn : TRUE
                 IN [c \in Conn |-> IF c = c2 THEN b2 ELSE b1]
MCSecond == {b2}
MCNone == {}

\* Clients are interchangeable; ids too when they are all on one backend.
MCClientSymmetry == Permutations(Client)
MCSymmetry == Permutations(Conn) \cup Permutations(Client)
===============================================================================
