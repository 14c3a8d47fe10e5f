----------------------------- MODULE ConnLease -----------------------------
(***************************************************************************)
(* What a connection pool promises its sessions, without saying how: at    *)
(* any time a connection is leased to one client, idle, or unused; a client*)
(* has at most one; and it loses its lease only by a step of its own.      *)
(***************************************************************************)
CONSTANTS
    Conn, Client,
    Idle, None      \* where an unleased connection is: two values, no clients

VARIABLE lease

\* Client t has no connection.
Without(t) == \A c \in Conn : lease[c] # t

LeaseInit == lease = [c \in Conn |-> None]

\* Acquire: an idle connection, or a new one.
Take(t, c) ==
    /\ Without(t) /\ lease[c] \in {Idle, None}
    /\ lease' = [lease EXCEPT ![c] = t]

\* Release while somebody waits: t passes its connection on to u.
Pass(t, u, c) ==
    /\ lease[c] = t /\ Without(u)
    /\ lease' = [lease EXCEPT ![c] = u]

\* t gives its connection up, for reuse or for good.
GiveUp(t, c) ==
    /\ lease[c] = t
    /\ \E s \in {Idle, None} : lease' = [lease EXCEPT ![c] = s]

\* Idle connections are closed.
CloseIdle(S) ==
    /\ \A c \in S : lease[c] = Idle
    /\ lease' = [c \in Conn |-> IF c \in S THEN None ELSE lease[c]]

LeaseNext ==
    \/ \E t \in Client, c \in Conn : Take(t, c) \/ GiveUp(t, c)
    \/ \E t, u \in Client, c \in Conn : Pass(t, u, c)
    \/ \E S \in SUBSET Conn : CloseIdle(S)

LeaseSpec == LeaseInit /\ [][LeaseNext]_lease
=============================================================================
