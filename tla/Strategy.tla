------------------------------ MODULE Strategy ------------------------------
(***************************************************************************)
(* The pooling strategies of strategy.go over a pool, and the part of      *)
(* pool.Session they use: which server connection a session has.           *)
(*                                                                         *)
(* The pool is reduced to what ConnPool shows of it: a connection is in    *)
(* the idle slice, or handed out, or does not exist.  idle counts          *)
(* occurrences, because Release does not look whether a connection is      *)
(* already idle, and takes any *ServerConn it is given.                    *)
(***************************************************************************)
EXTENDS Integers, FiniteSets

CONSTANTS
    Session,   \* client sessions
    Conn,      \* server connections
    NoConn,    \* nil
    RoleOf     \* the role of the backend a connection leads to

ASSUME StrategyAssumption == NoConn \notin Conn

VARIABLES
    idle,      \* connection -> occurrences in the idle slice
    out,       \* connections handed out and not released since
    sconn      \* Session.serverConn

poolVars == <<idle, out>>

Role == {"primary", "replica"}
AnyRole == ""           \* no target role: Acquire instead of AcquireToRole

InitStrategy ==
    /\ idle = [c \in Conn |-> 0]
    /\ out = {}
    /\ sconn = [s \in Session |-> NoConn]

\* Mutant: the connection stays in the idle slice.
AcquireKeep(c, used) ==
    /\ idle[c] > 0 \/ c \notin out \cup used
    /\ out' = out \cup {c}
    /\ UNCHANGED idle

\* Pool.Acquire or AcquireToRole returns c: an idle connection, or a new one,
\* which nothing in use (the connections of the set used) can be.  AcquireToRole
\* looks at the role only to choose a backend to dial ("any connection works"), and
\* dials another one when none of that role is healthy.
Acquire(c, used) ==
    /\ \/ idle[c] > 0 /\ idle' = [idle EXCEPT ![c] = @ - 1]
       \/ idle[c] = 0 /\ c \notin out \cup used /\ UNCHANGED idle
    /\ out' = out \cup {c}

\* Mutant: nothing is given back.
ReleaseNothing(c) == UNCHANGED poolVars

\* Pool.Release: back to the idle slice, or closed when its reset fails.
Release(c) ==
    /\ out' = out \ {c}
    /\ \/ idle' = [idle EXCEPT ![c] = @ + 1]
       \/ UNCHANGED idle

\* Session.SetServerConn
SetServerConn(s, c) == sconn' = [sconn EXCEPT ![s] = c]
=============================================================================
