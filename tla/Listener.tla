------------------------------ MODULE Listener ------------------------------
(***************************************************************************)
(* A listener from Start to StopContext (proxy/listener.go), and the order *)
(* in which main.go shuts down: the accept loop, the goroutine of each     *)
(* connection with its registration, the drain with its deadline, and the  *)
(* refresh of the query router.  What a session does is in Startup.        *)
(***************************************************************************)
EXTENDS Naturals, FiniteSets

CONSTANTS
    ClientConn,         \* client connections
    Admin,        \* admin requests that add or remove a backend
    KindOf,       \* each backend list: "good", "noPrimary" (replicas only) or "empty"
    NoRouter,     \* nil
    MaxLists      \* bound: changes of the backend list

ASSUME ListenerAssumption ==
    /\ MaxLists \in Nat
    /\ KindOf \in [0..MaxLists -> {"good", "noPrimary", "empty"}] /\ KindOf[0] = "good"
    /\ NoRouter \notin 0..MaxLists

VARIABLES
    phase,        \* each connection: where its goroutine is
    sessions,     \* the registered sessions
    closed,       \* sessions that were closed
    stop,         \* StopContext: "no", "draining", "closing" or "done"
    forced,       \* the deadline passed while draining
    poolsClosed,  \* Manager.Close has run
    list,         \* version of the pool's backend list
    admin,        \* each admin request: [pc, list], the list it has read
    router,       \* the list of which the listener's router is
    has,          \* the router each session has
    late,         \* history: connections added to the wait group after the wait
    stale,        \* history: sessions made before a refresh and registered after it
    overlap,      \* history: two admin requests were in progress at once
    reloaded      \* history: a reload has changed the list since a refresh last read it

stopVars == <<stop, forced, poolsClosed>>
routeVars == <<list, admin, router, overlap, reloaded>>
listenerVars == <<phase, sessions, closed, stopVars, routeVars, has, late, stale>>

ListenerInit ==
    /\ phase = [c \in ClientConn |-> "none"]
    /\ sessions = {} /\ closed = {}
    /\ stop = "no" /\ forced = FALSE /\ poolsClosed = FALSE
    /\ list = 0 /\ admin = [d \in Admin |-> [pc |-> "idle", list |-> 0]]
    /\ router = 0 /\ has = [c \in ClientConn |-> 0]
    /\ late = {} /\ stale = {} /\ overlap = FALSE /\ reloaded = FALSE

\* The connections connWG counts.
Counted == {c \in ClientConn : phase[c] \in {"added", "created", "registered", "leaving"}}

----------------------------------------------------------------------------
\* acceptLoop: a goroutine for each connection, until the socket is closed.
AcceptConn(c) ==
    /\ phase[c] = "none" /\ stop = "no"
    /\ phase' = [phase EXCEPT ![c] = "spawned"]
    /\ UNCHANGED <<sessions, closed, stopVars, routeVars, has, late, stale>>

\* handleConnection begins with connWG.Add, in the new goroutine.
AddConn(c) ==
    /\ phase[c] = "spawned"
    /\ phase' = [phase EXCEPT ![c] = "added"]
    /\ late' = IF stop \in {"closing", "done"} THEN late \cup {c} ELSE late
    /\ UNCHANGED <<sessions, closed, stopVars, routeVars, has, stale>>

\* The limit of client connections is reached or the session cannot be made; or it
\* is made, with the listener's router.
CreateSession(c) ==
    /\ phase[c] = "added"
    /\ \/ phase' = [phase EXCEPT ![c] = "over"] /\ UNCHANGED has
       \/ phase' = [phase EXCEPT ![c] = "created"] /\ has' = [has EXCEPT ![c] = router]
    /\ UNCHANGED <<sessions, closed, stopVars, routeVars, late, stale>>

Register(c) ==
    /\ phase[c] = "created"
    /\ phase' = [phase EXCEPT ![c] = "registered"]
    /\ sessions' = sessions \cup {c}
    /\ stale' = IF has[c] # router THEN stale \cup {c} ELSE stale
    /\ UNCHANGED <<closed, stopVars, routeVars, has, late>>

\* Handle returns; the session leaves the map ...
Deregister(c) ==
    /\ phase[c] = "registered"
    /\ phase' = [phase EXCEPT ![c] = "leaving"]
    /\ sessions' = sessions \ {c}
    /\ UNCHANGED <<closed, stopVars, routeVars, has, late, stale>>

\* ... and is closed.
CloseSession(c) ==
    /\ phase[c] = "leaving"
    /\ phase' = [phase EXCEPT ![c] = "over"]
    /\ closed' = closed \cup {c}
    /\ UNCHANGED <<sessions, stopVars, routeVars, has, late, stale>>

----------------------------------------------------------------------------
\* An admin request adds or removes a backend ...
ChangeBackends(d) ==
    /\ admin[d].pc = "idle" /\ list < MaxLists
    /\ list' = list + 1
    /\ admin' = [admin EXCEPT ![d].pc = "changed"]
    /\ overlap' = (overlap \/ \E e \in Admin : admin[e].pc # "idle")
    /\ UNCHANGED <<phase, sessions, closed, stopVars, router, reloaded, has, late, stale>>

\* A reload changes the list too, in UpdateConfig, and refreshes no router.
ReloadBackends ==
    /\ list < MaxLists
    /\ list' = list + 1
    /\ reloaded' = TRUE
    /\ UNCHANGED <<phase, sessions, closed, stopVars, admin, router, overlap, has, late, stale>>

\* ... and calls RefreshRouter, which reads the list, and returns if it is empty ...
RefreshRead(d) ==
    /\ admin[d].pc = "changed"
    /\ admin' = [admin EXCEPT ![d] = [pc |-> IF KindOf[list] = "empty" THEN "idle" ELSE "read", list |-> list]]
    /\ reloaded' = FALSE
    /\ UNCHANGED <<phase, sessions, closed, stopVars, list, router, overlap, has, late, stale>>

\* Mutant: a list without a primary leaves the router as it is.
RefreshKeeps(d) ==
    /\ admin[d].pc = "read"
    /\ IF KindOf[admin[d].list] = "good"
       THEN /\ router' = admin[d].list
            /\ has' = [c \in ClientConn |-> IF c \in sessions THEN admin[d].list ELSE has[c]]
       ELSE UNCHANGED <<router, has>>
    /\ stale' = IF KindOf[admin[d].list] = "good" THEN stale \ sessions ELSE stale
    /\ admin' = [admin EXCEPT ![d].pc = "idle"]
    /\ UNCHANGED <<phase, sessions, closed, stopVars, list, overlap, reloaded, late>>

\* ... and then, under the lock, gives its router to the listener and to every
\* registered session; without a primary, the listener's router is cleared.
RefreshRouter(d) ==
    /\ admin[d].pc = "read"
    /\ IF KindOf[admin[d].list] = "good"
       THEN /\ router' = admin[d].list
            /\ has' = [c \in ClientConn |-> IF c \in sessions THEN admin[d].list ELSE has[c]]
            /\ stale' = stale \ sessions
       ELSE /\ router' = NoRouter
            /\ stale' = stale \cup sessions
            /\ UNCHANGED has
    /\ admin' = [admin EXCEPT ![d].pc = "idle"]
    /\ UNCHANGED <<phase, sessions, closed, stopVars, list, overlap, reloaded, late>>

----------------------------------------------------------------------------
\* StopContext: the socket is closed and the context cancelled ...
StopBegin ==
    /\ stop = "no"
    /\ stop' = "draining"
    /\ UNCHANGED <<phase, sessions, closed, forced, poolsClosed, routeVars, has, late, stale>>

\* ... the goroutines end, or the deadline passes ...
StopWait ==
    /\ stop = "draining"
    /\ stop' = "closing"
    /\ \/ Counted = {} /\ UNCHANGED forced
       \/ forced' = TRUE
    /\ UNCHANGED <<phase, sessions, closed, poolsClosed, routeVars, has, late, stale>>

\* Mutant: the map is only emptied.
StopForget ==
    /\ stop = "closing"
    /\ stop' = "done"
    /\ sessions' = {}
    /\ UNCHANGED <<phase, closed, forced, poolsClosed, routeVars, has, late, stale>>

\* ... and the sessions that are left are closed.
StopSessions ==
    /\ stop = "closing"
    /\ stop' = "done"
    /\ closed' = closed \cup sessions
    /\ sessions' = {}
    /\ UNCHANGED <<phase, forced, poolsClosed, routeVars, has, late, stale>>

\* main closes the pools last.
ClosePools ==
    /\ stop = "done" /\ ~poolsClosed
    /\ poolsClosed' = TRUE
    /\ UNCHANGED <<phase, sessions, closed, stop, forced, routeVars, has, late, stale>>

ListenerNext ==
    \/ \E c \in ClientConn : \/ AcceptConn(c) \/ AddConn(c) \/ CreateSession(c) \/ Register(c)
                       \/ Deregister(c) \/ CloseSession(c)
    \/ \E d \in Admin : ChangeBackends(d) \/ RefreshRead(d) \/ RefreshRouter(d)
    \/ ReloadBackends \/ StopBegin \/ StopWait \/ StopSessions \/ ClosePools

ListenerSpec == ListenerInit /\ [][ListenerNext]_listenerVars

----------------------------------------------------------------------------
(* Properties *)

\* When StopContext has returned, and so when the pools are closed, no session runs
\* that was not closed: but one whose goroutine was counted after the wait, or, when
\* the deadline passed, one that was not registered yet.
StopCloses ==
    stop = "done" \/ poolsClosed =>
        \A c \in ClientConn :
            \/ phase[c] \in {"none", "spawned", "over"} \/ c \in closed \cup late
            \/ forced /\ (phase[c] # "registered" \/ c \in sessions)

\* A registered session has the listener's router: but one that was made before the
\* last refresh and registered after it, or that was there when the router was cleared.
RouterShared == \A c \in sessions : has[c] = router \/ c \in stale

\* When no admin request is in progress, the listener routes by the backend list as it
\* is: unless the list is empty, or two requests overlapped, of which the one that read
\* the list first may end last, or a reload has changed the list since.
RouterCurrent ==
    (\A d \in Admin : admin[d].pc = "idle") /\ ~overlap /\ ~reloaded =>
        CASE KindOf[list] = "good" -> router = list
          [] KindOf[list] = "noPrimary" -> router = NoRouter
          [] OTHER -> TRUE
=============================================================================
