------------------------------ MODULE ConnPool ------------------------------
(***************************************************************************)
(* A connection pool under concurrent use: Pool.Acquire, AcquireToRole,    *)
(* Release, prefetchConns, RemoveBackend and Close of pool.go, over the    *)
(* connection store (ServerConnPool) and the wait queue (WaitQueue).       *)
(*                                                                         *)
(* A client is a goroutine that acquires a connection, uses it and         *)
(* releases it.  pc[t] says where it is: each value is a point between two *)
(* critical sections, where another goroutine may run.  conn[t] is the     *)
(* connection in its hands.                                                *)
(***************************************************************************)
EXTENDS ServerConnPool, WaitQueue

CONSTANTS
    MaxConns,      \* config.Limits.MaxServerConnections
    Retries,       \* maxRetries of createServerConn
    Prefetch,      \* MinServerConnections; 0: no prefetch goroutine
    Removable,     \* backends an operator may remove and add again
    NoBackend,     \* nil backend
    MayClose       \* whether the pool may be closed while in use

ASSUME ConnPoolAssumption ==
    /\ MaxConns \in Nat \ {0}
    /\ QueueMax \in Nat \ {0}
    /\ Retries \in Nat \ {0}
    /\ Prefetch \in 0..MaxConns
    /\ Removable \subseteq Backend
    /\ MayClose \in BOOLEAN
    /\ NoConn \notin Conn
    /\ Hole \notin Client
    /\ IsFiniteSet(Client)
    /\ NoBackend \notin Backend
    /\ {"idle", "none"} \cap Client = {}

VARIABLES
    pc, conn,
    tries,      \* attempt of createServerConn's loop a client is in
    dirty,      \* connections used by a session and not reset since
    backends,   \* Pool.backends
    removing,   \* the backend RemoveBackend is working on (it holds Pool.mu)
    closed,     \* Pool.Close was called
    prefetch,   \* where the prefetch goroutine is
    pidle       \* the idle count it has read

clientVars == <<pc, conn, tries>>
prefetchVars == <<prefetch, pidle>>
adminVars == <<backends, removing, closed>>
otherVars == <<prefetchVars, adminVars>>
vars == <<storeVars, waitVars, clientVars, dirty, otherVars>>

\* The points of createServerConn where memory is reserved and no connection
\* exists yet, of Acquire, and of a client's life.
Reserved == {"select", "dial"}
Acquiring == {"acquire", "size", "alloc", "add", "reacquire", "enqueue",
              "waiting", "leaving"} \cup Reserved
PC == Acquiring \cup {"out", "holding", "returning"}
PrefetchPC == {"idle", "active", "size", "alloc", "select", "done"}

\* Client t moves to point p with connection c in its hands.
Goto(t, p, c) == /\ pc' = [pc EXCEPT ![t] = p]
                 /\ conn' = [conn EXCEPT ![t] = c]
                 /\ UNCHANGED tries

\* An id that nothing refers to: the next value of connIDCounter.
Fresh(c) == Unknown(c) /\ \A t \in Client : conn[t] # c /\ wconn[t] # c

Init ==
    /\ InitStore
    /\ InitWait
    /\ pc = [t \in Client |-> "out"]
    /\ conn = [t \in Client |-> NoConn]
    /\ tries = [t \in Client |-> 0]
    /\ dirty = {}
    /\ backends = Backend
    /\ removing = NoBackend
    /\ closed = FALSE
    /\ prefetch = IF Prefetch > 0 THEN "idle" ELSE "done"
    /\ pidle = 0

----------------------------------------------------------------------------
(* Pool.Acquire *)

\* A session asks for a connection.
Begin(t) ==
    /\ pc[t] = "out"
    /\ Goto(t, "acquire", NoConn)
    /\ UNCHANGED <<storeVars, waitVars, dirty, otherVars>>

\* serverConns.acquire(), first or second time, finds an idle connection.
TakeIdle(t) ==
    /\ pc[t] \in {"acquire", "reacquire"}
    /\ \E c \in Conn : acquire(c) /\ Goto(t, "holding", c)
    /\ UNCHANGED <<waitVars, dirty, otherVars>>

\* serverConns.acquire() returns nil.
NoIdle(t) ==
    /\ pc[t] \in {"acquire", "reacquire"}
    /\ idle = <<>>
    /\ Goto(t, IF pc[t] = "acquire" THEN "size" ELSE "enqueue", NoConn)
    /\ UNCHANGED <<storeVars, waitVars, dirty, otherVars>>

\* Mutant: the capacity check lets one more through.
CheckSizeInclusive(t) ==
    /\ pc[t] = "size"
    /\ Goto(t, IF size <= MaxConns THEN "alloc" ELSE "reacquire", NoConn)
    /\ UNCHANGED <<storeVars, waitVars, dirty, otherVars>>

\* The capacity check; the mutex is released before anything is created.
CheckSize(t) ==
    /\ pc[t] = "size"
    /\ Goto(t, IF size < MaxConns THEN "alloc" ELSE "reacquire", NoConn)
    /\ UNCHANGED <<storeVars, waitVars, dirty, otherVars>>

\* createServerConn: fail without backends (read without the lock), else
\* reserve memory, or fail.
Reserve(t) ==
    /\ pc[t] = "alloc"
    /\ \/ TryAlloc /\ Goto(t, "select", NoConn)
       \/ (~CanAlloc \/ backends = {}) /\ Goto(t, "out", NoConn) /\ UNCHANGED used
    /\ UNCHANGED <<idle, idleIndex, active, open, waitVars, dirty, otherVars>>

\* createServerConn: select a backend, which takes Pool.mu for reading.  The
\* choice of the id that the connection will have stands for it.
Select(t) ==
    /\ pc[t] = "select"
    /\ removing = NoBackend
    /\ \E c \in Conn : /\ Fresh(c) /\ BackendOf[c] \in backends
                       /\ Goto(t, "dial", c)
    /\ UNCHANGED <<storeVars, waitVars, dirty, otherVars>>

\* createServerConn: no backend is healthy, not draining and not tripped.
SelectNone(t) ==
    /\ pc[t] = "select"
    /\ removing = NoBackend
    /\ used' = FreedBy(1)
    /\ pc' = [pc EXCEPT ![t] = "out"]
    /\ tries' = [tries EXCEPT ![t] = 0]
    /\ UNCHANGED <<idle, idleIndex, active, open, waitVars, conn, dirty, otherVars>>

\* tryConnect succeeds.
Dial(t) ==
    /\ pc[t] = "dial"
    /\ open' = open \cup {conn[t]}
    /\ pc' = [pc EXCEPT ![t] = "add"]
    /\ tries' = [tries EXCEPT ![t] = 0]
    /\ dirty' = dirty \ {conn[t]}
    /\ UNCHANGED <<idle, idleIndex, active, used, waitVars, conn, otherVars>>

\* Mutant: the retry loop does not count its attempts.
DialFailsForever(t) ==
    /\ pc[t] = "dial"
    /\ conn' = [conn EXCEPT ![t] = NoConn]
    /\ pc' = [pc EXCEPT ![t] = "select"]
    /\ UNCHANGED <<storeVars, waitVars, tries, dirty, otherVars>>

\* tryConnect fails, or the circuit of the selected backend has opened: the
\* next attempt, or the end.
DialFails(t) ==
    /\ pc[t] = "dial"
    /\ conn' = [conn EXCEPT ![t] = NoConn]
    /\ \/ /\ tries[t] + 1 < Retries
          /\ pc' = [pc EXCEPT ![t] = "select"]
          /\ tries' = [tries EXCEPT ![t] = @ + 1]
          /\ UNCHANGED used
       \/ /\ tries[t] + 1 >= Retries
          /\ pc' = [pc EXCEPT ![t] = "out"]
          /\ tries' = [tries EXCEPT ![t] = 0]
          /\ used' = FreedBy(1)
    /\ UNCHANGED <<idle, idleIndex, active, open, waitVars, dirty, otherVars>>

\* serverConns.addActive(conn)
AddActive(t) ==
    /\ pc[t] = "add"
    /\ addActive(conn[t])
    /\ Goto(t, "holding", conn[t])
    /\ UNCHANGED <<waitVars, dirty, otherVars>>

\* waitQueue.Wait: join the queue, or fail when it is full.
JoinQueue(t) ==
    /\ pc[t] = "enqueue"
    /\ \/ Enqueue(t) /\ Goto(t, "waiting", NoConn)
       \/ QueueFull /\ Goto(t, "out", NoConn) /\ UNCHANGED waitVars
    /\ UNCHANGED <<storeVars, dirty, otherVars>>

\* waitQueue.Wait: the ready channel was closed.
Wake(t) ==
    /\ pc[t] = "waiting"
    /\ Receive(t)
    /\ Goto(t, "holding", wconn[t])
    /\ UNCHANGED <<storeVars, dirty, otherVars>>

\* waitQueue.Wait: the time-out or ctx.Done() branch of the select is taken,
\* which select may do even when ready is closed too.
TimeOut(t) ==
    /\ pc[t] = "waiting"
    /\ Goto(t, "leaving", NoConn)
    /\ UNCHANGED <<storeVars, waitVars, dirty, otherVars>>

\* waitQueue.Wait: the deferred clean-up, in a later critical section.
LeaveQueue(t) ==
    /\ pc[t] = "leaving"
    /\ Leave(t)
    /\ Goto(t, "out", NoConn)
    /\ UNCHANGED <<storeVars, dirty, otherVars>>

----------------------------------------------------------------------------
(* Pool.Release, by a session that has used its connection *)

\* Mutant: Release ignores the result of Signal.
HandOffAndReturn(t) ==
    /\ pc[t] = "holding"
    /\ SignalWaiter(conn[t])
    /\ dirty' = dirty \cup {conn[t]}
    /\ Goto(t, "returning", conn[t])
    /\ UNCHANGED <<storeVars, otherVars>>

\* waitQueue.Signal(conn): a waiter takes the connection as it is.
HandOff(t) ==
    /\ pc[t] = "holding"
    /\ SignalWaiter(conn[t])
    /\ dirty' = dirty \cup {conn[t]}
    /\ Goto(t, "out", NoConn)
    /\ UNCHANGED <<storeVars, otherVars>>

\* waitQueue.Signal(conn) returns false.
NobodyWaits(t) ==
    /\ pc[t] = "holding"
    /\ SignalNobody
    /\ dirty' = dirty \cup {conn[t]}
    /\ Goto(t, "returning", conn[t])
    /\ UNCHANGED <<storeVars, otherVars>>

\* serverConns.release(conn): the reset of a closed connection fails.
Return(t) ==
    /\ pc[t] = "returning"
    /\ \E ok \in BOOLEAN : /\ ok => conn[t] \in open
                           /\ release(conn[t], ok)
    /\ dirty' = dirty \ {conn[t]}
    /\ Goto(t, "out", NoConn)
    /\ UNCHANGED <<waitVars, otherVars>>

----------------------------------------------------------------------------
(* The other goroutines *)

\* prefetchConns: the loop condition idleCount() + activeCount() < target, two
\* separate reads.
PrefetchIdle ==
    /\ prefetch = "idle"
    /\ pidle' = Len(idle)
    /\ prefetch' = "active"
    /\ UNCHANGED <<storeVars, waitVars, clientVars, dirty, adminVars>>

PrefetchActive ==
    /\ prefetch = "active"
    /\ prefetch' = IF pidle + Cardinality(active) < Prefetch THEN "size" ELSE "done"
    /\ pidle' = 0
    /\ UNCHANGED <<storeVars, waitVars, clientVars, dirty, adminVars>>

\* prefetchConns: return when the pool is full, after 30 seconds, or when the
\* pool is closed; createServerConn otherwise.
PrefetchSize ==
    /\ prefetch = "size"
    /\ \/ size < MaxConns /\ ~closed /\ prefetch' = "alloc"
       \/ prefetch' = "done"
    /\ UNCHANGED <<storeVars, waitVars, clientVars, dirty, pidle, adminVars>>

PrefetchAlloc ==
    /\ prefetch = "alloc"
    /\ \/ TryAlloc /\ prefetch' = "select"
       \/ (~CanAlloc \/ backends = {}) /\ prefetch' = "idle" /\ UNCHANGED used
    /\ UNCHANGED <<idle, idleIndex, active, open, waitVars, clientVars, dirty,
                   pidle, adminVars>>

\* Mutant: a failed prefetch forgets manager.Free.
PrefetchDialKeepsMemory ==
    /\ prefetch = "select"
    /\ removing = NoBackend
    /\ \/ UNCHANGED open
       \/ \E c \in Conn : /\ Fresh(c) /\ BackendOf[c] \in backends
                          /\ open' = open \cup {c}
    /\ prefetch' = "idle"
    /\ UNCHANGED <<idle, idleIndex, active, used, waitVars, clientVars, dirty, pidle,
                   adminVars>>

\* createServerConn fails in the end, or succeeds; the loop goes on.  Its
\* result is assigned to _ : nothing holds the connection.
PrefetchDial ==
    /\ prefetch = "select"
    /\ removing = NoBackend
    /\ \/ used' = FreedBy(1) /\ UNCHANGED open
       \/ \E c \in Conn : /\ Fresh(c) /\ BackendOf[c] \in backends
                          /\ open' = open \cup {c}
                          /\ UNCHANGED used
    /\ prefetch' = "idle"
    /\ UNCHANGED <<idle, idleIndex, active, waitVars, clientVars, dirty, pidle,
                   adminVars>>

\* countActive(b)
ActiveOn(b) == {c \in active : BackendOf[c] = b}

\* RemoveBackend: countActive finds nothing; Pool.mu stays locked.
RemoveCheck(b) ==
    /\ removing = NoBackend
    /\ b \in backends
    /\ ActiveOn(b) = {}
    /\ removing' = b
    /\ UNCHANGED <<storeVars, waitVars, clientVars, dirty, prefetchVars, backends,
                   closed>>

\* RemoveBackend: drop the backend from the list, closeBackend, unlock.
RemoveFinish ==
    /\ removing # NoBackend
    /\ closeBackend(removing)
    /\ backends' = backends \ {removing}
    /\ removing' = NoBackend
    /\ UNCHANGED <<waitVars, clientVars, dirty, prefetchVars, closed>>

\* AddBackend of an address that is not in the list.
AddBackend(b) ==
    /\ removing = NoBackend
    /\ b \notin backends
    /\ backends' = backends \cup {b}
    /\ UNCHANGED <<storeVars, waitVars, clientVars, dirty, prefetchVars, removing,
                   closed>>

\* Pool.Close (a second call would panic on the closed channel).  Nothing in
\* Acquire or Release looks at it.
ClosePool ==
    /\ MayClose /\ ~closed
    /\ closed' = TRUE
    /\ closeAll
    /\ UNCHANGED <<waitVars, clientVars, dirty, prefetchVars, backends, removing>>

----------------------------------------------------------------------------
\* A call of Acquire, or of Release after Signal, goes on.
Step(t) ==
    \/ TakeIdle(t) \/ NoIdle(t) \/ CheckSize(t) \/ Reserve(t) \/ Select(t)
    \/ SelectNone(t) \/ Dial(t) \/ DialFails(t) \/ AddActive(t) \/ JoinQueue(t)
    \/ Wake(t) \/ TimeOut(t) \/ LeaveQueue(t) \/ Return(t)

PrefetchStep == \/ PrefetchIdle \/ PrefetchActive \/ PrefetchSize
                \/ PrefetchAlloc \/ PrefetchDial

Next == \/ \E t \in Client : Begin(t) \/ Step(t) \/ HandOff(t) \/ NobodyWaits(t)
        \/ PrefetchStep
        \/ \E b \in Removable : RemoveCheck(b) \/ AddBackend(b)
        \/ RemoveFinish
        \/ ClosePool

Spec == Init /\ [][Next]_vars

(***************************************************************************)
(* Fairness: a call in progress keeps moving, because goroutines are       *)
(* scheduled, dials and waits have time-outs (ConnectionTimeout), and      *)
(* a reader blocked on Pool.mu gets it when the writer in front of it is   *)
(* done (sync.RWMutex), however many writers follow.  Nothing is assumed   *)
(* of when a session asks for a connection or gives it back.               *)
(***************************************************************************)
FairSpec == /\ Spec
            /\ \A t \in Client : WF_vars(Step(t)) /\ SF_vars(Select(t) \/ SelectNone(t))
            /\ WF_vars(RemoveFinish)
            /\ WF_vars(PrefetchStep)

----------------------------------------------------------------------------
(* Properties *)

\* Type invariant.
TypeOK ==
    /\ StoreTypeOK
    /\ queue \in Seq(Client \cup {Hole})
    /\ wconn \in [Client -> Conn \cup {NoConn}]
    /\ pc \in [Client -> PC]
    /\ conn \in [Client -> Conn \cup {NoConn}]
    /\ tries \in [Client -> Nat]
    /\ dirty \subseteq Conn
    /\ backends \subseteq Backend
    /\ removing \in Backend \cup {NoBackend}
    /\ closed \in BOOLEAN
    /\ prefetch \in PrefetchPC
    /\ pidle \in Nat

\* The connections that client t, or the waiter it left in the queue, refers to.
Owned(t) == {conn[t], wconn[t]} \ {NoConn}

\* No connection is ever in the hands of two sessions, counting the connection
\* delivered to a waiter that has not woken up, and none is idle while in a
\* session's hands: results of one session can never reach another one.  The
\* code relies on it wherever Acquire, Signal and Release hand a *ServerConn on.
ExclusiveOwnership ==
    /\ \A t, u \in Client : t # u => Owned(t) \cap Owned(u) = {}
    /\ \A t \in Client : Owned(t) \cap IdleSet = {}
    /\ \A i, j \in DOMAIN idle : i # j => idle[i] # idle[j]

\* Clients with a connection in their hands.
Holding == {t \in Client : pc[t] \in {"add", "holding", "returning"}}

\* Until the pool is closed, a connection that is idle, delivered or in use has
\* not been closed by RemoveBackend, by a failed reset or by a full idle slice.
HandedOpen ==
    ~closed => /\ IdleSet \subseteq open
               /\ \A t \in Holding : conn[t] \in open
               /\ \A t \in Client : wconn[t] # NoConn => wconn[t] \in open

\* Goroutines in createServerConn between TryAlloc and the dial.
Reservations == Cardinality({t \in Client : pc[t] \in Reserved})
                + (IF prefetch = "select" THEN 1 ELSE 0)

\* Until the pool is closed, globalMemoryUsed is exactly what the open
\* connections and the dials in progress account for: no path of
\* createServerConn, release or closeBackend forgets a Free or does it twice.
MemoryExact ==
    (MemLimit # 0 /\ ~closed) => /\ used = Cardinality(open) + Reservations
                                 /\ used <= MemLimit

\* What the capacity check of Acquire does guarantee: clients that pass it
\* together take the pool at most one connection each above the limit.
OvershootBound == size <= MaxConns + Cardinality(Client) - 1

\* A client in Wait that has not been served is in the queue, once, and nobody
\* else is: Signal's skipping of holes and Wait's clean-up never lose a waiter.
WaiterQueued ==
    /\ \A t \in Client :
          pc[t] = "waiting" /\ wconn[t] = NoConn => \E i \in DOMAIN queue : queue[i] = t
    /\ \A i \in Waiting : /\ pc[queue[i]] \in {"waiting", "leaving"}
                          /\ wconn[queue[i]] = NoConn
                          /\ \A j \in Waiting : queue[i] = queue[j] => i = j

\* Every open connection is idle, registered as active, or in the hands of the
\* client that has just dialled it.  prefetchConns breaks it: its comment says
\* it works "by maintaining idle connections".
OpenAccounted ==
    open \subseteq IdleSet \cup active \cup {conn[t] : t \in Client}

\* A connection is only ever handed to the client that has been waiting longest
\* ("Signal gives a connection to the longest-waiting client").
LongestWaiting ==
    [][\A i, j \in Waiting : i < j /\ wconn'[queue[j]] # wconn[queue[j]]
          => wconn'[queue[j]] = NoConn]_vars

\* Every Acquire returns, with a connection or an error, and every Release ends.
AcquireReturns ==
    \A t \in Client : pc[t] \in Acquiring \cup {"returning"}
                        ~> pc[t] \in {"holding", "out"}

\* The pool keeps the promise of ConnLease: a connection goes from hand to hand
\* through Acquire, Signal and release only, one at a time, and never leaves a
\* client otherwise than by that client's own Release, failure or time-out.
leaseOf == [c \in Conn |-> IF \E t \in Client : c \in Owned(t)
                           THEN CHOOSE t \in Client : c \in Owned(t)
                           ELSE IF c \in IdleSet THEN "idle" ELSE "none"]
Lease == INSTANCE ConnLease WITH lease <- leaseOf, Idle <- "idle", None <- "none"
ImplementsLease == Lease!LeaseSpec

(* What comments and documents say and the code does not do *)

\* "Uses sync.Cond to avoid race conditions between signal and timeout": a
\* connection registered as active is in some client's hands.
ActiveHasOwner == \A c \in active : \E t \in Client : c \in Owned(t)

\* "This must complete BEFORE the connection becomes available again": a
\* connection is reset between two sessions.  Not so when Signal passes it on.
HandoffClean == \A t \in Client : wconn[t] \notin dirty
=============================================================================
