--------------------------- MODULE ServerConnPool ---------------------------
(***************************************************************************)
(* The connection store of a pool: serverConnPool of pool.go (idle slice,  *)
(* idleIndex map, active map), ServerConn.Close and the memory accounting  *)
(* of the pool Manager (TryAlloc and Free of manager.go).                  *)
(*                                                                         *)
(* Every method of serverConnPool runs under its mutex, so each is one     *)
(* action.  A connection is identified with its id.  Ids are never reused  *)
(* by the code (connIDCounter); the model recycles an id only when nothing *)
(* in the pool mentions it any more (see Unknown).  The slice is 1-based.  *)
(*                                                                         *)
(* The specification at the end drives the store alone, through every      *)
(* method and with the arguments its callers may pass.  ConnPool reuses    *)
(* the same actions under the concurrent Acquire and Release.              *)
(***************************************************************************)
EXTENDS Integers, Sequences, FiniteSets

CONSTANTS
    Conn,       \* connection ids
    Backend,    \* backend addresses
    BackendOf,  \* the backend each connection id is dialled to
    MaxSize,    \* serverConnPool.maxSize: capacity of the idle slice
    MemLimit    \* globalMemoryLimit, in connections; 0 means no limit

ASSUME ServerConnAssumption ==
    /\ BackendOf \in [Conn -> Backend]
    /\ MaxSize \in Nat
    /\ MemLimit \in Nat
    /\ IsFiniteSet(Conn)

VARIABLES
    idle,       \* sequence of idle connections, most recently used last
    idleIndex,  \* connection -> its position in idle
    active,     \* connections handed out
    open,       \* connections whose socket is open and not yet Closed
    used        \* globalMemoryUsed, in units of connMemoryEstimate

storeVars == <<idle, idleIndex, active, open, used>>

IdleSet == {idle[i] : i \in DOMAIN idle}

\* len(p.idle) + len(p.active)
size == Len(idle) + Cardinality(active)

\* An id that no part of the store refers to.
Unknown(c) == c \notin open \cup active \cup IdleSet \cup DOMAIN idleIndex

(***************************************************************************)
(* Manager.TryAlloc: a compare-and-swap loop, so one atomic step.  With no *)
(* limit it succeeds without counting.                                     *)
(***************************************************************************)
CanAlloc == MemLimit = 0 \/ used + 1 <= MemLimit

TryAlloc == CanAlloc /\ used' = IF MemLimit = 0 THEN used ELSE used + 1

\* Manager.Free called n times: it never takes the counter below zero.
FreedBy(n) == IF used >= n THEN used - n ELSE 0

\* ServerConn.Close for every connection of S.  It is not idempotent: closing
\* a connection again frees its memory again.
Close(S) ==
    /\ open' = open \ S
    /\ used' = FreedBy(Cardinality(S))

----------------------------------------------------------------------------
\* Mutant: acquire takes the oldest connection and leaves the index as it is.
acquireOldest(c) ==
    /\ Len(idle) > 0
    /\ c = idle[1]
    /\ idle' = Tail(idle)
    /\ idleIndex' = [d \in DOMAIN idleIndex \ {c} |-> idleIndex[d]]
    /\ active' = active \cup {c}
    /\ UNCHANGED <<open, used>>

\* serverConnPool.acquire when the idle slice is not empty: LIFO.
acquire(c) ==
    /\ Len(idle) > 0
    /\ c = idle[Len(idle)]
    /\ idle' = SubSeq(idle, 1, Len(idle) - 1)
    /\ idleIndex' = [d \in DOMAIN idleIndex \ {c} |-> idleIndex[d]]
    /\ active' = active \cup {c}
    /\ UNCHANGED <<open, used>>

\* Mutant: a connection that does not go back is dropped without being closed.
releaseDropped(c, resetOk) ==
    /\ active' = active \ {c}
    /\ \/ /\ Len(idle) < MaxSize /\ resetOk
          /\ idleIndex' = [d \in DOMAIN idleIndex \cup {c} |->
                              IF d = c THEN Len(idle) + 1 ELSE idleIndex[d]]
          /\ idle' = Append(idle, c)
       \/ /\ Len(idle) >= MaxSize \/ ~resetOk
          /\ UNCHANGED <<idle, idleIndex>>
    /\ UNCHANGED <<open, used>>

\* serverConnPool.release: back to the idle slice when there is room and
\* ResetConnection succeeds, closed otherwise.
release(c, resetOk) ==
    /\ active' = active \ {c}
    /\ \/ /\ Len(idle) < MaxSize /\ resetOk
          /\ idleIndex' = [d \in DOMAIN idleIndex \cup {c} |->
                              IF d = c THEN Len(idle) + 1 ELSE idleIndex[d]]
          /\ idle' = Append(idle, c)
          /\ UNCHANGED <<open, used>>
       \/ /\ Len(idle) >= MaxSize \/ ~resetOk
          /\ Close({c})
          /\ UNCHANGED <<idle, idleIndex>>

\* serverConnPool.addActive
addActive(c) ==
    /\ active' = active \cup {c}
    /\ UNCHANGED <<idle, idleIndex, open, used>>

\* serverConnPool.remove: an idle connection is overwritten by the last one,
\* whose index is updated, and the slice is shortened.
remove(c) ==
    /\ active' = active \ {c}
    /\ UNCHANGED <<open, used>>
    /\ \/ /\ c \notin DOMAIN idleIndex
          /\ UNCHANGED <<idle, idleIndex>>
       \/ /\ c \in DOMAIN idleIndex
          /\ LET idx  == idleIndex[c]
                 last == Len(idle)
                 swapped == [i \in 1..(last - 1) |->
                                IF i = idx THEN idle[last] ELSE idle[i]]
             IN /\ idle' = swapped
                /\ idleIndex' = [d \in DOMAIN idleIndex \ {c} |->
                       IF idx # last /\ d = idle[last] THEN idx ELSE idleIndex[d]]

\* serverConnPool.closeAll.  The index map is left as it is.
closeAll ==
    /\ Close(IdleSet \cup active)
    /\ idle' = <<>>
    /\ active' = {}
    /\ UNCHANGED idleIndex

\* Mutant: closeBackend closes active connections with the idle ones.
closeBackendActive(b) ==
    LET gone == {c \in IdleSet \cup active : BackendOf[c] = b}
        keep(c) == c \notin gone
        kept == SelectSeq(idle, keep)
    IN /\ idle' = kept
       /\ idleIndex' = [d \in DOMAIN idleIndex \ gone |->
              IF d \in IdleSet THEN CHOOSE i \in DOMAIN kept : kept[i] = d
              ELSE idleIndex[d]]
       /\ Close(gone)
       /\ UNCHANGED active

\* serverConnPool.closeBackend: the idle connections of b are closed and the
\* others keep their order (pick is the increasing enumeration of the kept
\* positions).
closeBackend(b) ==
    LET kept == {i \in DOMAIN idle : BackendOf[idle[i]] # b}
        gone == {idle[i] : i \in DOMAIN idle \ kept}
    IN /\ \E n \in 0..Len(idle) : \E pick \in [1..n -> kept] :
             /\ \A i, j \in 1..n : i < j => pick[i] < pick[j]
             /\ \A k \in kept : \E i \in 1..n : pick[i] = k
             /\ idle' = [i \in 1..n |-> idle[pick[i]]]
             /\ idleIndex' = [d \in DOMAIN idleIndex \ gone |->
                    IF \E i \in 1..n : idle[pick[i]] = d
                    THEN CHOOSE i \in 1..n : idle[pick[i]] = d
                    ELSE idleIndex[d]]
       /\ Close(gone)
       /\ UNCHANGED active

----------------------------------------------------------------------------
InitStore ==
    /\ idle = <<>>
    /\ idleIndex = [c \in {} |-> 0]
    /\ active = {}
    /\ open = {}
    /\ used = 0

\* A new connection: memory reserved, dialled and registered as active.
Create(c) ==
    /\ Unknown(c)
    /\ TryAlloc
    /\ open' = open \cup {c}
    /\ active' = active \cup {c}
    /\ UNCHANGED <<idle, idleIndex>>

\* The store driven alone: a holder releases what it holds, once.
NextStore ==
    \/ \E c \in Conn : acquire(c)
    \/ \E c \in Conn : Create(c)
    \/ \E c \in active, ok \in BOOLEAN : release(c, ok)
    \/ \E c \in active \cup IdleSet : remove(c)
    \/ \E b \in Backend : closeBackend(b)
    \/ closeAll

SpecStore == InitStore /\ [][NextStore]_storeVars

----------------------------------------------------------------------------
\* Type invariant of the store.
StoreTypeOK ==
    /\ idle \in Seq(Conn)
    /\ DOMAIN idleIndex \subseteq Conn
    /\ \A c \in DOMAIN idleIndex : idleIndex[c] \in Nat \ {0}
    /\ active \subseteq Conn
    /\ open \subseteq Conn
    /\ used \in Nat

\* idleIndex always locates an idle connection where it really is, through
\* the pops, appends, swap-removals and compactions of the slice; so no
\* connection is in the idle slice twice (the comment on idleIndex: "conn ID
\* -> index in idle slice for O(1) removal").
IndexOK ==
    \A i \in DOMAIN idle : /\ idle[i] \in DOMAIN idleIndex
                           /\ idleIndex[idle[i]] = i

\* No connection is idle, or has an index left in idleIndex, while it is handed
\* out: otherwise remove would cut another connection out of the slice.
IdleNotActive == (IdleSet \cup DOMAIN idleIndex) \cap active = {}

\* The idle slice never outgrows maxSize, and whatever is idle or active has
\* not been closed: the store never hands out a connection it closed itself.
StoredOpen == /\ Len(idle) <= MaxSize
              /\ IdleSet \cup active \subseteq open

StoreInv == StoreTypeOK /\ IndexOK /\ IdleNotActive /\ StoredOpen
=============================================================================
