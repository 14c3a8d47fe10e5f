--------------------------- MODULE ConnPool_proofs ---------------------------
(***************************************************************************)
(* Proofs about the connection pool, for any number of clients, connections*)
(* and backends, any limits, with prefetching, removal of backends and     *)
(* closing going on.                                                       *)
(*                                                                         *)
(* The invariant Inv relates where a client is to what it refers to        *)
(* (PointOK), says that a queued waiter is in Wait, unserved and queued    *)
(* once (QueueOK), and that no two references are to the same connection   *)
(* (Private).  Queue facts are needed because Signal overwrites the conn   *)
(* field of the waiter it finds: had that waiter a connection already, it  *)
(* would be lost, and had it left, two clients could end up with one.      *)
(***************************************************************************)
EXTENDS ConnPool, SequenceTheorems, FiniteSetTheorems, TLAPS

\* The provers get more time than by default; a step that is left to Zenon says so.
USE SMTT(20), ZenonT(20)

(***************************************************************************)
(* The connection store: what each method of serverConnPool does to the    *)
(* idle slice, its index and the set of idle connections, and the          *)
(* invariant of the store.                                                 *)
(***************************************************************************)

\* acquire pops the last idle connection: the index of the others stays right.
LEMMA AcquireStore ==
    ASSUME StoreTypeOK, IndexOK, NEW c, acquire(c)
    PROVE  /\ StoreTypeOK' /\ IndexOK'
           /\ c \in Conn /\ c \in IdleSet
           /\ IdleSet' = IdleSet \ {c}
           /\ Len(idle') = Len(idle) - 1
<1> USE DEF StoreTypeOK, IndexOK, acquire, IdleSet
<1> DEFINE n == Len(idle)
<1>1. n \in Nat /\ n > 0 /\ DOMAIN idle = 1..n
  OBVIOUS
<1>2. idle' \in Seq(Conn) /\ Len(idle') = n - 1
      /\ \A i \in 1..(n-1) : idle'[i] = idle[i]
  BY <1>1, SubSeqProperties
<1>3. DOMAIN idle' = 1..(n-1)
  BY <1>2
<1>4. c = idle[n] /\ c \in Conn /\ c \in IdleSet
  BY <1>1
<1>5. \A i \in 1..(n-1) : idle[i] # c
  BY <1>1, <1>4
<1>6. IdleSet' = IdleSet \ {c}
  <2>1. ASSUME NEW d \in IdleSet' PROVE d \in IdleSet \ {c}
    BY <1>1, <1>2, <1>3, <1>5
  <2>2. ASSUME NEW d \in IdleSet \ {c} PROVE d \in IdleSet'
    <3>1. PICK i \in 1..n : d = idle[i]
      BY Zenon, <1>1, <2>2
    <3>2. i \in 1..(n-1)
      BY <1>1, <1>4, <2>2, <3>1
    <3> QED
      BY Zenon, <1>2, <1>3, <3>1, <3>2
  <2> QED
    BY Zenon, <2>1, <2>2
<1>7. StoreTypeOK'
  BY Zenon, <1>2, <1>4
<1>8. IndexOK'
  BY <1>1, <1>2, <1>3, <1>5
<1> QED
  BY Zenon, <1>2, <1>4, <1>6, <1>7, <1>8

\* release appends a connection that was not idle, or closes it.
LEMMA ReleaseStore ==
    ASSUME StoreTypeOK, IndexOK, NEW c \in Conn, NEW ok, c \notin IdleSet,
           release(c, ok), Len(idle) <= MaxSize
    PROVE  /\ StoreTypeOK' /\ IndexOK'
           /\ \/ IdleSet' = IdleSet \cup {c} /\ ok /\ Len(idle') = Len(idle) + 1
                 /\ open' = open /\ used' = used
              \/ IdleSet' = IdleSet /\ Close({c}) /\ idle' = idle
           /\ active' = active \ {c}
           /\ Len(idle') <= MaxSize
<1> USE DEF StoreTypeOK, IndexOK, IdleSet
<1> DEFINE n == Len(idle)
<1>0. n \in Nat /\ DOMAIN idle = 1..n
  OBVIOUS
<1>a. MaxSize \in Nat
  BY Zenon, ServerConnAssumption
<1>b. used' \in Nat /\ open' \subseteq Conn
  <2>1. CASE open' = open /\ used' = used
    BY Zenon, <2>1
  <2>2. CASE Close({c})
    <3>1. Cardinality({c}) = 1
      BY Zenon, FS_Singleton
    <3> QED
      BY <2>2, <3>1 DEF Close, FreedBy
  <2> QED
    BY Zenon, <2>1, <2>2 DEF release
<1>1. CASE /\ n < MaxSize /\ ok
           /\ idleIndex' = [d \in DOMAIN idleIndex \cup {c} |->
                               IF d = c THEN n + 1 ELSE idleIndex[d]]
           /\ idle' = Append(idle, c) /\ UNCHANGED <<open, used>>
           /\ active' = active \ {c}
  <2>1. /\ idle' \in Seq(Conn) /\ Len(idle') = n + 1 /\ DOMAIN idle' = 1..(n+1)
        /\ \A i \in 1..n : idle'[i] = idle[i]
        /\ idle'[n+1] = c
    BY <1>1, <1>0, AppendProperties
  <2>2. \A i \in 1..n : idle[i] # c
    BY Zenon, <1>0
  <2>3. StoreTypeOK'
    BY <1>1, <1>0, <1>b, <2>1
  <2>4. IndexOK'
    <3> TAKE i \in DOMAIN idle'
    <3>1. CASE i \in 1..n
      BY Zenon, <1>1, <1>0, <2>1, <2>2, <3>1
    <3>2. CASE i = n + 1
      BY Zenon, <1>1, <1>0, <2>1, <3>2
    <3> QED
      BY <1>0, <2>1, <3>1, <3>2
  <2>5. IdleSet' = IdleSet \cup {c}
    <3>1. ASSUME NEW d \in IdleSet' PROVE d \in IdleSet \cup {c}
      BY <1>0, <2>1
    <3>2. ASSUME NEW d \in IdleSet \cup {c} PROVE d \in IdleSet'
      <4>1. CASE d = c
        BY <1>0, <2>1, <4>1
      <4>2. CASE d \in IdleSet
        <5>1. PICK i \in 1..n : d = idle[i]
          BY Zenon, <1>0, <4>2
        <5>2. i \in 1..(n+1)
          BY <1>0
        <5> QED
          BY Zenon, <2>1, <5>1, <5>2
      <4> QED
        BY Zenon, <3>2, <4>1, <4>2
    <3> QED
      BY Zenon, <3>1, <3>2
  <2>6. Len(idle') <= MaxSize
    BY <1>1, <1>0, <1>a, <2>1
  <2> HIDE DEF StoreTypeOK, IndexOK, IdleSet
  <2> QED
    BY Zenon, <1>1, <2>1, <2>3, <2>4, <2>5, <2>6
<1>2. CASE Close({c}) /\ UNCHANGED <<idle, idleIndex>> /\ active' = active \ {c}
  BY Zenon, <1>2, <1>b
<1> QED
  BY Zenon, <1>1, <1>2 DEF release


\* closeBackend keeps the idle connections of other backends, in order.
LEMMA CloseBackendStore ==
    ASSUME StoreTypeOK, IndexOK, NEW b, closeBackend(b)
    PROVE  LET gone == {c \in IdleSet : BackendOf[c] = b}
           IN  /\ StoreTypeOK' /\ IndexOK'
               /\ IdleSet' = IdleSet \ gone
               /\ Close(gone) /\ active' = active
               /\ Len(idle') <= Len(idle)
<1> USE DEF StoreTypeOK, IndexOK, IdleSet
<1> DEFINE n == Len(idle)
           kept == {i \in DOMAIN idle : BackendOf[idle[i]] # b}
           gone == {c \in IdleSet : BackendOf[c] = b}
<1>0. n \in Nat /\ DOMAIN idle = 1..n /\ \A i \in 1..n : idle[i] \in Conn
  OBVIOUS
<1>1. gone = {idle[i] : i \in DOMAIN idle \ kept}
  <2>1. ASSUME NEW d \in gone PROVE d \in {idle[i] : i \in DOMAIN idle \ kept}
    BY Zenon
  <2>2. ASSUME NEW d \in {idle[i] : i \in DOMAIN idle \ kept} PROVE d \in gone
    BY Zenon
  <2> QED
    BY Zenon, <2>1, <2>2
<1> HIDE DEF gone
<1>2. PICK m \in 0..n : \E pick \in [1..m -> kept] :
             /\ \A i, j \in 1..m : i < j => pick[i] < pick[j]
             /\ \A k \in kept : \E i \in 1..m : pick[i] = k
             /\ idle' = [i \in 1..m |-> idle[pick[i]]]
             /\ idleIndex' = [d \in DOMAIN idleIndex \ gone |->
                    IF \E i \in 1..m : idle[pick[i]] = d
                    THEN CHOOSE i \in 1..m : idle[pick[i]] = d
                    ELSE idleIndex[d]]
  BY Zenon, <1>1 DEF closeBackend
<1>3. PICK pick \in [1..m -> kept] :
             /\ \A i, j \in 1..m : i < j => pick[i] < pick[j]
             /\ \A k \in kept : \E i \in 1..m : pick[i] = k
             /\ idle' = [i \in 1..m |-> idle[pick[i]]]
             /\ idleIndex' = [d \in DOMAIN idleIndex \ gone |->
                    IF \E i \in 1..m : idle[pick[i]] = d
                    THEN CHOOSE i \in 1..m : idle[pick[i]] = d
                    ELSE idleIndex[d]]
  BY Zenon, <1>2
<1>4. m \in Nat /\ m <= n
  BY <1>0
<1>5. \A i \in 1..m : pick[i] \in 1..n /\ BackendOf[idle[pick[i]]] # b
  BY Zenon, <1>0, <1>3
<1>6. idle' \in Seq(Conn) /\ Len(idle') = m /\ DOMAIN idle' = 1..m
      /\ \A i \in 1..m : idle'[i] = idle[pick[i]]
  <2>1. idle' \in [1..m -> Conn]
    BY Zenon, <1>0, <1>3, <1>5
  <2> QED
    BY <1>3, <1>4, <2>1, IsASeq, LenProperties
<1>7. \A i, j \in 1..m : idle[pick[i]] = idle[pick[j]] => i = j
  <2> SUFFICES ASSUME NEW i \in 1..m, NEW j \in 1..m,
                      idle[pick[i]] = idle[pick[j]]
               PROVE  i = j
    BY Zenon
  <2>1. pick[i] = pick[j]
    BY Zenon, <1>0, <1>5
  <2> QED
    BY <2>1, <1>3, <1>4, <1>5, <1>0
<1>8. \A i \in 1..m : idle'[i] \notin gone /\ idle'[i] \in IdleSet
  BY <1>0, <1>5, <1>6 DEF gone
<1>9. IndexOK'
  <2> SUFFICES ASSUME NEW i \in 1..m
               PROVE  idle'[i] \in DOMAIN idleIndex' /\ idleIndex'[idle'[i]] = i
    BY Zenon, <1>6
  <2>1. idle'[i] \in DOMAIN idleIndex \ gone
    BY Zenon, <1>0, <1>5, <1>6, <1>8
  <2>2. (CHOOSE j \in 1..m : idle[pick[j]] = idle'[i]) = i
    BY <1>6, <1>7
  <2> QED
    BY Zenon, <1>3, <1>6, <2>1, <2>2
<1>10. IdleSet' = IdleSet \ gone
  <2>1. ASSUME NEW d \in IdleSet' PROVE d \in IdleSet \ gone
    BY <1>6, <1>8
  <2>2. ASSUME NEW d \in IdleSet \ gone PROVE d \in IdleSet'
    <3>1. PICK k \in 1..n : d = idle[k]
      BY Zenon, <1>0, <2>2
    <3>2. k \in kept
      BY Zenon, <1>0, <2>2, <3>1 DEF gone
    <3>3. PICK i \in 1..m : pick[i] = k
      BY Zenon, <1>3, <3>2
    <3>4. i \in DOMAIN idle' /\ idle'[i] = d
      BY Zenon, <1>6, <3>1, <3>3
    <3> QED
      BY Zenon, <3>4
  <2> QED
    BY Zenon, <2>1, <2>2
<1>11. Close(gone) /\ active' = active
  BY Zenon, <1>1 DEF closeBackend
<1>12. IsFiniteSet(gone)
  <2>1. gone \subseteq Conn
    BY <1>0 DEF gone
  <2> QED
    BY Zenon, <2>1, ServerConnAssumption, FS_Subset
<1>13. StoreTypeOK'
  <2>1. used' \in Nat /\ open' \subseteq Conn
    BY <1>11, <1>12, FS_CardinalityType DEF Close, FreedBy
  <2>2. \A d \in DOMAIN idleIndex' : d \in Conn /\ idleIndex'[d] \in Nat \ {0}
    <3> SUFFICES ASSUME NEW d \in DOMAIN idleIndex \ gone
                 PROVE  d \in Conn /\ idleIndex'[d] \in Nat \ {0}
      BY Zenon, <1>3
    <3>1. CASE \E i \in 1..m : idle[pick[i]] = d
      <4> DEFINE j == CHOOSE i \in 1..m : idle[pick[i]] = d
      <4>1. j \in 1..m
        BY Zenon, <3>1
      <4>2. idleIndex'[d] = j
        BY Zenon, <1>3, <3>1
      <4> HIDE DEF j
      <4> QED
        BY <1>4, <4>1, <4>2
    <3>2. CASE ~\E i \in 1..m : idle[pick[i]] = d
      BY Zenon, <1>3, <3>2
    <3> QED
      BY Zenon, <3>1, <3>2
  <2> QED
    BY Zenon, <1>6, <1>11, <2>1, <2>2
<1>14. Len(idle') <= Len(idle)
  BY Zenon, <1>4, <1>6
<1> HIDE DEF StoreTypeOK, IndexOK, IdleSet
<1> QED
  BY Zenon, <1>9, <1>10, <1>11, <1>13, <1>14 DEF gone


\* remove takes an idle connection out by overwriting it with the last one.
LEMMA RemoveStore ==
    ASSUME StoreTypeOK, IndexOK, NEW c \in Conn, remove(c),
           c \in IdleSet \/ (c \in active /\ c \notin DOMAIN idleIndex)
    PROVE  /\ StoreTypeOK' /\ IndexOK'
           /\ IdleSet' \subseteq IdleSet \ {c}
           /\ open' = open /\ active' = active \ {c}
           /\ Len(idle') <= Len(idle)
<1> USE DEF StoreTypeOK, IndexOK, IdleSet
<1> DEFINE n == Len(idle)
           idx == idleIndex[c]
<1>0. n \in Nat /\ DOMAIN idle = 1..n /\ \A i \in 1..n : idle[i] \in Conn
  OBVIOUS
<1>1. CASE c \notin DOMAIN idleIndex
  <2>1. c \notin IdleSet
    BY Zenon, <1>1
  <2>2. UNCHANGED <<idle, idleIndex, open, used>> /\ active' = active \ {c}
    BY Zenon, <1>1 DEF remove
  <2> QED
    BY <1>0, <2>1, <2>2
<1>2. CASE c \in DOMAIN idleIndex
  <2>1. idx \in 1..n /\ idle[idx] = c
    BY <1>0, <1>2
  <2>2. /\ idle' = [i \in 1..(n-1) |-> IF i = idx THEN idle[n] ELSE idle[i]]
        /\ idleIndex' = [d \in DOMAIN idleIndex \ {c} |->
               IF idx # n /\ d = idle[n] THEN idx ELSE idleIndex[d]]
        /\ UNCHANGED <<open, used>> /\ active' = active \ {c}
    BY Zenon, <1>2 DEF remove
  <2>3. n - 1 \in Nat /\ n \in 1..n
    BY <1>0, <2>1
  <2>4. idle' \in Seq(Conn) /\ Len(idle') = n - 1 /\ DOMAIN idle' = 1..(n-1)
    <3>1. idle' \in [1..(n-1) -> Conn]
      BY <1>0, <2>2, <2>3
    <3> QED
      BY <2>2, <2>3, <3>1, IsASeq, LenProperties
  <2>5. ASSUME NEW i \in 1..(n-1)
        PROVE  /\ idle'[i] \in DOMAIN idleIndex \ {c}
               /\ idleIndex'[idle'[i]] = i
               /\ idle'[i] \in IdleSet
    <3>1. i \in 1..n /\ i # n
      BY <2>3
    <3>2. CASE i = idx
      <4>1. idle'[i] = idle[n] /\ idx # n
        BY Zenon, <2>2, <3>1, <3>2
      <4>2. idle[n] # c /\ idle[n] \in DOMAIN idleIndex
        BY Zenon, <1>0, <2>1, <2>3, <4>1
      <4> QED
        BY Zenon, <1>0, <2>2, <2>3, <3>2, <4>1, <4>2
    <3>3. CASE i # idx
      <4>1. idle'[i] = idle[i]
        BY Zenon, <2>2, <3>3
      <4>2. idle[i] # c /\ idle[i] \in DOMAIN idleIndex /\ idle[i] # idle[n]
        BY Zenon, <1>0, <2>1, <2>3, <3>1, <3>3
      <4> QED
        BY Zenon, <1>0, <2>2, <3>1, <4>1, <4>2
    <3> QED
      BY Zenon, <3>2, <3>3
  <2>6. IndexOK'
    BY Zenon, <2>2, <2>4, <2>5
  <2>7. IdleSet' \subseteq IdleSet \ {c}
    BY <2>4, <2>5
  <2>8. StoreTypeOK'
    BY Zenon, <2>1, <2>2, <2>4, <1>0
  <2>9. Len(idle') <= Len(idle)
    BY <1>0, <2>4
  <2> HIDE DEF StoreTypeOK, IndexOK, IdleSet
  <2> QED
    BY Zenon, <2>2, <2>6, <2>7, <2>8, <2>9
<1> QED
  BY Zenon, <1>1, <1>2

\* closeAll empties the store.
LEMMA CloseAllStore ==
    ASSUME StoreTypeOK, closeAll
    PROVE  StoreTypeOK' /\ IndexOK' /\ IdleSet' = {} /\ active' = {} /\ Len(idle') = 0
<1> DEFINE S == IdleSet \cup active
<1>1. S \subseteq Conn
  BY DEF StoreTypeOK, IdleSet
<1>2. IsFiniteSet(S)
  BY Zenon, <1>1, ServerConnAssumption, FS_Subset
<1>3. used' \in Nat /\ open' \subseteq Conn
  BY <1>2, FS_CardinalityType DEF Close, FreedBy, closeAll, StoreTypeOK
<1>4. idle' = <<>> /\ active' = {} /\ idleIndex' = idleIndex
  BY Zenon DEF closeAll
<1>5. IdleSet' = {} /\ IndexOK' /\ Len(idle') = 0
  BY <1>4 DEF IdleSet, IndexOK
<1> QED
  BY <1>3, <1>4, <1>5 DEF StoreTypeOK


\* The invariant of the store: through any sequence of acquire, addActive,
\* release, remove, closeBackend and closeAll the index stays exact, idle and
\* active stay disjoint, nothing stored has been closed and the idle slice
\* stays within maxSize.
THEOREM StoreCorrect == SpecStore => []StoreInv
<1>1. InitStore => StoreInv
  BY ServerConnAssumption
  DEF InitStore, StoreInv, StoreTypeOK, IndexOK, IdleNotActive, StoredOpen, IdleSet
<1>2. StoreInv /\ [NextStore]_storeVars => StoreInv'
  <2> SUFFICES ASSUME StoreInv, [NextStore]_storeVars PROVE StoreInv'
    BY Zenon
  <2>0. /\ StoreTypeOK /\ IndexOK /\ Len(idle) <= MaxSize
        /\ (IdleSet \cup DOMAIN idleIndex) \cap active = {}
        /\ IdleSet \cup active \subseteq open
        /\ IdleSet \subseteq Conn /\ active \subseteq Conn
        /\ Len(idle) \in Nat /\ MaxSize \in Nat
    BY ServerConnAssumption
    DEF StoreInv, IdleNotActive, StoredOpen, StoreTypeOK, IdleSet
  <2>1. ASSUME NEW c \in Conn, acquire(c) PROVE StoreInv'
    <3>1. /\ StoreTypeOK' /\ IndexOK' /\ c \in IdleSet
          /\ IdleSet' = IdleSet \ {c} /\ Len(idle') = Len(idle) - 1
      BY Zenon, <2>0, <2>1, AcquireStore
    <3>2. /\ active' = active \cup {c} /\ open' = open
          /\ DOMAIN idleIndex' = DOMAIN idleIndex \ {c}
      BY Zenon, <2>1 DEF acquire
    <3> QED
      BY <2>0, <3>1, <3>2 DEF StoreInv, IdleNotActive, StoredOpen
  <2>2. ASSUME NEW c \in Conn, Create(c) PROVE StoreInv'
    <3>1. /\ Unknown(c) /\ open' = open \cup {c} /\ active' = active \cup {c}
          /\ UNCHANGED <<idle, idleIndex>> /\ used' \in Nat
      BY <2>0, <2>2 DEF Create, TryAlloc, StoreTypeOK
    <3>2. StoreTypeOK' /\ IndexOK' /\ IdleSet' = IdleSet
      BY Zenon, <2>0, <3>1 DEF StoreTypeOK, IndexOK, IdleSet
    <3> QED
      BY Zenon, <2>0, <3>1, <3>2 DEF StoreInv, IdleNotActive, StoredOpen, Unknown
  <2>3. ASSUME NEW c \in active, NEW ok \in BOOLEAN, release(c, ok) PROVE StoreInv'
    <3>1. c \in Conn /\ c \notin IdleSet /\ c \in open
      BY Zenon, <2>0
    <3>2. /\ StoreTypeOK' /\ IndexOK' /\ active' = active \ {c}
          /\ \/ IdleSet' = IdleSet \cup {c} /\ open' = open
             \/ IdleSet' = IdleSet /\ Close({c})
          /\ Len(idle') <= MaxSize
      BY Zenon, <2>0, <2>3, <3>1, ReleaseStore
    <3>3. DOMAIN idleIndex' \subseteq DOMAIN idleIndex \cup {c}
      BY Zenon, <2>3 DEF release
    <3> QED
      BY Zenon, <2>0, <3>1, <3>2, <3>3 DEF StoreInv, IdleNotActive, StoredOpen, Close
  <2>4. ASSUME NEW c \in active \cup IdleSet, remove(c) PROVE StoreInv'
    <3>1. /\ StoreTypeOK' /\ IndexOK' /\ IdleSet' \subseteq IdleSet \ {c}
          /\ open' = open /\ active' = active \ {c} /\ Len(idle') <= Len(idle)
      BY Zenon, <2>0, <2>4, RemoveStore
    <3>2. DOMAIN idleIndex' \subseteq DOMAIN idleIndex
      BY Zenon, <2>4 DEF remove
    <3>3. Len(idle') \in Nat
      BY <3>1 DEF StoreTypeOK
    <3> QED
      BY <2>0, <3>1, <3>2, <3>3 DEF StoreInv, IdleNotActive, StoredOpen
  <2>5. ASSUME NEW b \in Backend, closeBackend(b) PROVE StoreInv'
    <3> DEFINE gone == {c \in IdleSet : BackendOf[c] = b}
    <3>1. /\ StoreTypeOK' /\ IndexOK' /\ IdleSet' = IdleSet \ gone
          /\ Close(gone) /\ active' = active /\ Len(idle') <= Len(idle)
      BY Zenon, <2>0, <2>5, CloseBackendStore
    <3>2. DOMAIN idleIndex' \subseteq DOMAIN idleIndex
      BY Zenon, <2>5 DEF closeBackend
    <3>3. Len(idle') \in Nat
      BY <3>1 DEF StoreTypeOK
    <3> QED
      BY <2>0, <3>1, <3>2, <3>3 DEF StoreInv, IdleNotActive, StoredOpen, Close
  <2>6. ASSUME closeAll PROVE StoreInv'
    BY <2>0, <2>6, CloseAllStore DEF StoreInv, IdleNotActive, StoredOpen
  <2>7. ASSUME UNCHANGED storeVars PROVE StoreInv'
    BY <2>7 DEF storeVars, StoreInv, StoreTypeOK, IndexOK, IdleNotActive,
                StoredOpen, IdleSet
  <2> QED
    BY Zenon, <2>1, <2>2, <2>3, <2>4, <2>5, <2>6, <2>7 DEF NextStore
<1> QED
  BY <1>1, <1>2, PTL DEF SpecStore
------------------------------------------------------------------------------
(* The pool *)

HasConn == {"dial", "add", "holding", "returning"}

PointOK == \A t \in Client :
    /\ conn[t] # NoConn <=> pc[t] \in HasConn
    /\ wconn[t] # NoConn => pc[t] \in {"waiting", "leaving"}

QueueOK == \A i \in DOMAIN queue : queue[i] # Hole =>
    /\ pc[queue[i]] \in {"waiting", "leaving"}
    /\ wconn[queue[i]] = NoConn
    /\ \A j \in DOMAIN queue : queue[j] = queue[i] => j = i

Private == \A t, u \in Client :
    /\ t # u /\ conn[t] # NoConn => conn[t] # conn[u]
    /\ conn[t] # NoConn => conn[t] # wconn[u]
    /\ t # u /\ wconn[t] # NoConn => wconn[t] # wconn[u]
    /\ conn[t] \notin IdleSet /\ wconn[t] \notin IdleSet

Inv == /\ TypeOK /\ IndexOK /\ Len(idle) <= MaxSize
       /\ PointOK /\ QueueOK /\ Private

\* Inv implies what the run checks.
LEMMA InvExclusive == Inv => ExclusiveOwnership
<1> SUFFICES ASSUME Inv PROVE ExclusiveOwnership
  BY Zenon
<1>1. \A t, u \in Client : t # u => Owned(t) \cap Owned(u) = {}
  BY Zenon DEF Inv, Private, Owned
<1>2. \A t \in Client : Owned(t) \cap IdleSet = {}
  BY Zenon DEF Inv, Private, Owned
<1>3. \A i, j \in DOMAIN idle : i # j => idle[i] # idle[j]
  BY Zenon DEF Inv, IndexOK
<1> QED
  BY Zenon, <1>1, <1>2, <1>3 DEF ExclusiveOwnership

\* A client moves on with what it has, or drops it; nobody else is concerned.
LEMMA Move ==
    ASSUME Inv, NEW t \in Client, NEW p \in PC, NEW c \in {conn[t], NoConn},
           pc' = [pc EXCEPT ![t] = p], conn' = [conn EXCEPT ![t] = c],
           (c # NoConn) <=> (p \in HasConn),
           pc[t] \in {"waiting", "leaving"} => p \in {"waiting", "leaving"},
           wconn' = wconn, queue' = queue \/ queue' = <<>>,
           IdleSet' \subseteq IdleSet
    PROVE  PointOK' /\ QueueOK' /\ Private'
<1> USE DEF Inv, TypeOK
<1>0. pc \in [Client -> PC] /\ conn \in [Client -> Conn \cup {NoConn}]
  BY Zenon
<1>1. PointOK'
  BY Zenon, <1>0 DEF PointOK, HasConn
<1>2. QueueOK'
  <2>1. CASE queue' = <<>>
    BY <2>1 DEF QueueOK
  <2>2. CASE queue' = queue
    <3>1. ASSUME NEW i \in DOMAIN queue, queue[i] # Hole
          PROVE  pc'[queue[i]] \in {"waiting", "leaving"}
      <4>1. queue[i] \in Client /\ pc[queue[i]] \in {"waiting", "leaving"}
        BY <3>1 DEF QueueOK
      <4> QED
        BY Zenon, <1>0, <4>1
    <3> QED
      BY Zenon, <2>2, <3>1 DEF QueueOK
  <2> QED
    BY Zenon, <2>1, <2>2
<1>3. Private'
  <2> SUFFICES ASSUME NEW u \in Client, NEW v \in Client
               PROVE  /\ u # v /\ conn'[u] # NoConn => conn'[u] # conn'[v]
                      /\ conn'[u] # NoConn => conn'[u] # wconn[v]
                      /\ u # v /\ wconn[u] # NoConn => wconn[u] # wconn[v]
                      /\ conn'[u] \notin IdleSet' /\ wconn[u] \notin IdleSet'
    BY Zenon DEF Private
  <2>1. \A w \in Client : conn'[w] = conn[w] \/ conn'[w] = NoConn
    BY Zenon, <1>0
  <2>2. NoConn \notin IdleSet
    BY ConnPoolAssumption DEF IdleSet, StoreTypeOK
  <2> HIDE DEF Inv, TypeOK
  <2> QED
    BY Zenon, <2>1, <2>2 DEF Inv, Private
<1> QED
  BY Zenon, <1>1, <1>2, <1>3

\* Other goroutines change nothing that clients refer to.
LEMMA Keep ==
    ASSUME Inv, pc' = pc, conn' = conn, wconn' = wconn, queue' = queue,
           IdleSet' \subseteq IdleSet
    PROVE  PointOK' /\ QueueOK' /\ Private'
BY Zenon DEF Inv, PointOK, QueueOK, Private

\* The idle slice and its index are left alone.
LEMMA SameIdle ==
    ASSUME Inv, idle' = idle, idleIndex' = idleIndex
    PROVE  IndexOK' /\ Len(idle') <= MaxSize /\ IdleSet' = IdleSet
BY Zenon DEF Inv, IndexOK, IdleSet

\* Steps of Acquire and Release that only move the client on.
LEMMA InvMove ==
    ASSUME Inv, NEW t \in Client,
           \/ Begin(t) \/ NoIdle(t) \/ CheckSize(t) \/ Reserve(t) \/ SelectNone(t)
           \/ Dial(t) \/ DialFails(t) \/ AddActive(t) \/ TimeOut(t) \/ NobodyWaits(t)
    PROVE  Inv'
<1>0. /\ TypeOK /\ pc \in [Client -> PC] /\ conn \in [Client -> Conn \cup {NoConn}]
      /\ conn[t] # NoConn <=> pc[t] \in HasConn
  BY Zenon DEF Inv, TypeOK, PointOK
<1>1. idle' = idle /\ idleIndex' = idleIndex /\ wconn' = wconn
      /\ (queue' = queue \/ queue' = <<>>)
  BY Zenon DEF Begin, NoIdle, CheckSize, Reserve, SelectNone, Dial, DialFails, AddActive,
         TimeOut, NobodyWaits, storeVars, waitVars, addActive, SignalNobody
<1>2. \E p \in PC, c \in {conn[t], NoConn} :
          /\ pc' = [pc EXCEPT ![t] = p] /\ conn' = [conn EXCEPT ![t] = c]
          /\ (c # NoConn) <=> (p \in HasConn)
          /\ pc[t] \in {"waiting", "leaving"} => p \in {"waiting", "leaving"}
  <2> USE <1>0 DEF PC, Acquiring, Reserved, HasConn, Goto
  <2>1. CASE Begin(t)
    BY Zenon, <2>1 DEF Begin
  <2>2. CASE NoIdle(t)
    BY Zenon, <2>2 DEF NoIdle
  <2>3. CASE CheckSize(t)
    BY Zenon, <2>3 DEF CheckSize
  <2>4. CASE Reserve(t)
    BY Zenon, <2>4 DEF Reserve
  <2>5. CASE SelectNone(t)
    <3>1. conn[t] = NoConn /\ conn' = [conn EXCEPT ![t] = NoConn]
      BY Zenon, <2>5 DEF SelectNone
    <3> QED
      BY Zenon, <2>5, <3>1 DEF SelectNone
  <2>6. CASE Dial(t)
    <3>1. conn[t] # NoConn /\ conn' = [conn EXCEPT ![t] = conn[t]]
      BY Zenon, <2>6 DEF Dial
    <3> QED
      BY Zenon, <2>6, <3>1 DEF Dial
  <2>7. CASE DialFails(t)
    BY Zenon, <2>7 DEF DialFails
  <2>8. CASE AddActive(t)
    BY Zenon, <2>8 DEF AddActive
  <2>9. CASE TimeOut(t)
    BY Zenon, <2>9 DEF TimeOut
  <2>10. CASE NobodyWaits(t)
    BY Zenon, <2>10 DEF NobodyWaits
  <2> QED
    BY Zenon, <2>1, <2>2, <2>3, <2>4, <2>5, <2>6, <2>7, <2>8, <2>9, <2>10
<1>3. IndexOK' /\ Len(idle') <= MaxSize /\ IdleSet' = IdleSet
  BY Zenon, <1>1, SameIdle
<1>4. PointOK' /\ QueueOK' /\ Private'
  BY Zenon, <1>1, <1>2, <1>3, Move
<1>5. TypeOK'
  <2>1. pc' \in [Client -> PC] /\ conn' \in [Client -> Conn \cup {NoConn}]
    BY ZenonT(30), <1>0, <1>2
  <2>2. conn[t] # NoConn => conn[t] \in Conn
    BY Zenon, <1>0
  <2>3. active' \subseteq Conn /\ open' \subseteq Conn /\ dirty' \subseteq Conn
    BY Zenon, <1>0, <2>2
    DEF TypeOK, StoreTypeOK, HasConn, Begin, NoIdle, CheckSize, Reserve, SelectNone,
        Dial, DialFails, AddActive, TimeOut, NobodyWaits, storeVars, addActive
  <2>4. used' \in Nat
    <3>1. used' = used \/ TryAlloc \/ used' = FreedBy(1)
      BY Zenon DEF Begin, NoIdle, CheckSize, Reserve, SelectNone, Dial, DialFails,
             AddActive, TimeOut, NobodyWaits, storeVars, addActive
    <3>2. used \in Nat
      BY Zenon, <1>0 DEF TypeOK, StoreTypeOK
    <3> QED
      BY <3>1, <3>2 DEF TryAlloc, FreedBy
  <2>5. tries' \in [Client -> Nat]
    <3>1. \/ tries' = tries \/ tries' = [tries EXCEPT ![t] = 0]
          \/ tries' = [tries EXCEPT ![t] = @ + 1]
      BY Zenon DEF Begin, NoIdle, CheckSize, Reserve, SelectNone, Dial, DialFails,
             AddActive, TimeOut, NobodyWaits, Goto
    <3>2. tries \in [Client -> Nat]
      BY Zenon, <1>0 DEF TypeOK
    <3> QED
      BY <3>1, <3>2
  <2>6. UNCHANGED otherVars
    BY Zenon DEF Begin, NoIdle, CheckSize, Reserve, SelectNone,
        Dial, DialFails, AddActive, TimeOut, NobodyWaits
  <2>7. queue' \in Seq(Client \cup {Hole})
    <3>1. queue \in Seq(Client \cup {Hole})
      BY Zenon, <1>0 DEF TypeOK
    <3>2. <<>> \in Seq(Client \cup {Hole})
      BY Zenon, EmptySeq
    <3> QED
      BY Zenon, <1>1, <3>1, <3>2
  <2> QED
    BY Zenon, <1>0, <1>1, <2>1, <2>3, <2>4, <2>5, <2>6, <2>7
    DEF TypeOK, StoreTypeOK, otherVars, prefetchVars, adminVars
<1> QED
  BY Zenon, <1>3, <1>4, <1>5 DEF Inv

\* A client gets a connection that nobody refers to and that is not idle
\* afterwards: an idle one that it pops, or a new one.
LEMMA Gain ==
    ASSUME Inv, NEW t \in Client, NEW p \in HasConn, NEW c \in Conn,
           pc' = [pc EXCEPT ![t] = p], conn' = [conn EXCEPT ![t] = c],
           pc[t] \notin HasConn \cup {"waiting", "leaving"},
           wconn' = wconn, queue' = queue,
           \A u \in Client : conn[u] # c /\ wconn[u] # c,
           IdleSet' \subseteq IdleSet \ {c}
    PROVE  PointOK' /\ QueueOK' /\ Private' /\ pc' \in [Client -> PC]
           /\ conn' \in [Client -> Conn \cup {NoConn}]
<1>0. /\ pc \in [Client -> PC] /\ conn \in [Client -> Conn \cup {NoConn}]
      /\ queue \in Seq(Client \cup {Hole}) /\ c # NoConn /\ p \in PC
  BY Zenon, ConnPoolAssumption DEF Inv, TypeOK, HasConn, PC, Acquiring, Reserved
<1>1. PointOK'
  BY Zenon, <1>0 DEF Inv, PointOK, HasConn
<1>2. QueueOK'
  <2>1. ASSUME NEW i \in DOMAIN queue, queue[i] # Hole
        PROVE  queue[i] \in Client /\ pc'[queue[i]] \in {"waiting", "leaving"}
    BY <1>0, <2>1 DEF Inv, QueueOK
  <2> QED
    BY Zenon, <2>1 DEF Inv, QueueOK
<1>3. Private'
  <2> SUFFICES ASSUME NEW u \in Client, NEW v \in Client
               PROVE  /\ u # v /\ conn'[u] # NoConn => conn'[u] # conn'[v]
                      /\ conn'[u] # NoConn => conn'[u] # wconn[v]
                      /\ u # v /\ wconn[u] # NoConn => wconn[u] # wconn[v]
                      /\ conn'[u] \notin IdleSet' /\ wconn[u] \notin IdleSet'
    BY Zenon DEF Private
  <2>1. \A w \in Client : conn'[w] = IF w = t THEN c ELSE conn[w]
    BY Zenon, <1>0
  <2> QED
    BY <2>1 DEF Inv, Private
<1> QED
  BY Zenon, <1>0, <1>1, <1>2, <1>3

\* acquire moves a connection from the idle slice to one client.
LEMMA InvTakeIdle ==
    ASSUME Inv, NEW t \in Client, TakeIdle(t)
    PROVE  Inv'
<1>1. PICK c \in Conn : acquire(c) /\ Goto(t, "holding", c)
  BY Zenon DEF TakeIdle
<1>2. /\ StoreTypeOK' /\ IndexOK' /\ c \in IdleSet
      /\ IdleSet' = IdleSet \ {c} /\ Len(idle') = Len(idle) - 1
  BY Zenon, <1>1, AcquireStore DEF Inv, TypeOK
<1>3. \A u \in Client : conn[u] # c /\ wconn[u] # c
  BY Zenon, <1>2 DEF Inv, Private
<1>4. PointOK' /\ QueueOK' /\ Private' /\ pc' \in [Client -> PC]
      /\ conn' \in [Client -> Conn \cup {NoConn}]
  BY Zenon, <1>1, <1>2, <1>3, Gain DEF TakeIdle, Goto, HasConn, waitVars
<1>5. TypeOK'
  BY Zenon, <1>1, <1>2, <1>4
  DEF Inv, TypeOK, TakeIdle, Goto, waitVars, otherVars, prefetchVars, adminVars
<1>6. Len(idle') <= MaxSize
  BY <1>2, ServerConnAssumption DEF Inv, TypeOK, StoreTypeOK
<1> QED
  BY Zenon, <1>2, <1>4, <1>5, <1>6 DEF Inv

\* A new id is nobody else's.
LEMMA InvSelect ==
    ASSUME Inv, NEW t \in Client, Select(t)
    PROVE  Inv'
<1>1. PICK c \in Conn : Fresh(c) /\ Goto(t, "dial", c)
  BY Zenon DEF Select
<1>2. /\ idle' = idle /\ idleIndex' = idleIndex /\ active' = active
      /\ open' = open /\ used' = used
  BY Zenon DEF Select, storeVars
<1>3. IndexOK' /\ Len(idle') <= MaxSize /\ IdleSet' = IdleSet
  BY Zenon, <1>2, SameIdle
<1>4. c \notin IdleSet /\ \A u \in Client : conn[u] # c /\ wconn[u] # c
  BY Zenon, <1>1 DEF Fresh, Unknown
<1>5. PointOK' /\ QueueOK' /\ Private' /\ pc' \in [Client -> PC]
      /\ conn' \in [Client -> Conn \cup {NoConn}]
  BY ZenonT(30), <1>1, <1>3, <1>4, Gain DEF Select, Goto, HasConn, waitVars
<1>6. TypeOK'
  BY Zenon, <1>1, <1>2, <1>5 DEF Inv, TypeOK, StoreTypeOK, Select, Goto, waitVars,
                          otherVars, prefetchVars, adminVars
<1> QED
  BY Zenon, <1>3, <1>5, <1>6 DEF Inv

\* A client joins the queue once, unserved.
LEMMA InvJoinQueue ==
    ASSUME Inv, NEW t \in Client, JoinQueue(t)
    PROVE  Inv'
<1> USE DEF Goto
<1>0. /\ pc \in [Client -> PC] /\ conn \in [Client -> Conn \cup {NoConn}]
      /\ queue \in Seq(Client \cup {Hole}) /\ pc[t] = "enqueue"
      /\ conn[t] = NoConn /\ wconn[t] = NoConn
  BY Zenon DEF Inv, TypeOK, PointOK, HasConn, JoinQueue
<1>1. /\ idle' = idle /\ idleIndex' = idleIndex /\ active' = active
      /\ open' = open /\ used' = used /\ wconn' = wconn /\ dirty' = dirty
      /\ tries' = tries /\ UNCHANGED otherVars
  BY Zenon DEF JoinQueue, storeVars, waitVars, Enqueue
<1>2. IndexOK' /\ Len(idle') <= MaxSize /\ IdleSet' = IdleSet
  BY Zenon, <1>1, SameIdle
<1>3. CASE QueueFull /\ Goto(t, "out", NoConn) /\ UNCHANGED waitVars
  <2>1. PointOK' /\ QueueOK' /\ Private'
    BY Zenon, <1>0, <1>2, <1>3, Move DEF PC, HasConn, waitVars
  <2>2. TypeOK'
    BY Zenon, <1>0, <1>1, <1>3 DEF Inv, TypeOK, StoreTypeOK, waitVars, otherVars,
                            prefetchVars, adminVars, PC
  <2> QED
    BY Zenon, <1>2, <2>1, <2>2 DEF Inv
<1>4. CASE Enqueue(t) /\ Goto(t, "waiting", NoConn)
  <2> DEFINE n == Len(queue)
  <2>1. /\ n \in Nat /\ DOMAIN queue = 1..n
        /\ queue' \in Seq(Client \cup {Hole}) /\ DOMAIN queue' = 1..(n+1)
        /\ \A i \in 1..n : queue'[i] = queue[i]
        /\ queue'[n+1] = t
    BY <1>0, <1>4, AppendProperties DEF Enqueue
  <2>2. \A i \in 1..n : queue[i] # t
    BY Zenon, <1>0, <2>1, ConnPoolAssumption DEF Inv, QueueOK
  <2>3. PointOK'
    BY Zenon, <1>0, <1>1, <1>4 DEF Inv, PointOK, HasConn
  <2>4. Private'
    <3>1. conn' = conn
      BY Zenon, <1>0, <1>4
    <3> QED
      BY Zenon, <1>1, <1>2, <3>1 DEF Inv, Private
  <2>5. QueueOK'
    <3> SUFFICES ASSUME NEW i \in 1..(n+1), queue'[i] # Hole
                 PROVE  /\ pc'[queue'[i]] \in {"waiting", "leaving"}
                        /\ wconn[queue'[i]] = NoConn
                        /\ \A j \in 1..(n+1) : queue'[j] = queue'[i] => j = i
      BY Zenon, <1>1, <2>1 DEF QueueOK
    <3>1. CASE i = n + 1
      BY <1>0, <1>4, <2>1, <2>2, <3>1
    <3>2. CASE i \in 1..n
      <4>1. queue[i] \in Client /\ queue[i] # t /\ queue'[i] = queue[i]
        BY <1>0, <2>1, <2>2, <3>2
      <4>2. /\ pc[queue[i]] \in {"waiting", "leaving"} /\ wconn[queue[i]] = NoConn
            /\ \A j \in 1..n : queue[j] = queue[i] => j = i
        BY Zenon, <2>1, <3>2, <4>1 DEF Inv, QueueOK
      <4> QED
        BY <1>0, <1>4, <2>1, <4>1, <4>2
    <3> QED
      BY <2>1, <3>1, <3>2
  <2>6. TypeOK'
    BY Zenon, <1>0, <1>1, <1>4, <2>1 DEF Inv, TypeOK, StoreTypeOK, otherVars,
                                 prefetchVars, adminVars, PC, Acquiring
  <2> QED
    BY Zenon, <1>2, <2>3, <2>4, <2>5, <2>6 DEF Inv
<1> QED
  BY Zenon, <1>3, <1>4 DEF JoinQueue

\* Waking moves the delivered connection from the waiter to its client.
LEMMA InvWake ==
    ASSUME Inv, NEW t \in Client, Wake(t)
    PROVE  Inv'
<1>0. /\ pc \in [Client -> PC] /\ conn \in [Client -> Conn \cup {NoConn}]
      /\ wconn \in [Client -> Conn \cup {NoConn}]
      /\ queue \in Seq(Client \cup {Hole}) /\ pc[t] = "waiting"
      /\ conn[t] = NoConn /\ wconn[t] # NoConn
  BY Zenon DEF Inv, TypeOK, PointOK, HasConn, Wake, Receive
<1>1. /\ idle' = idle /\ idleIndex' = idleIndex /\ active' = active
      /\ open' = open /\ used' = used /\ queue' = queue /\ dirty' = dirty
      /\ tries' = tries /\ UNCHANGED otherVars
      /\ pc' = [pc EXCEPT ![t] = "holding"]
      /\ conn' = [conn EXCEPT ![t] = wconn[t]]
      /\ wconn' = [wconn EXCEPT ![t] = NoConn]
  BY Zenon DEF Wake, storeVars, Receive, Goto
<1>2. IndexOK' /\ Len(idle') <= MaxSize /\ IdleSet' = IdleSet
  BY Zenon, <1>1, SameIdle
<1>3. PointOK'
  BY Zenon, <1>0, <1>1 DEF Inv, PointOK, HasConn
<1>4. QueueOK'
  <2>1. ASSUME NEW i \in DOMAIN queue, queue[i] # Hole
        PROVE  /\ queue[i] # t /\ pc'[queue[i]] \in {"waiting", "leaving"}
               /\ wconn'[queue[i]] = NoConn
    <3>1. queue[i] \in Client /\ queue[i] # t
      BY <1>0, <2>1 DEF Inv, QueueOK
    <3> QED
      BY Zenon, <1>0, <1>1, <2>1, <3>1 DEF Inv, QueueOK
  <2> QED
    BY Zenon, <1>1, <2>1 DEF Inv, QueueOK
<1>5. Private'
  <2> SUFFICES ASSUME NEW u \in Client, NEW v \in Client
               PROVE  /\ u # v /\ conn'[u] # NoConn => conn'[u] # conn'[v]
                      /\ conn'[u] # NoConn => conn'[u] # wconn'[v]
                      /\ u # v /\ wconn'[u] # NoConn => wconn'[u] # wconn'[v]
                      /\ conn'[u] \notin IdleSet /\ wconn'[u] \notin IdleSet
    BY Zenon, <1>2 DEF Private
  <2>1. \A w \in Client : /\ conn'[w] = IF w = t THEN wconn[t] ELSE conn[w]
                          /\ wconn'[w] = IF w = t THEN NoConn ELSE wconn[w]
    BY Zenon, <1>0, <1>1
  <2>2. NoConn \notin IdleSet
    BY ConnPoolAssumption DEF Inv, TypeOK, IdleSet, StoreTypeOK
  <2> QED
    BY <1>0, <2>1, <2>2 DEF Inv, Private
<1>6. TypeOK'
  BY Zenon, <1>0, <1>1 DEF Inv, TypeOK, StoreTypeOK, otherVars, prefetchVars, adminVars, PC
<1> QED
  BY Zenon, <1>2, <1>3, <1>4, <1>5, <1>6 DEF Inv

\* Wait's clean-up takes exactly the entry of the client that leaves.
LEMMA LeaveRemoves ==
    ASSUME Inv, NEW t \in Client, Leave(t)
    PROVE  /\ queue' \in Seq(Client \cup {Hole})
           /\ \A i \in DOMAIN queue' : queue'[i] # t
           /\ \A i \in DOMAIN queue' : queue'[i] # Hole =>
                 \E k \in DOMAIN queue :
                    /\ queue[k] = queue'[i]
                    /\ \A j \in DOMAIN queue' : queue'[j] = queue'[i] => j = i
<1> DEFINE n == Len(queue)
<1>0. /\ queue \in Seq(Client \cup {Hole}) /\ n \in Nat /\ DOMAIN queue = 1..n
      /\ \A i \in 1..n : queue[i] \in Client \cup {Hole}
      /\ t # Hole
  BY ConnPoolAssumption DEF Inv, TypeOK
<1>a. \A i, j \in 1..n : queue[i] # Hole /\ queue[j] = queue[i] => j = i
  BY Zenon, <1>0 DEF Inv, QueueOK
<1>1. CASE (\A i \in DOMAIN queue : queue[i] # t) /\ UNCHANGED queue
  BY Zenon, <1>0, <1>1, <1>a
<1>2. CASE queue # <<>> /\ queue[1] = t /\ queue' = Tail(queue)
  <2>1. /\ n > 0 /\ queue' \in Seq(Client \cup {Hole}) /\ DOMAIN queue' = 1..(n-1)
        /\ \A i \in 1..(n-1) : i + 1 \in 1..n /\ queue'[i] = queue[i+1]
    BY <1>0, <1>2, HeadTailProperties, EmptySeq
  <2> QED
    BY <1>0, <1>2, <1>a, <2>1
<1>3. ASSUME NEW k \in DOMAIN queue, k > 1, queue[k] = t,
             queue' = [queue EXCEPT ![k] = Hole]
      PROVE  /\ queue' \in Seq(Client \cup {Hole})
             /\ \A i \in DOMAIN queue' : queue'[i] # t
             /\ \A i \in DOMAIN queue' : queue'[i] # Hole =>
                   \E m \in DOMAIN queue :
                      /\ queue[m] = queue'[i]
                      /\ \A j \in DOMAIN queue' : queue'[j] = queue'[i] => j = i
  <2>1. queue' \in Seq(Client \cup {Hole}) /\ DOMAIN queue' = 1..n
        /\ \A i \in 1..n : queue'[i] = IF i = k THEN Hole ELSE queue[i]
    BY <1>0, <1>3
  <2> QED
    BY <1>0, <1>3, <1>a, <2>1
<1> QED
  BY Zenon, <1>1, <1>2, <1>3 DEF Leave

\* A client that times out leaves no entry and no delivery behind.
LEMMA InvLeaveQueue ==
    ASSUME Inv, NEW t \in Client, LeaveQueue(t)
    PROVE  Inv'
<1>0. /\ pc \in [Client -> PC] /\ conn \in [Client -> Conn \cup {NoConn}]
      /\ wconn \in [Client -> Conn \cup {NoConn}]
      /\ queue \in Seq(Client \cup {Hole}) /\ pc[t] = "leaving"
      /\ conn[t] = NoConn
  BY Zenon DEF Inv, TypeOK, PointOK, HasConn, LeaveQueue
<1>1. /\ idle' = idle /\ idleIndex' = idleIndex /\ active' = active
      /\ open' = open /\ used' = used /\ dirty' = dirty
      /\ tries' = tries /\ UNCHANGED otherVars /\ Leave(t)
      /\ pc' = [pc EXCEPT ![t] = "out"]
      /\ conn' = [conn EXCEPT ![t] = NoConn]
      /\ wconn' = [wconn EXCEPT ![t] = NoConn]
  BY Zenon DEF LeaveQueue, storeVars, Leave, Goto
<1>2. IndexOK' /\ Len(idle') <= MaxSize /\ IdleSet' = IdleSet
  BY Zenon, <1>1, SameIdle
<1>3. PointOK'
  BY Zenon, <1>0, <1>1 DEF Inv, PointOK, HasConn
<1>q. /\ queue' \in Seq(Client \cup {Hole})
      /\ \A i \in DOMAIN queue' : queue'[i] # t
      /\ \A i \in DOMAIN queue' : queue'[i] # Hole =>
            \E k \in DOMAIN queue :
               /\ queue[k] = queue'[i]
               /\ \A j \in DOMAIN queue' : queue'[j] = queue'[i] => j = i
  BY Zenon, <1>1, LeaveRemoves
<1>4. QueueOK'
  <2> SUFFICES ASSUME NEW i \in DOMAIN queue', queue'[i] # Hole
               PROVE  /\ pc'[queue'[i]] \in {"waiting", "leaving"}
                      /\ wconn'[queue'[i]] = NoConn
                      /\ \A j \in DOMAIN queue' : queue'[j] = queue'[i] => j = i
    BY Zenon DEF QueueOK
  <2>1. PICK k \in DOMAIN queue :
               /\ queue[k] = queue'[i]
               /\ \A j \in DOMAIN queue' : queue'[j] = queue'[i] => j = i
    BY Zenon, <1>q
  <2>2. /\ queue[k] \in Client /\ queue[k] # t /\ wconn[queue[k]] = NoConn
        /\ pc[queue[k]] \in {"waiting", "leaving"}
    BY <1>0, <1>q, <2>1 DEF Inv, QueueOK
  <2> QED
    BY Zenon, <1>0, <1>1, <2>1, <2>2
<1>5. Private'
  <2>1. conn' = conn /\ \A w \in Client : wconn'[w] = wconn[w] \/ wconn'[w] = NoConn
    BY Zenon, <1>0, <1>1
  <2>2. NoConn \notin IdleSet
    BY ConnPoolAssumption DEF Inv, TypeOK, IdleSet, StoreTypeOK
  <2> QED
    BY Zenon, <1>2, <2>1, <2>2 DEF Inv, Private
<1>6. TypeOK'
  BY Zenon, <1>0, <1>1, <1>q
  DEF Inv, TypeOK, StoreTypeOK, otherVars, prefetchVars, adminVars, PC
<1> QED
  BY Zenon, <1>2, <1>3, <1>4, <1>5, <1>6 DEF Inv

\* What is left of a sequence behind position i.
LEMMA Suffix ==
    ASSUME NEW S, NEW s \in Seq(S), NEW i \in 1..Len(s)
    PROVE  LET q == SubSeq(s, i + 1, Len(s))
           IN  /\ q \in Seq(S) /\ DOMAIN q = 1..(Len(s) - i)
               /\ \A j \in 1..(Len(s) - i) : q[j] = s[i + j]
<1> DEFINE n == Len(s)
           q == SubSeq(s, i + 1, n)
<1>1. n \in Nat /\ i \in Nat /\ i >= 1 /\ i <= n /\ \A k \in 1..n : s[k] \in S
  OBVIOUS
<1> HIDE DEF n
<1>2. \A k \in (i + 1)..n : s[k] \in S
  BY <1>1
<1>3. /\ q \in Seq(S)
      /\ Len(q) = IF i + 1 <= n THEN n - (i + 1) + 1 ELSE 0
      /\ \A k \in 1..(n - (i + 1) + 1) : q[k] = s[i + 1 + k - 1]
  <2>1. i + 1 \in Int /\ n \in Int
    BY <1>1
  <2> QED
    BY <1>2, <2>1, SubSeqProperties
<1> HIDE DEF q
<1>4. Len(q) = n - i
  BY <1>1, <1>3
<1>5. DOMAIN q = 1..(n - i)
  BY <1>3, <1>4
<1>6. \A j \in 1..(n - i) : q[j] = s[i + j]
  <2> TAKE j \in 1..(n - i)
  <2>1. j \in 1..(n - (i + 1) + 1) /\ i + 1 + j - 1 = i + j
    BY <1>1
  <2> QED
    BY Zenon, <1>3, <2>1
<1> QED
  BY Zenon, <1>3, <1>5, <1>6 DEF n, q

\* Signal moves the connection to a waiter that has none.
LEMMA InvHandOff ==
    ASSUME Inv, NEW t \in Client, HandOff(t)
    PROVE  Inv'
<1> DEFINE n == Len(queue)
<1>0. /\ pc \in [Client -> PC] /\ conn \in [Client -> Conn \cup {NoConn}]
      /\ wconn \in [Client -> Conn \cup {NoConn}]
      /\ queue \in Seq(Client \cup {Hole}) /\ pc[t] = "holding"
      /\ conn[t] # NoConn /\ conn[t] \in Conn /\ n \in Nat /\ DOMAIN queue = 1..n
  BY DEF Inv, TypeOK, PointOK, HasConn, HandOff
<1>1. PICK i \in Waiting : /\ queue' = SubSeq(queue, i + 1, n)
                           /\ wconn' = [wconn EXCEPT ![queue[i]] = conn[t]]
  BY Zenon DEF HandOff, SignalWaiter
<1> DEFINE u == queue[i]
<1>2. /\ i \in 1..n /\ u \in Client /\ wconn[u] = NoConn
      /\ pc[u] \in {"waiting", "leaving"} /\ u # t
      /\ \A j \in 1..n : queue[j] = u => j = i
  BY <1>0 DEF Waiting, Inv, QueueOK
<1>3. /\ idle' = idle /\ idleIndex' = idleIndex /\ active' = active
      /\ open' = open /\ used' = used /\ dirty' = dirty \cup {conn[t]}
      /\ tries' = tries /\ UNCHANGED otherVars
      /\ pc' = [pc EXCEPT ![t] = "out"] /\ conn' = [conn EXCEPT ![t] = NoConn]
  BY Zenon DEF HandOff, storeVars, Goto
<1>4. /\ queue' \in Seq(Client \cup {Hole}) /\ DOMAIN queue' = 1..(n - i)
      /\ \A j \in 1..(n - i) : queue'[j] = queue[i + j]
  <2>1. LET q == SubSeq(queue, i + 1, n)
        IN  /\ q \in Seq(Client \cup {Hole}) /\ DOMAIN q = 1..(n - i)
            /\ \A j \in 1..(n - i) : q[j] = queue[i + j]
    BY Zenon, <1>0, <1>2, Suffix
  <2> QED
    BY Zenon, <1>1, <2>1
<1> HIDE DEF u
<1>5. IndexOK' /\ Len(idle') <= MaxSize /\ IdleSet' = IdleSet
  BY Zenon, <1>3, SameIdle
<1>6. PointOK'
  BY Zenon, <1>0, <1>1, <1>2, <1>3 DEF Inv, PointOK, HasConn, u
<1>7. QueueOK'
  <2> SUFFICES ASSUME NEW k \in 1..(n - i), queue'[k] # Hole
               PROVE  /\ pc'[queue'[k]] \in {"waiting", "leaving"}
                      /\ wconn'[queue'[k]] = NoConn
                      /\ \A j \in 1..(n - i) : queue'[j] = queue'[k] => j = k
    BY Zenon, <1>4 DEF QueueOK
  <2>1. i + k \in 1..n /\ i + k # i /\ queue'[k] = queue[i + k]
    BY <1>0, <1>2, <1>4
  <2>2. /\ queue[i+k] \in Client /\ queue[i+k] # u
        /\ pc[queue[i+k]] \in {"waiting", "leaving"} /\ wconn[queue[i+k]] = NoConn
        /\ \A j \in 1..n : queue[j] = queue[i+k] => j = i + k
    BY <1>0, <1>2, <2>1 DEF Inv, QueueOK
  <2>3. queue[i+k] # t
    BY Zenon, <1>0, <2>2
  <2>4. \A j \in 1..(n - i) : queue'[j] = queue'[k] => j = k
    <3> SUFFICES ASSUME NEW j \in 1..(n - i), queue'[j] = queue'[k] PROVE j = k
      BY Zenon
    <3>1. i + j \in 1..n /\ queue'[j] = queue[i + j]
      BY <1>0, <1>2, <1>4
    <3>2. i + j = i + k
      BY Zenon, <2>1, <2>2, <3>1
    <3> QED
      BY <1>0, <1>2, <3>2
  <2> QED
    BY <1>0, <1>1, <1>2, <1>3, <2>1, <2>2, <2>3, <2>4 DEF u
<1>8. Private'
  <2> SUFFICES ASSUME NEW v \in Client, NEW w \in Client
               PROVE  /\ v # w /\ conn'[v] # NoConn => conn'[v] # conn'[w]
                      /\ conn'[v] # NoConn => conn'[v] # wconn'[w]
                      /\ v # w /\ wconn'[v] # NoConn => wconn'[v] # wconn'[w]
                      /\ conn'[v] \notin IdleSet /\ wconn'[v] \notin IdleSet
    BY Zenon, <1>5 DEF Private
  <2>1. \A x \in Client : /\ conn'[x] = IF x = t THEN NoConn ELSE conn[x]
                          /\ wconn'[x] = IF x = u THEN conn[t] ELSE wconn[x]
    BY Zenon, <1>0, <1>1, <1>2, <1>3 DEF u
  <2>2. NoConn \notin IdleSet
    BY ConnPoolAssumption DEF Inv, TypeOK, IdleSet, StoreTypeOK
  <2> QED
    BY <1>0, <1>2, <2>1, <2>2 DEF Inv, Private
<1>9. TypeOK'
  BY Zenon, <1>0, <1>1, <1>2, <1>3, <1>4
  DEF Inv, TypeOK, StoreTypeOK, otherVars, prefetchVars, adminVars, PC, u
<1> QED
  BY Zenon, <1>5, <1>6, <1>7, <1>8, <1>9 DEF Inv

\* release moves the connection from the client to the idle slice, or closes it.
LEMMA InvReturn ==
    ASSUME Inv, NEW t \in Client, Return(t)
    PROVE  Inv'
<1>0. /\ pc \in [Client -> PC] /\ conn \in [Client -> Conn \cup {NoConn}]
      /\ wconn \in [Client -> Conn \cup {NoConn}]
      /\ pc[t] = "returning" /\ conn[t] # NoConn /\ conn[t] \in Conn
      /\ conn[t] \notin IdleSet
  BY Zenon DEF Inv, TypeOK, PointOK, HasConn, Return, Private
<1>1. /\ \E ok \in BOOLEAN : release(conn[t], ok)
      /\ dirty' = dirty \ {conn[t]} /\ tries' = tries /\ UNCHANGED otherVars
      /\ pc' = [pc EXCEPT ![t] = "out"] /\ conn' = [conn EXCEPT ![t] = NoConn]
      /\ wconn' = wconn /\ queue' = queue
  BY Zenon DEF Return, Goto, waitVars
<1>2. /\ StoreTypeOK' /\ IndexOK' /\ Len(idle') <= MaxSize
      /\ IdleSet' \subseteq IdleSet \cup {conn[t]}
  <2>1. PICK ok \in BOOLEAN : release(conn[t], ok)
    BY Zenon, <1>1
  <2> DEFINE c == conn[t]
  <2>2. c \in Conn /\ c \notin IdleSet /\ release(c, ok)
    BY Zenon, <1>0, <2>1
  <2>3. StoreTypeOK /\ IndexOK /\ Len(idle) <= MaxSize
    BY Zenon DEF Inv, TypeOK
  <2> HIDE DEF c
  <2>4. /\ StoreTypeOK' /\ IndexOK' /\ Len(idle') <= MaxSize
        /\ IdleSet' \subseteq IdleSet \cup {c}
    BY Zenon, <2>2, <2>3, ReleaseStore
  <2> QED
    BY Zenon, <2>4 DEF c
<1>3. PointOK'
  BY Zenon, <1>0, <1>1 DEF Inv, PointOK, HasConn
<1>4. QueueOK'
  <2>1. ASSUME NEW i \in DOMAIN queue, queue[i] # Hole
        PROVE  pc'[queue[i]] \in {"waiting", "leaving"}
    <3>1. queue[i] \in Client /\ pc[queue[i]] \in {"waiting", "leaving"}
      BY <2>1 DEF Inv, TypeOK, QueueOK
    <3> QED
      BY Zenon, <1>0, <1>1, <3>1
  <2> QED
    BY Zenon, <1>1, <2>1 DEF Inv, QueueOK
<1>5. Private'
  <2> SUFFICES ASSUME NEW v \in Client, NEW w \in Client
               PROVE  /\ v # w /\ conn'[v] # NoConn => conn'[v] # conn'[w]
                      /\ conn'[v] # NoConn => conn'[v] # wconn[w]
                      /\ v # w /\ wconn[v] # NoConn => wconn[v] # wconn[w]
                      /\ conn'[v] \notin IdleSet' /\ wconn[v] \notin IdleSet'
    BY Zenon, <1>1 DEF Private
  <2>1. \A x \in Client : conn'[x] = IF x = t THEN NoConn ELSE conn[x]
    BY Zenon, <1>0, <1>1
  <2>2. NoConn \notin IdleSet'
    BY <1>2, ConnPoolAssumption DEF IdleSet, StoreTypeOK
  <2> QED
    BY Zenon, <1>0, <1>2, <2>1, <2>2 DEF Inv, Private
<1>6. TypeOK'
  BY Zenon, <1>0, <1>1, <1>2
  DEF Inv, TypeOK, otherVars, prefetchVars, adminVars, PC
<1> QED
  BY Zenon, <1>2, <1>3, <1>4, <1>5, <1>6 DEF Inv

\* The prefetch goroutine touches nothing that clients refer to.
LEMMA InvPrefetch ==
    ASSUME Inv, PrefetchStep
    PROVE  Inv'
<1>a. pidle \in Nat /\ idle \in Seq(Conn)
  BY Zenon DEF Inv, TypeOK, StoreTypeOK
<1>0. pidle \in Nat /\ Len(idle) \in Nat
  BY <1>a
<1> USE DEF PrefetchStep, PrefetchIdle, PrefetchActive, PrefetchSize, PrefetchAlloc,
            PrefetchDial
<1>1. /\ idle' = idle /\ idleIndex' = idleIndex /\ active' = active
      /\ UNCHANGED <<waitVars, clientVars, dirty, adminVars>>
  BY Zenon DEF storeVars
<1>2. IndexOK' /\ Len(idle') <= MaxSize /\ IdleSet' = IdleSet
  BY Zenon, <1>1, SameIdle
<1>3. PointOK' /\ QueueOK' /\ Private'
  BY Zenon, <1>1, <1>2, Keep DEF waitVars, clientVars
<1>4. used' \in Nat
  <2>1. used' = used \/ TryAlloc \/ used' = FreedBy(1)
    BY Zenon DEF storeVars
  <2>2. used \in Nat
    BY Zenon DEF Inv, TypeOK, StoreTypeOK
  <2> QED
    BY <2>1, <2>2 DEF TryAlloc, FreedBy
<1>5. open' \subseteq Conn
  <2>1. open' = open \/ \E c \in Conn : open' = open \cup {c}
    BY Zenon DEF storeVars
  <2>2. open \subseteq Conn
    BY Zenon DEF Inv, TypeOK, StoreTypeOK
  <2> HIDE DEF PrefetchStep
  <2> QED
    BY Zenon, <2>1, <2>2
<1>6. prefetch' \in PrefetchPC
  BY Zenon DEF PrefetchPC
<1>7. pidle' \in Nat
  <2>2. pidle' = pidle \/ pidle' = Len(idle) \/ pidle' = 0
    BY Zenon
  <2> QED
    BY <1>0, <2>2
<1>8. TypeOK'
  BY Zenon, <1>1, <1>4, <1>5, <1>6, <1>7
  DEF Inv, TypeOK, StoreTypeOK, waitVars, clientVars, adminVars
<1> QED
  BY Zenon, <1>2, <1>3, <1>8 DEF Inv

\* Removing, adding and closing only shrink the idle slice.
LEMMA InvAdmin ==
    ASSUME Inv, \/ \E b \in Removable : RemoveCheck(b) \/ AddBackend(b)
                \/ RemoveFinish \/ ClosePool
    PROVE  Inv'
<1>1. UNCHANGED <<waitVars, clientVars, dirty, prefetchVars>>
  BY Zenon DEF RemoveCheck, AddBackend, RemoveFinish, ClosePool
<1>2. StoreTypeOK' /\ IndexOK' /\ Len(idle') <= MaxSize /\ IdleSet' \subseteq IdleSet
  <2>1. CASE UNCHANGED storeVars
    BY Zenon, <2>1, SameIdle DEF storeVars, Inv, TypeOK, StoreTypeOK
  <2>2. CASE RemoveFinish
    <3>1. StoreTypeOK' /\ IndexOK' /\ IdleSet' \subseteq IdleSet
          /\ Len(idle') <= Len(idle)
      <4>1. PICK b : b = removing
        BY Zenon
      <4>2. closeBackend(b) /\ StoreTypeOK /\ IndexOK
        BY Zenon, <2>2, <4>1 DEF RemoveFinish, Inv, TypeOK
      <4> QED
        BY Zenon, <4>2, CloseBackendStore
    <3>2. idle \in Seq(Conn) /\ idle' \in Seq(Conn)
      BY Zenon, <3>1 DEF Inv, TypeOK, StoreTypeOK
    <3>3. Len(idle) \in Nat /\ Len(idle') \in Nat
      BY <3>2
    <3>4. MaxSize \in Nat /\ Len(idle) <= MaxSize
      BY Zenon, ServerConnAssumption DEF Inv
    <3>5. Len(idle') <= MaxSize
      BY <3>1, <3>3, <3>4
    <3> QED
      BY Zenon, <3>1, <3>5
  <2>3. CASE ClosePool
    BY <2>3, CloseAllStore, ServerConnAssumption DEF ClosePool, Inv, TypeOK
  <2> QED
    BY Zenon, <2>1, <2>2, <2>3 DEF RemoveCheck, AddBackend
<1>3. PointOK' /\ QueueOK' /\ Private'
  BY Zenon, <1>1, <1>2, Keep DEF waitVars, clientVars
<1>4. backends' \subseteq Backend /\ removing' \in Backend \cup {NoBackend}
      /\ closed' \in BOOLEAN
  <2>1. backends \subseteq Backend /\ removing \in Backend \cup {NoBackend}
        /\ closed \in BOOLEAN /\ Removable \subseteq Backend
    BY Zenon, ConnPoolAssumption DEF Inv, TypeOK
  <2> QED
    BY Zenon, <2>1 DEF RemoveCheck, AddBackend, RemoveFinish, ClosePool
<1>5. TypeOK'
  BY Zenon, <1>1, <1>2, <1>4 DEF Inv, TypeOK, waitVars, clientVars, prefetchVars
<1> QED
  BY Zenon, <1>2, <1>3, <1>5 DEF Inv

\* The invariant holds in every state the pool can reach.
THEOREM PoolInvariant == Spec => []Inv
<1>1. Init => Inv
  <2> SUFFICES ASSUME Init PROVE Inv
    BY Zenon
  <2> USE DEF Init, InitStore, InitWait
  <2>1. TypeOK
    BY Zenon, EmptySeq DEF TypeOK, StoreTypeOK, PC, PrefetchPC
  <2>2. IndexOK /\ Len(idle) <= MaxSize
    BY ServerConnAssumption DEF IndexOK
  <2>3. PointOK /\ QueueOK /\ Private
    BY DEF PointOK, HasConn, QueueOK, Private, IdleSet
  <2> QED
    BY Zenon, <2>1, <2>2, <2>3 DEF Inv
<1>2. Inv /\ [Next]_vars => Inv'
  <2> SUFFICES ASSUME Inv, [Next]_vars PROVE Inv'
    BY Zenon
  <2>1. ASSUME UNCHANGED vars PROVE Inv'
    <3>1. IndexOK' /\ Len(idle') <= MaxSize /\ IdleSet' = IdleSet
      BY Zenon, <2>1, SameIdle DEF vars, storeVars
    <3>2. PointOK' /\ QueueOK' /\ Private'
      BY Zenon, <2>1, <3>1, Keep DEF vars, waitVars, clientVars
    <3>3. TypeOK'
      BY Zenon, <2>1 DEF Inv, TypeOK, StoreTypeOK, vars, storeVars, waitVars, clientVars,
                  otherVars, prefetchVars, adminVars
    <3> QED
      BY Zenon, <3>1, <3>2, <3>3 DEF Inv
  <2>2. ASSUME NEW t \in Client, Begin(t) \/ Step(t) \/ HandOff(t) \/ NobodyWaits(t)
        PROVE  Inv'
    BY Zenon, <2>2, InvMove, InvTakeIdle, InvSelect, InvJoinQueue, InvWake, InvLeaveQueue,
       InvHandOff, InvReturn DEF Step
  <2> QED
    BY Zenon, <2>1, <2>2, InvPrefetch, InvAdmin DEF Next
<1> QED
  BY <1>1, <1>2, PTL DEF Spec

\* TypeOK, which a run checks, holds for all values of the constants.
THEOREM PoolTypeOK == Spec => []TypeOK
<1>1. Inv => TypeOK
  BY Zenon DEF Inv
<1> QED
  BY <1>1, PoolInvariant, PTL

\* No connection is ever shared: whatever the number of sessions, the order of
\* time-outs, hand-offs and releases, and the operator's removals and closings.
THEOREM PoolExclusive == Spec => []ExclusiveOwnership
BY InvExclusive, PoolInvariant, PTL

\* idleIndex locates every idle connection, in the pool in concurrent use.
THEOREM PoolIndexOK == Spec => []IndexOK
<1>1. Inv => IndexOK
  BY Zenon DEF Inv
<1> QED
  BY <1>1, PoolInvariant, PTL

----------------------------------------------------------------------------
(* The wait queue loses nobody and is first come, first served. *)

\* A client in Wait that has not been served has an entry.
Queued == \A t \in Client :
    pc[t] = "waiting" /\ wconn[t] = NoConn => \E i \in DOMAIN queue : queue[i] = t

\* Steps that leave the queue alone and bring nobody into Wait.
LEMMA QueuedKeep ==
    ASSUME Inv, Queued, NEW t \in Client, NEW p \in PC \ {"waiting"},
           pc' = pc \/ pc' = [pc EXCEPT ![t] = p],
           queue' = queue, wconn' = wconn \/ (wconn' = [wconn EXCEPT ![t] = NoConn] /\ pc' # pc)
    PROVE  Queued'
<1> SUFFICES ASSUME NEW u \in Client, pc'[u] = "waiting", wconn'[u] = NoConn
             PROVE  \E i \in DOMAIN queue : queue[i] = u
  BY Zenon DEF Queued
<1>1. pc \in [Client -> PC] /\ wconn \in [Client -> Conn \cup {NoConn}]
  BY Zenon DEF Inv, TypeOK
<1>2. pc[u] = "waiting" /\ wconn[u] = NoConn
  BY Zenon, <1>1
<1> QED
  BY Zenon, <1>2 DEF Queued

\* Signal drops the holes in front of the first waiter and that waiter, nobody else.
LEMMA QueuedHandOff ==
    ASSUME Inv, Queued, NEW t \in Client, HandOff(t)
    PROVE  Queued'
<1> DEFINE n == Len(queue)
<1>0. /\ pc \in [Client -> PC] /\ wconn \in [Client -> Conn \cup {NoConn}]
      /\ queue \in Seq(Client \cup {Hole}) /\ n \in Nat /\ DOMAIN queue = 1..n
      /\ conn[t] # NoConn /\ Hole \notin Client
  BY ConnPoolAssumption DEF Inv, TypeOK, PointOK, HasConn, HandOff
<1>1. PICK i \in Waiting : /\ \A j \in Waiting : i <= j
                           /\ queue' = SubSeq(queue, i + 1, n)
                           /\ wconn' = [wconn EXCEPT ![queue[i]] = conn[t]]
  BY Zenon DEF HandOff, SignalWaiter
<1>2. i \in 1..n /\ queue[i] \in Client
  BY <1>0 DEF Waiting
<1>3. DOMAIN queue' = 1..(n - i) /\ \A j \in 1..(n - i) : queue'[j] = queue[i + j]
  <2>1. LET q == SubSeq(queue, i + 1, n)
        IN  /\ q \in Seq(Client \cup {Hole}) /\ DOMAIN q = 1..(n - i)
            /\ \A j \in 1..(n - i) : q[j] = queue[i + j]
    BY <1>0, <1>2, Suffix
  <2> QED
    BY Zenon, <1>1, <2>1
<1> SUFFICES ASSUME NEW u \in Client, pc'[u] = "waiting", wconn'[u] = NoConn
             PROVE  \E j \in DOMAIN queue' : queue'[j] = u
  BY Zenon DEF Queued
<1>4. pc[u] = "waiting" /\ wconn[u] = NoConn /\ u # queue[i]
  BY Zenon, <1>0, <1>1, <1>2 DEF HandOff, Goto
<1>5. PICK k \in 1..n : queue[k] = u
  BY Zenon, <1>0, <1>4 DEF Queued
<1>6. k \in Waiting /\ i <= k /\ k # i
  BY Zenon, <1>0, <1>1, <1>4, <1>5 DEF Waiting
<1>7. k - i \in 1..(n - i) /\ i + (k - i) = k
  BY <1>0, <1>2, <1>6
<1> QED
  BY Zenon, <1>3, <1>5, <1>7

\* Wait's clean-up takes no other client's entry.
LEMMA QueuedLeave ==
    ASSUME Inv, Queued, NEW t \in Client, LeaveQueue(t)
    PROVE  Queued'
<1> DEFINE n == Len(queue)
<1>0. /\ pc \in [Client -> PC] /\ wconn \in [Client -> Conn \cup {NoConn}]
      /\ queue \in Seq(Client \cup {Hole}) /\ n \in Nat /\ DOMAIN queue = 1..n
  BY DEF Inv, TypeOK
<1> SUFFICES ASSUME NEW u \in Client, pc'[u] = "waiting", wconn'[u] = NoConn
             PROVE  \E j \in DOMAIN queue' : queue'[j] = u
  BY Zenon DEF Queued
<1>1. u # t /\ pc[u] = "waiting" /\ wconn[u] = NoConn
  BY Zenon, <1>0 DEF LeaveQueue, Leave, Goto
<1>2. PICK k \in 1..n : queue[k] = u
  BY Zenon, <1>0, <1>1 DEF Queued
<1>3. CASE UNCHANGED queue
  BY Zenon, <1>0, <1>2, <1>3
<1>4. CASE queue # <<>> /\ queue[1] = t /\ queue' = Tail(queue)
  <2>1. /\ n > 0 /\ DOMAIN queue' = 1..(n-1)
        /\ \A i \in 1..(n-1) : queue'[i] = queue[i+1]
    BY <1>0, <1>4, HeadTailProperties, EmptySeq
  <2>2. k - 1 \in 1..(n-1) /\ (k - 1) + 1 = k
    BY <1>0, <1>1, <1>2, <1>4
  <2> QED
    BY Zenon, <1>2, <2>1, <2>2
<1>5. ASSUME NEW i \in DOMAIN queue, queue[i] = t, queue' = [queue EXCEPT ![i] = Hole]
      PROVE  \E j \in DOMAIN queue' : queue'[j] = u
  BY Zenon, <1>0, <1>1, <1>2, <1>5
<1> QED
  BY Zenon, <1>3, <1>4, <1>5 DEF LeaveQueue, Leave

\* No step leaves a client in Wait without an entry or a connection.
LEMMA QueuedStep == Inv /\ Queued /\ [Next]_vars => Queued'
<1> SUFFICES ASSUME Inv, Queued, [Next]_vars PROVE Queued'
  BY Zenon
<1>0. /\ pc \in [Client -> PC] /\ wconn \in [Client -> Conn \cup {NoConn}]
      /\ queue \in Seq(Client \cup {Hole})
  BY Zenon DEF Inv, TypeOK
<1>1. CASE UNCHANGED <<waitVars, clientVars>>
  BY Zenon, <1>1 DEF Queued, waitVars, clientVars
<1>2. ASSUME NEW t \in Client,
             \/ Begin(t) \/ TakeIdle(t) \/ NoIdle(t) \/ CheckSize(t) \/ Reserve(t) \/ Select(t)
             \/ SelectNone(t) \/ Dial(t) \/ DialFails(t) \/ AddActive(t) \/ TimeOut(t)
             \/ Return(t)
      PROVE  Queued'
  <2>1. UNCHANGED waitVars /\ \E p \in PC \ {"waiting"} : pc' = [pc EXCEPT ![t] = p]
    BY Zenon, <1>2 DEF Begin, TakeIdle, NoIdle, CheckSize, Reserve, Select, SelectNone, Dial,
                DialFails, AddActive, TimeOut, Return, Goto, PC, Acquiring, Reserved
  <2> QED
    BY Zenon, <2>1, QueuedKeep DEF waitVars
<1>3. ASSUME NEW t \in Client, JoinQueue(t) PROVE Queued'
  <2>1. CASE Enqueue(t) /\ Goto(t, "waiting", NoConn)
    <3>1. /\ DOMAIN queue' = 1..(Len(queue) + 1) /\ DOMAIN queue = 1..Len(queue)
          /\ Len(queue) \in Nat
          /\ \A i \in 1..Len(queue) : queue'[i] = queue[i]
          /\ queue'[Len(queue) + 1] = t
      BY <1>0, <2>1, AppendProperties DEF Enqueue
    <3>2. \A u \in Client \ {t} : pc'[u] = pc[u] /\ wconn'[u] = wconn[u]
      BY Zenon, <1>0, <2>1 DEF Enqueue, Goto
    <3> QED
      BY <3>1, <3>2 DEF Queued
  <2>2. CASE UNCHANGED waitVars /\ Goto(t, "out", NoConn)
    BY Zenon, <2>2, QueuedKeep DEF waitVars, Goto, PC
  <2> QED
    BY Zenon, <1>3, <2>1, <2>2 DEF JoinQueue
<1>4. ASSUME NEW t \in Client, Wake(t) PROVE Queued'
  <2>1. /\ pc' = [pc EXCEPT ![t] = "holding"] /\ pc'[t] # pc[t] /\ queue' = queue
        /\ wconn' = [wconn EXCEPT ![t] = NoConn]
    BY Zenon, <1>0, <1>4 DEF Wake, Receive, Goto
  <2> QED
    BY Zenon, <2>1, QueuedKeep DEF PC
<1>5. ASSUME NEW t \in Client, NobodyWaits(t) PROVE Queued'
  <2>1. \A i \in DOMAIN queue : queue[i] \notin Client
    BY Zenon, <1>0, <1>5, ConnPoolAssumption DEF NobodyWaits, SignalNobody, Waiting
  <2>2. \A u \in Client : pc'[u] = "waiting" => pc[u] = "waiting" /\ wconn'[u] = wconn[u]
    BY Zenon, <1>0, <1>5 DEF NobodyWaits, SignalNobody, Goto
  <2> QED
    BY Zenon, <2>1, <2>2 DEF Queued
<1>6. CASE UNCHANGED vars
  BY Zenon, <1>1, <1>6 DEF vars
<1>7. ASSUME NEW b \in Removable, RemoveCheck(b) \/ AddBackend(b) PROVE Queued'
  BY Zenon, <1>1, <1>7 DEF RemoveCheck, AddBackend
<1>8. CASE PrefetchStep \/ RemoveFinish \/ ClosePool
  BY Zenon, <1>1, <1>8 DEF PrefetchStep, PrefetchIdle, PrefetchActive, PrefetchSize, PrefetchAlloc,
                    PrefetchDial, RemoveFinish, ClosePool
<1> QED
  BY <1>2, <1>3, <1>4, <1>5, <1>6, <1>7, <1>8, QueuedHandOff, QueuedLeave DEF Next, Step

\* Every client in Wait is queued or served, and queued once: Signal and the clean-up of
\* Wait lose nobody, for any number of clients that come, time out and are served.
THEOREM PoolWaiterQueued == Spec => []WaiterQueued
<1>1. Init => Queued
  BY Zenon DEF Init, Queued
<1>2. Inv /\ Queued /\ [Next]_vars => Queued'
  BY Zenon, QueuedStep
<1>3. Inv /\ Queued => WaiterQueued
  <2> SUFFICES ASSUME Inv, Queued PROVE WaiterQueued
    BY Zenon
  <2>1. \A i \in Waiting : /\ pc[queue[i]] \in {"waiting", "leaving"}
                           /\ wconn[queue[i]] = NoConn
                           /\ \A j \in Waiting : queue[i] = queue[j] => i = j
    BY Zenon DEF Inv, QueueOK, Waiting
  <2> QED
    BY Zenon, <2>1 DEF Queued, WaiterQueued
<1> QED
  BY <1>1, <1>2, <1>3, PoolInvariant, PTL DEF Spec

\* A released connection goes to the waiter that has waited longest, in every behaviour.
THEOREM PoolLongestWaiting == Spec => LongestWaiting
<1>1. ASSUME Inv, [Next]_vars, NEW i \in Waiting, NEW j \in Waiting, i < j,
             wconn'[queue[j]] # wconn[queue[j]]
      PROVE  wconn'[queue[j]] = NoConn
  <2>a. wconn \in [Client -> Conn \cup {NoConn}] /\ queue \in Seq(Client \cup {Hole})
    BY Zenon, <1>1 DEF Inv, TypeOK
  <2>b. Waiting \subseteq DOMAIN queue /\ DOMAIN queue = 1..Len(queue) /\ Len(queue) \in Nat
    BY <2>a DEF Waiting
  <2>c. Waiting \subseteq Nat
    BY <2>b
  <2>0. queue[j] \in Client /\ i \in Nat /\ j \in Nat /\ j \in DOMAIN queue
    BY <2>a, <2>b, <2>c DEF Waiting
  <2>1. ASSUME NEW t \in Client, HandOff(t) PROVE wconn'[queue[j]] = NoConn
    <3>1. PICK k \in Waiting : /\ \A m \in Waiting : k <= m
                               /\ wconn' = [wconn EXCEPT ![queue[k]] = conn[t]]
      BY Zenon, <2>1 DEF HandOff, SignalWaiter
    <3>2. queue[k] = queue[j]
      BY Zenon, <1>1, <2>a, <2>0, <3>1
    <3>3. k = j
      <4>1. queue[j] # Hole
        BY Zenon DEF Waiting
      <4> QED
        BY Zenon, <1>1, <2>b, <2>0, <3>2, <4>1 DEF Inv, QueueOK
    <3> QED
      BY <1>1, <2>c, <2>0, <3>1, <3>3
  <2>2. ASSUME NEW t \in Client, Begin(t) \/ Step(t) \/ NobodyWaits(t)
        PROVE  wconn' = wconn \/ wconn' = [wconn EXCEPT ![t] = NoConn]
    BY Zenon, <2>2 DEF Begin, Step, TakeIdle, NoIdle, CheckSize, Reserve, Select, SelectNone, Dial,
                DialFails, AddActive, TimeOut, Return, JoinQueue, Enqueue, Wake, Receive,
                LeaveQueue, Leave, NobodyWaits, SignalNobody, waitVars
  <2>3. ASSUME NEW b \in Removable, RemoveCheck(b) \/ AddBackend(b) PROVE wconn' = wconn
    BY Zenon, <2>3 DEF RemoveCheck, AddBackend, waitVars
  <2>4. CASE PrefetchStep \/ RemoveFinish \/ ClosePool \/ UNCHANGED vars
    BY Zenon, <1>1, <2>4 DEF PrefetchStep, PrefetchIdle, PrefetchActive, PrefetchSize, PrefetchAlloc,
                      PrefetchDial, RemoveFinish, ClosePool, waitVars, vars
  <2> QED
    BY Zenon, <1>1, <2>a, <2>0, <2>1, <2>2, <2>3, <2>4 DEF Next
<1>2. Inv /\ [Next]_vars =>
          [\A i, j \in Waiting : i < j /\ wconn'[queue[j]] # wconn[queue[j]]
              => wconn'[queue[j]] = NoConn]_vars
  BY Zenon, <1>1
<1> QED
  BY <1>2, PoolInvariant, PTL DEF Spec, LongestWaiting

----------------------------------------------------------------------------
(***************************************************************************)
(* What the pool's counters guarantee: connections in use are open, the    *)
(* pool outgrows MaxServerConnections by at most one connection per        *)
(* concurrent client, and globalMemoryUsed is exact.  And that the pool    *)
(* implements ConnLease.                                                   *)
(***************************************************************************)

\* How the connections that clients refer to stand with the store.  That an
\* open connection in use is registered as active is what keeps the size from
\* growing when it is released; that a connection being dialled is not open yet
\* is what makes a dial add one to the open connections.
HeldOK ==
    /\ IdleSet \subseteq open
    /\ \A t \in Client :
        /\ pc[t] = "dial" => conn[t] \notin open
        /\ pc[t] \in {"holding", "returning"} /\ conn[t] \in open => conn[t] \in active
        /\ wconn[t] \in open => wconn[t] \in active
        /\ ~closed /\ pc[t] \in {"add", "holding", "returning"} => conn[t] \in open
        /\ ~closed /\ wconn[t] # NoConn => wconn[t] \in open

HInv == Inv /\ HeldOK

\* Steps of a client that leave the wait queue's deliveries and the open
\* connections alone.
LEMMA HeldMove ==
    ASSUME HInv, Inv', NEW t \in Client,
           \/ Begin(t) \/ NoIdle(t) \/ CheckSize(t) \/ Reserve(t) \/ SelectNone(t)
           \/ DialFails(t) \/ AddActive(t) \/ TimeOut(t) \/ NobodyWaits(t)
           \/ JoinQueue(t) \/ Select(t)
    PROVE  HeldOK'
<1> USE DEF HInv, Goto
<1>0. /\ pc \in [Client -> PC] /\ conn \in [Client -> Conn \cup {NoConn}]
      /\ NoConn \notin Conn /\ open \subseteq Conn
  BY Zenon, ConnPoolAssumption DEF Inv, TypeOK, StoreTypeOK
<1>1. /\ idle' = idle /\ open' = open /\ wconn' = wconn /\ closed' = closed
      /\ active \subseteq active'
  BY Zenon DEF Begin, NoIdle, CheckSize, Reserve, SelectNone, DialFails, AddActive, TimeOut,
         NobodyWaits, JoinQueue, Select, storeVars, waitVars, otherVars, adminVars,
         addActive, Enqueue, SignalNobody
<1>2. \A u \in Client \ {t} : pc'[u] = pc[u] /\ conn'[u] = conn[u]
  BY Zenon, <1>0 DEF Begin, NoIdle, CheckSize, Reserve, SelectNone, DialFails, AddActive,
         TimeOut, NobodyWaits, JoinQueue, Select
<1>3. /\ pc'[t] = "dial" => conn'[t] \notin open
      /\ pc'[t] \in {"holding", "returning"} /\ conn'[t] \in open => conn'[t] \in active'
      /\ ~closed /\ pc'[t] \in {"add", "holding", "returning"} => conn'[t] \in open
  <2> USE <1>0
  <2>1. CASE Begin(t) \/ NoIdle(t) \/ CheckSize(t) \/ Reserve(t) \/ SelectNone(t)
             \/ DialFails(t) \/ TimeOut(t) \/ JoinQueue(t)
    <3>1. pc'[t] \notin {"dial", "add", "holding", "returning"}
      BY Zenon, <2>1 DEF Begin, NoIdle, CheckSize, Reserve, SelectNone, DialFails, TimeOut,
                  JoinQueue
    <3> QED
      BY Zenon, <3>1
  <2>2. CASE AddActive(t)
    BY Zenon, <2>2 DEF AddActive, addActive, HeldOK
  <2>3. CASE NobodyWaits(t)
    BY Zenon, <2>3 DEF NobodyWaits, HeldOK, storeVars
  <2>4. CASE Select(t)
    BY Zenon, <2>4 DEF Select, Fresh, Unknown
  <2> QED
    BY Zenon, <2>1, <2>2, <2>3, <2>4
<1>4. IdleSet' = IdleSet
  BY Zenon, <1>1 DEF IdleSet
<1> QED
  BY Zenon, <1>1, <1>2, <1>3, <1>4 DEF HeldOK

\* acquire hands out an open connection and registers it.
LEMMA HeldTakeIdle ==
    ASSUME HInv, NEW t \in Client, TakeIdle(t)
    PROVE  HeldOK'
<1>0. pc \in [Client -> PC] /\ conn \in [Client -> Conn \cup {NoConn}]
  BY Zenon DEF HInv, Inv, TypeOK
<1>1. PICK c \in Conn : acquire(c) /\ Goto(t, "holding", c)
  BY Zenon DEF TakeIdle
<1>2. c \in IdleSet /\ IdleSet' = IdleSet \ {c}
  BY Zenon, <1>1, AcquireStore DEF HInv, Inv, TypeOK
<1>3. /\ open' = open /\ active' = active \cup {c} /\ wconn' = wconn /\ closed' = closed
      /\ pc' = [pc EXCEPT ![t] = "holding"] /\ conn' = [conn EXCEPT ![t] = c]
  BY Zenon, <1>1 DEF TakeIdle, acquire, Goto, waitVars, otherVars, adminVars
<1> QED
  BY Zenon, <1>0, <1>2, <1>3 DEF HInv, HeldOK

\* A dial opens the connection in its client's hands.
LEMMA HeldDial ==
    ASSUME HInv, NEW t \in Client, Dial(t)
    PROVE  HeldOK'
<1>0. /\ pc \in [Client -> PC] /\ conn \in [Client -> Conn \cup {NoConn}]
      /\ pc[t] = "dial" /\ conn[t] # NoConn
  BY Zenon DEF HInv, Inv, TypeOK, Dial, PointOK, HasConn
<1>1. /\ open' = open \cup {conn[t]} /\ active' = active /\ wconn' = wconn
      /\ closed' = closed /\ conn' = conn /\ idle' = idle
      /\ pc' = [pc EXCEPT ![t] = "add"]
  BY Zenon DEF Dial, waitVars, otherVars, adminVars
<1>2. IdleSet' = IdleSet
  BY Zenon, <1>1 DEF IdleSet
<1>3. \A u \in Client : wconn[u] # conn[t] /\ (u # t => conn[u] # conn[t])
  BY Zenon, <1>0 DEF HInv, Inv, Private
<1> QED
  BY Zenon, <1>0, <1>1, <1>2, <1>3 DEF HInv, HeldOK

\* Wait and Signal move open, registered connections.
LEMMA HeldQueue ==
    ASSUME HInv, NEW t \in Client, Wake(t) \/ LeaveQueue(t) \/ HandOff(t)
    PROVE  HeldOK'
<1>0. /\ pc \in [Client -> PC] /\ conn \in [Client -> Conn \cup {NoConn}]
      /\ wconn \in [Client -> Conn \cup {NoConn}] /\ NoConn \notin open
      /\ queue \in Seq(Client \cup {Hole})
  BY Zenon, ConnPoolAssumption DEF HInv, Inv, TypeOK, StoreTypeOK
<1>1. /\ open' = open /\ active' = active /\ closed' = closed /\ idle' = idle
  BY Zenon DEF Wake, LeaveQueue, HandOff, storeVars, otherVars, adminVars
<1>2. IdleSet' = IdleSet
  BY Zenon, <1>1 DEF IdleSet
<1>3. CASE Wake(t)
  <2>1. /\ pc' = [pc EXCEPT ![t] = "holding"] /\ conn' = [conn EXCEPT ![t] = wconn[t]]
        /\ wconn' = [wconn EXCEPT ![t] = NoConn] /\ wconn[t] # NoConn
    BY Zenon, <1>3 DEF Wake, Goto, Receive
  <2> QED
    BY Zenon, <1>0, <1>1, <1>2, <2>1 DEF HInv, HeldOK
<1>4. CASE LeaveQueue(t)
  <2>1. /\ pc' = [pc EXCEPT ![t] = "out"] /\ conn' = [conn EXCEPT ![t] = NoConn]
        /\ wconn' = [wconn EXCEPT ![t] = NoConn]
    BY Zenon, <1>4 DEF LeaveQueue, Goto, Leave
  <2> QED
    BY Zenon, <1>0, <1>1, <1>2, <2>1 DEF HInv, HeldOK
<1>5. CASE HandOff(t)
  <2>1. /\ pc' = [pc EXCEPT ![t] = "out"] /\ conn' = [conn EXCEPT ![t] = NoConn]
        /\ pc[t] = "holding"
    BY Zenon, <1>5 DEF HandOff, Goto
  <2>2. PICK i \in Waiting : wconn' = [wconn EXCEPT ![queue[i]] = conn[t]]
    BY Zenon, <1>5 DEF HandOff, SignalWaiter
  <2>3. \A u \in Client : wconn'[u] = wconn[u] \/ wconn'[u] = conn[t]
    BY Zenon, <1>0, <2>2
  <2> QED
    BY Zenon, <1>0, <1>1, <1>2, <2>1, <2>3 DEF HInv, HeldOK
<1> QED
  BY Zenon, <1>3, <1>4, <1>5

\* What Return does to the store, in the terms needed below.
LEMMA ReturnStore ==
    ASSUME HInv, NEW t \in Client, Return(t)
    PROVE  /\ conn[t] \in Conn /\ conn[t] \notin IdleSet /\ pc[t] = "returning"
           /\ pc' = [pc EXCEPT ![t] = "out"] /\ conn' = [conn EXCEPT ![t] = NoConn]
           /\ wconn' = wconn /\ closed' = closed /\ prefetch' = prefetch
           /\ active' = active \ {conn[t]}
           /\ \/ /\ IdleSet' = IdleSet \cup {conn[t]} /\ Len(idle') = Len(idle) + 1
                 /\ open' = open /\ used' = used /\ conn[t] \in open
              \/ IdleSet' = IdleSet /\ idle' = idle /\ Close({conn[t]})
<1>0. conn[t] \in Conn /\ conn[t] \notin IdleSet /\ pc[t] = "returning"
  BY Zenon DEF HInv, Inv, TypeOK, PointOK, HasConn, Return, Private
<1>1. PICK ok \in BOOLEAN : (ok => conn[t] \in open) /\ release(conn[t], ok)
  BY Zenon DEF Return
<1> DEFINE c == conn[t]
<1>2. c \in Conn /\ c \notin IdleSet /\ release(c, ok) /\ (ok => c \in open)
  BY Zenon, <1>0, <1>1
<1>3. StoreTypeOK /\ IndexOK /\ Len(idle) <= MaxSize
  BY Zenon DEF HInv, Inv, TypeOK
<1> HIDE DEF c
<1>4. /\ active' = active \ {c}
      /\ \/ IdleSet' = IdleSet \cup {c} /\ ok /\ Len(idle') = Len(idle) + 1
            /\ open' = open /\ used' = used
         \/ IdleSet' = IdleSet /\ Close({c}) /\ idle' = idle
  BY Zenon, <1>2, <1>3, ReleaseStore
<1> QED
  BY Zenon, <1>0, <1>2, <1>4 DEF c, Return, Goto, waitVars, otherVars, adminVars, prefetchVars

\* release leaves other clients' connections open and registered.
LEMMA HeldReturn ==
    ASSUME HInv, NEW t \in Client, Return(t)
    PROVE  HeldOK'
<1>0. /\ pc \in [Client -> PC] /\ conn \in [Client -> Conn \cup {NoConn}]
      /\ NoConn \notin open /\ NoConn \notin Conn
  BY Zenon, ConnPoolAssumption DEF HInv, Inv, TypeOK, StoreTypeOK
<1>1. /\ conn[t] \in Conn /\ conn[t] \notin IdleSet /\ pc[t] = "returning"
      /\ pc' = [pc EXCEPT ![t] = "out"] /\ conn' = [conn EXCEPT ![t] = NoConn]
      /\ wconn' = wconn /\ closed' = closed
      /\ active' = active \ {conn[t]}
      /\ \/ IdleSet' = IdleSet \cup {conn[t]} /\ open' = open /\ conn[t] \in open
         \/ IdleSet' = IdleSet /\ open' = open \ {conn[t]}
  BY Zenon, ReturnStore DEF Close
<1>2. \A u \in Client : wconn[u] # conn[t] /\ (u # t => conn[u] # conn[t])
  BY Zenon, <1>0, <1>1 DEF HInv, Inv, Private
<1> QED
  BY Zenon, <1>0, <1>1, <1>2 DEF HInv, HeldOK

\* Prefetching, removal and closing close only idle connections, until Close.
LEMMA HeldOther ==
    ASSUME HInv, \/ PrefetchStep \/ RemoveFinish \/ ClosePool
                 \/ \E b \in Removable : RemoveCheck(b) \/ AddBackend(b)
    PROVE  HeldOK'
<1>1. CASE PrefetchStep
  <2>1. /\ idle' = idle /\ active' = active
        /\ UNCHANGED <<waitVars, clientVars, adminVars>>
        /\ open' = open \/ \E c \in Conn : Fresh(c) /\ open' = open \cup {c}
    BY Zenon, <1>1 DEF storeVars, PrefetchStep, PrefetchIdle, PrefetchActive, PrefetchSize,
                PrefetchAlloc, PrefetchDial
  <2>2. IdleSet' = IdleSet
    BY Zenon, <2>1 DEF IdleSet
  <2> QED
    BY Zenon, <2>1, <2>2 DEF HInv, HeldOK, waitVars, clientVars, adminVars, Fresh
<1>2. CASE RemoveFinish
  <2>1. PICK b : b = removing
    BY Zenon
  <2>2. closeBackend(b) /\ StoreTypeOK /\ IndexOK
    BY Zenon, <1>2, <2>1 DEF RemoveFinish, HInv, Inv, TypeOK
  <2> DEFINE gone == {c \in IdleSet : BackendOf[c] = b}
  <2>3. IdleSet' = IdleSet \ gone /\ Close(gone) /\ active' = active
    BY Zenon, <2>2, CloseBackendStore
  <2>4. gone \subseteq IdleSet
    BY Zenon
  <2> HIDE DEF gone
  <2>5. open' = open \ gone
    BY Zenon, <2>3 DEF Close
  <2>6. UNCHANGED <<waitVars, clientVars, closed>>
    BY Zenon, <1>2 DEF RemoveFinish
  <2> QED
    BY Zenon, <2>3, <2>4, <2>5, <2>6
    DEF HInv, Inv, Private, HeldOK, waitVars, clientVars
<1>3. CASE ClosePool
  <2>1. /\ IdleSet' = {} /\ open' = open \ (IdleSet \cup active) /\ closed'
        /\ UNCHANGED <<waitVars, clientVars>>
    BY Zenon, <1>3, CloseAllStore DEF ClosePool, closeAll, Close, HInv, Inv, TypeOK
  <2> QED
    BY Zenon, <2>1 DEF HInv, HeldOK, waitVars, clientVars
<1>4. CASE \E b \in Removable : RemoveCheck(b) \/ AddBackend(b)
  <2>1. UNCHANGED <<storeVars, waitVars, clientVars, closed>>
    BY Zenon, <1>4 DEF RemoveCheck, AddBackend
  <2> QED
    BY Zenon, <2>1 DEF HInv, HeldOK, storeVars, waitVars, clientVars, IdleSet
<1> QED
  BY Zenon, <1>1, <1>2, <1>3, <1>4

\* The connections that clients refer to are open and registered as active.
THEOREM HeldInvariant == Spec => []HInv
<1>1. Init => HeldOK
  BY ConnPoolAssumption DEF Init, InitStore, InitWait, HeldOK, IdleSet
<1>2. Inv /\ Inv' /\ HeldOK /\ [Next]_vars => HeldOK'
  <2> SUFFICES ASSUME HInv, Inv', [Next]_vars PROVE HeldOK'
    BY Zenon DEF HInv
  <2>1. ASSUME UNCHANGED vars PROVE HeldOK'
    BY Zenon, <2>1 DEF HInv, HeldOK, vars, storeVars, waitVars, clientVars, otherVars,
                adminVars, IdleSet
  <2>2. ASSUME NEW t \in Client, Begin(t) \/ Step(t) \/ HandOff(t) \/ NobodyWaits(t)
        PROVE  HeldOK'
    BY Zenon, <2>2, HeldMove, HeldTakeIdle, HeldDial, HeldQueue, HeldReturn DEF Step
  <2> QED
    BY Zenon, <2>1, <2>2, HeldOther DEF Next
<1>3. HInv <=> Inv /\ HeldOK
  BY Zenon DEF HInv
<1> QED
  BY <1>1, <1>2, <1>3, PoolInvariant, PTL DEF Spec

\* Until the pool is closed, what is idle, delivered or in use is open.
THEOREM PoolHandedOpen == Spec => []HandedOpen
<1>1. HInv => HandedOpen
  BY Zenon DEF HInv, HeldOK, HandedOpen, Holding
<1> QED
  BY <1>1, HeldInvariant, PTL

----------------------------------------------------------------------------
(* The size of the pool *)

\* Clients that have passed the capacity check and whose connection does not
\* count yet.
Creating == {t \in Client : pc[t] \in {"alloc", "select", "dial", "add"}}

SizeInv == size + Cardinality(Creating) <= MaxConns - 1 + Cardinality(Client)

\* The counts are natural numbers.
LEMMA Counts ==
    ASSUME Inv
    PROVE  /\ Cardinality(Client) \in Nat /\ MaxConns \in Nat \ {0}
           /\ IsFiniteSet(active) /\ Cardinality(active) \in Nat
           /\ Len(idle) \in Nat /\ size \in Nat
           /\ IsFiniteSet(Creating) /\ Cardinality(Creating) \in Nat
           /\ Cardinality(Creating) <= Cardinality(Client)
<1>1. IsFiniteSet(Client) /\ IsFiniteSet(Conn) /\ MaxConns \in Nat \ {0}
  BY Zenon, ConnPoolAssumption, ServerConnAssumption
<1>2. active \subseteq Conn /\ Len(idle) \in Nat
  BY DEF Inv, TypeOK, StoreTypeOK
<1>3. IsFiniteSet(active) /\ Cardinality(active) \in Nat
  BY Zenon, <1>1, <1>2, FS_Subset, FS_CardinalityType
<1>4. Creating \subseteq Client
  BY Zenon DEF Creating
<1>5. /\ IsFiniteSet(Creating) /\ Cardinality(Creating) \in Nat
      /\ Cardinality(Creating) <= Cardinality(Client)
  BY Zenon, <1>1, <1>4, FS_Subset, FS_CardinalityType
<1> QED
  BY <1>1, <1>2, <1>3, <1>5, FS_CardinalityType DEF size

\* A step that lets nobody into createServerConn and adds no connection.
LEMMA SizeShrinks ==
    ASSUME Inv, Inv', SizeInv, Creating' \subseteq Creating,
           Len(idle') + Cardinality(active') <= Len(idle) + Cardinality(active)
    PROVE  SizeInv'
<1>1. Cardinality(Creating') <= Cardinality(Creating)
  BY Zenon, Counts, FS_Subset
<1>2. Cardinality(Creating') \in Nat /\ size' \in Nat
  <2>1. IsFiniteSet(Creating')
    BY Zenon, Counts, FS_Subset
  <2>2. active' \subseteq Conn /\ Len(idle') \in Nat
    BY DEF Inv, TypeOK, StoreTypeOK
  <2>3. IsFiniteSet(active')
    BY Zenon, <2>2, ServerConnAssumption, FS_Subset
  <2> QED
    BY <2>1, <2>2, <2>3, FS_CardinalityType DEF size
<1>3. size' <= size
  BY Zenon DEF size
<1> QED
  BY <1>1, <1>2, <1>3, Counts DEF SizeInv

\* The connections do not change.
LEMMA SizeSame ==
    ASSUME Inv, idle' = idle, active' \subseteq active
    PROVE  Len(idle') + Cardinality(active') <= Len(idle) + Cardinality(active)
<1>1. IsFiniteSet(active') /\ Cardinality(active') <= Cardinality(active)
  BY Zenon, Counts, FS_Subset
<1> QED
  BY <1>1, Counts, FS_CardinalityType

\* The bound on the size, step by step of a client.
LEMMA SizeClient ==
    ASSUME HInv, Inv', SizeInv, NEW t \in Client,
           Begin(t) \/ Step(t) \/ HandOff(t) \/ NobodyWaits(t)
    PROVE  SizeInv'
<1>0. /\ Inv /\ pc \in [Client -> PC]
  BY Zenon DEF HInv, Inv, TypeOK
<1>1. CASE CheckSize(t) /\ size < MaxConns
  <2>1. idle' = idle /\ active' = active /\ pc' = [pc EXCEPT ![t] = "alloc"]
    BY Zenon, <1>1 DEF CheckSize, storeVars, Goto
  <2>2. size' = size
    BY Zenon, <2>1 DEF size
  <2>3. Creating' \subseteq Client
    BY Zenon DEF Creating
  <2>4. Cardinality(Creating') <= Cardinality(Client) /\ Cardinality(Creating') \in Nat
    BY Zenon, <2>3, ConnPoolAssumption, FS_Subset, FS_CardinalityType
  <2> QED
    BY <1>0, <1>1, <2>2, <2>4, Counts DEF SizeInv
<1>2. CASE AddActive(t)
  <2>1. /\ idle' = idle /\ active' = active \cup {conn[t]} /\ pc[t] = "add"
        /\ pc' = [pc EXCEPT ![t] = "holding"]
    BY Zenon, <1>2 DEF AddActive, addActive, Goto
  <2>2. Cardinality(active') <= Cardinality(active) + 1 /\ Cardinality(active') \in Nat
    <3>1. IsFiniteSet(active) /\ Cardinality(active) \in Nat
      BY Zenon, <1>0, Counts
    <3>2. /\ IsFiniteSet(active')
          /\ Cardinality(active') = Cardinality(active)
             \/ Cardinality(active') = Cardinality(active) + 1
      BY Zenon, <2>1, <3>1, FS_AddElement
    <3> QED
      BY <3>1, <3>2
  <2>3. Creating' = Creating \ {t} /\ t \in Creating
    BY Zenon, <1>0, <2>1 DEF Creating
  <2>4. Cardinality(Creating') = Cardinality(Creating) - 1
    BY Zenon, <1>0, <2>3, Counts, FS_RemoveElement
  <2>5. Cardinality(Creating) \in Nat /\ size \in Nat
        /\ Len(idle) \in Nat /\ Cardinality(active) \in Nat
        /\ Cardinality(Client) \in Nat /\ MaxConns \in Nat
    BY Zenon, <1>0, Counts
  <2>6. size' <= size + 1 /\ size' \in Nat
    BY <2>1, <2>2, <2>5 DEF size
  <2> QED
    BY <2>4, <2>5, <2>6 DEF SizeInv
<1>3. CASE TakeIdle(t)
  <2>1. PICK c \in Conn : acquire(c) /\ Goto(t, "holding", c)
    BY Zenon, <1>3 DEF TakeIdle
  <2>2. Len(idle') = Len(idle) - 1
    BY Zenon, <1>0, <2>1, AcquireStore DEF Inv, TypeOK
  <2>3. /\ active' = active \cup {c} /\ pc' = [pc EXCEPT ![t] = "holding"]
    BY Zenon, <2>1 DEF acquire, Goto
  <2>4. Cardinality(active') <= Cardinality(active) + 1 /\ Cardinality(active') \in Nat
    <3>1. IsFiniteSet(active) /\ Cardinality(active) \in Nat
      BY Zenon, <1>0, Counts
    <3>2. /\ IsFiniteSet(active')
          /\ Cardinality(active') = Cardinality(active)
             \/ Cardinality(active') = Cardinality(active) + 1
      BY Zenon, <2>3, <3>1, FS_AddElement
    <3> QED
      BY <3>1, <3>2
  <2>5. Creating' \subseteq Creating
    BY Zenon, <1>0, <2>3 DEF Creating
  <2>6. Len(idle') + Cardinality(active') <= Len(idle) + Cardinality(active)
    BY <1>0, <2>2, <2>4, Counts
  <2> QED
    BY Zenon, <1>0, <2>5, <2>6, SizeShrinks
<1>4. CASE Return(t)
  <2>1. /\ pc[t] = "returning" /\ pc' = [pc EXCEPT ![t] = "out"]
        /\ active' = active \ {conn[t]}
        /\ \/ Len(idle') = Len(idle) + 1 /\ conn[t] \in open
           \/ idle' = idle
    BY Zenon, <1>4, ReturnStore
  <2>2. Creating' \subseteq Creating
    BY Zenon, <1>0, <2>1 DEF Creating
  <2>3. CASE idle' = idle
    BY Zenon, <1>0, <2>1, <2>2, <2>3, SizeSame, SizeShrinks
  <2>4. CASE Len(idle') = Len(idle) + 1 /\ conn[t] \in open
    <3>1. conn[t] \in active
      BY Zenon, <2>1, <2>4 DEF HInv, HeldOK
    <3>2. Cardinality(active') = Cardinality(active) - 1
      BY Zenon, <1>0, <2>1, <3>1, Counts, FS_RemoveElement
    <3>3. Len(idle') + Cardinality(active') <= Len(idle) + Cardinality(active)
      BY <1>0, <2>4, <3>2, Counts
    <3> QED
      BY Zenon, <1>0, <2>2, <3>3, SizeShrinks
  <2> QED
    BY Zenon, <2>1, <2>3, <2>4
<1>5. CASE \/ Begin(t) \/ NoIdle(t) \/ (CheckSize(t) /\ ~(size < MaxConns))
           \/ Reserve(t) \/ Select(t) \/ SelectNone(t) \/ Dial(t) \/ DialFails(t)
           \/ JoinQueue(t) \/ Wake(t) \/ TimeOut(t) \/ LeaveQueue(t) \/ HandOff(t)
           \/ NobodyWaits(t)
  <2>1. idle' = idle /\ active' = active
    BY Zenon, <1>5 DEF Begin, NoIdle, CheckSize, Reserve, Select, SelectNone, Dial, DialFails,
                JoinQueue, Wake, TimeOut, LeaveQueue, HandOff, NobodyWaits, storeVars
  <2>2. \E p \in PC : /\ pc' = [pc EXCEPT ![t] = p]
                      /\ p \in {"alloc", "select", "dial", "add"} => t \in Creating
    <3> USE <1>0 DEF PC, Acquiring, Reserved, Goto, Creating
    <3>1. CASE Begin(t) \/ NoIdle(t) \/ (CheckSize(t) /\ ~(size < MaxConns))
               \/ JoinQueue(t) \/ TimeOut(t) \/ LeaveQueue(t)
      BY <3>1 DEF Begin, NoIdle, CheckSize, JoinQueue, TimeOut, LeaveQueue
    <3>2. CASE Reserve(t) \/ Select(t) \/ SelectNone(t)
      BY Zenon, <3>2 DEF Reserve, Select, SelectNone
    <3>3. CASE Dial(t) \/ DialFails(t)
      BY Zenon, <3>3 DEF Dial, DialFails
    <3>4. CASE Wake(t) \/ HandOff(t) \/ NobodyWaits(t)
      BY <3>4 DEF Wake, HandOff, NobodyWaits
    <3> QED
      BY Zenon, <1>5, <3>1, <3>2, <3>3, <3>4
  <2>3. Creating' \subseteq Creating
    BY Zenon, <1>0, <2>2 DEF Creating
  <2> QED
    BY Zenon, <1>0, <2>1, <2>3, SizeSame, SizeShrinks
<1>6. CheckSize(t) => \/ CheckSize(t) /\ size < MaxConns
                      \/ CheckSize(t) /\ ~(size < MaxConns)
  BY Zenon
<1> QED
  BY Zenon, <1>1, <1>2, <1>3, <1>4, <1>5, <1>6 DEF Step

\* The other goroutines never increase the size.
LEMMA SizeOther ==
    ASSUME HInv, Inv', SizeInv,
           \/ PrefetchStep \/ RemoveFinish \/ ClosePool
           \/ \E b \in Removable : RemoveCheck(b) \/ AddBackend(b)
    PROVE  SizeInv'
<1>0. Inv /\ StoreTypeOK /\ IndexOK
  BY Zenon DEF HInv, Inv, TypeOK
<1>1. pc' = pc
  BY Zenon DEF PrefetchStep, PrefetchIdle, PrefetchActive, PrefetchSize, PrefetchAlloc,
         PrefetchDial, RemoveFinish, ClosePool, RemoveCheck, AddBackend, clientVars
<1>2. Creating' \subseteq Creating
  BY Zenon, <1>1 DEF Creating
<1>3. Len(idle') + Cardinality(active') <= Len(idle) + Cardinality(active)
  <2>1. CASE PrefetchStep \/ \E b \in Removable : RemoveCheck(b) \/ AddBackend(b)
    <3>1. idle' = idle /\ active' = active
      BY Zenon, <2>1 DEF PrefetchStep, PrefetchIdle, PrefetchActive, PrefetchSize,
                  PrefetchAlloc, PrefetchDial, RemoveCheck, AddBackend, storeVars
    <3> QED
      BY Zenon, <1>0, <3>1, SizeSame
  <2>2. CASE RemoveFinish
    <3>1. PICK b : b = removing
      BY Zenon
    <3>2. closeBackend(b)
      BY Zenon, <2>2, <3>1 DEF RemoveFinish
    <3>3. Len(idle') <= Len(idle) /\ active' = active
      BY Zenon, <1>0, <3>2, CloseBackendStore
    <3>4. Len(idle') \in Nat
      BY DEF Inv, TypeOK, StoreTypeOK
    <3> QED
      BY <1>0, <3>3, <3>4, Counts
  <2>3. CASE ClosePool
    <3>1. Len(idle') = 0 /\ active' = {}
      BY <1>0, <2>3, CloseAllStore DEF ClosePool
    <3> QED
      BY <1>0, <3>1, Counts, FS_EmptySet
  <2> QED
    BY Zenon, <2>1, <2>2, <2>3
<1> QED
  BY <1>0, <1>2, <1>3, SizeShrinks

\* The pool outgrows MaxServerConnections by at most the number of clients less
\* one: the unlocked check of Acquire lets each concurrent client through once.
THEOREM PoolOvershoot == Spec => []OvershootBound
<1>1. Init /\ HInv => SizeInv
  <2> SUFFICES ASSUME Init, HInv PROVE SizeInv
    BY Zenon
  <2>1. Cardinality(Client) \in Nat /\ MaxConns \in Nat \ {0}
    BY Zenon, Counts DEF HInv
  <2>2. Len(idle) = 0 /\ Cardinality(active) = 0 /\ Cardinality(Creating) = 0
    <3>1. idle = <<>> /\ active = {} /\ Creating = {}
      BY Zenon DEF Init, InitStore, Creating
    <3> QED
      BY Zenon, <3>1, FS_EmptySet
  <2> QED
    BY <2>1, <2>2 DEF SizeInv, size
<1>2. HInv /\ HInv' /\ SizeInv /\ [Next]_vars => SizeInv'
  <2> SUFFICES ASSUME HInv, Inv', SizeInv, [Next]_vars PROVE SizeInv'
    BY Zenon DEF HInv
  <2>1. ASSUME UNCHANGED vars PROVE SizeInv'
    BY Zenon, <2>1 DEF SizeInv, size, Creating, vars, storeVars, clientVars
  <2> QED
    BY Zenon, <2>1, SizeClient, SizeOther DEF Next
<1>3. HInv /\ SizeInv => OvershootBound
  BY Counts DEF HInv, SizeInv, OvershootBound
<1> QED
  BY <1>1, <1>2, <1>3, HeldInvariant, PTL DEF Spec

----------------------------------------------------------------------------
(* The memory account *)

Reserving == {t \in Client : pc[t] \in Reserved}
Prefetching == IF prefetch = "select" THEN 1 ELSE 0

\* The account is balanced; MemoryExact in the terms of the proof.
Balanced == /\ used = Cardinality(open) + Cardinality(Reserving) + Prefetching
            /\ used <= MemLimit

\* Finite sets count as the memory accounting needs.
LEMMA MemCounts ==
    ASSUME Inv
    PROVE  /\ IsFiniteSet(open) /\ Cardinality(open) \in Nat
           /\ IsFiniteSet(Reserving) /\ Cardinality(Reserving) \in Nat
           /\ Prefetching \in Nat /\ used \in Nat /\ MemLimit \in Nat
<1>1. IsFiniteSet(Client) /\ IsFiniteSet(Conn) /\ MemLimit \in Nat
  BY Zenon, ConnPoolAssumption, ServerConnAssumption
<1>2. open \subseteq Conn /\ used \in Nat /\ Reserving \subseteq Client
  BY Zenon DEF Inv, TypeOK, StoreTypeOK, Reserving
<1> QED
  BY Zenon, <1>1, <1>2, FS_Subset, FS_CardinalityType DEF Prefetching

\* Nothing that counts changes.
LEMMA BalanceSame ==
    ASSUME Balanced, used' = used, open' = open, Reserving' = Reserving,
           prefetch' = prefetch
    PROVE  Balanced'
BY Zenon DEF Balanced, Prefetching

\* A client's step keeps memory, open connections and reservations in balance.
LEMMA BalanceClient ==
    ASSUME HInv, Inv', Balanced, ~closed, MemLimit # 0, NEW t \in Client,
           Begin(t) \/ Step(t) \/ HandOff(t) \/ NobodyWaits(t)
    PROVE  Balanced'
<1>0. Inv /\ pc \in [Client -> PC]
  BY Zenon DEF HInv, Inv, TypeOK
<1>c. /\ IsFiniteSet(open) /\ Cardinality(open) \in Nat
      /\ IsFiniteSet(Reserving) /\ Cardinality(Reserving) \in Nat
      /\ Prefetching \in Nat /\ used \in Nat /\ MemLimit \in Nat
  BY Zenon, <1>0, MemCounts
<1>p. prefetch' = prefetch
  BY Zenon DEF Step, Begin, TakeIdle, NoIdle, CheckSize, Reserve, Select, SelectNone, Dial,
         DialFails, AddActive, JoinQueue, Wake, TimeOut, LeaveQueue, Return, HandOff,
         NobodyWaits, otherVars, prefetchVars
<1>r. \A p \in PC : pc' = [pc EXCEPT ![t] = p] =>
         Reserving' = IF p \in Reserved THEN Reserving \cup {t} ELSE Reserving \ {t}
  BY Zenon, <1>0 DEF Reserving
<1>1. CASE Reserve(t) /\ TryAlloc /\ Goto(t, "select", NoConn)
  <2>1. /\ used' = used + 1 /\ used + 1 <= MemLimit /\ open' = open
        /\ t \notin Reserving /\ pc' = [pc EXCEPT ![t] = "select"]
    BY Zenon, <1>1 DEF Reserve, TryAlloc, CanAlloc, Goto, Reserving, Reserved
  <2>2. Reserving' = Reserving \cup {t}
    BY Zenon, <1>r, <2>1 DEF PC, Acquiring, Reserved
  <2>3. Cardinality(Reserving') = Cardinality(Reserving) + 1
    BY Zenon, <1>c, <2>1, <2>2, FS_AddElement
  <2> QED
    BY <1>c, <1>p, <2>1, <2>3 DEF Balanced, Prefetching
<1>2. CASE Dial(t)
  <2>1. /\ used' = used /\ open' = open \cup {conn[t]} /\ conn[t] \notin open
        /\ t \in Reserving /\ pc' = [pc EXCEPT ![t] = "add"]
    BY Zenon, <1>2 DEF Dial, HInv, HeldOK, Reserving, Reserved
  <2>2. Reserving' = Reserving \ {t}
    BY <1>r, <2>1 DEF PC, Acquiring, Reserved
  <2>3. /\ Cardinality(Reserving') = Cardinality(Reserving) - 1
        /\ Cardinality(open') = Cardinality(open) + 1
    BY Zenon, <1>c, <2>1, <2>2, FS_AddElement, FS_RemoveElement
  <2> QED
    BY <1>c, <1>p, <2>1, <2>3 DEF Balanced, Prefetching
<1>3. CASE /\ used' = FreedBy(1) /\ open' = open
           /\ pc' = [pc EXCEPT ![t] = "out"] /\ t \in Reserving
  <2>2. Reserving' = Reserving \ {t}
    BY <1>r, <1>3 DEF PC, Acquiring, Reserved
  <2>3. Cardinality(Reserving') = Cardinality(Reserving) - 1
        /\ Cardinality(Reserving') \in Nat
    <3>1. IsFiniteSet(Reserving') /\ Cardinality(Reserving') = Cardinality(Reserving) - 1
      BY Zenon, <1>c, <1>3, <2>2, FS_RemoveElement
    <3> QED
      BY Zenon, <3>1, FS_CardinalityType
  <2>4. used >= 1
    BY <1>c, <2>3 DEF Balanced
  <2>5. used' = used - 1
    BY Zenon, <1>c, <1>3, <2>4 DEF FreedBy
  <2> QED
    BY <1>c, <1>p, <1>3, <2>3, <2>5 DEF Balanced, Prefetching
<1>4. CASE Return(t)
  <2>1. /\ pc[t] = "returning" /\ pc' = [pc EXCEPT ![t] = "out"]
        /\ (open' = open /\ used' = used) \/ Close({conn[t]})
    BY Zenon, <1>4, ReturnStore
  <2>2. Reserving' = Reserving
    BY Zenon, <1>r, <2>1 DEF PC, Acquiring, Reserved, Reserving
  <2>3. CASE open' = open /\ used' = used
    BY Zenon, <1>p, <2>2, <2>3, BalanceSame
  <2>4. CASE Close({conn[t]})
    <3>1. conn[t] \in open
      BY Zenon, <2>1 DEF HInv, HeldOK
    <3>2. open' = open \ {conn[t]} /\ used' = FreedBy(1)
      BY Zenon, <2>4, FS_Singleton DEF Close
    <3>3. Cardinality(open') = Cardinality(open) - 1 /\ Cardinality(open') \in Nat
      <4>1. IsFiniteSet(open') /\ Cardinality(open') = Cardinality(open) - 1
        BY Zenon, <1>c, <3>1, <3>2, FS_RemoveElement
      <4> QED
        BY Zenon, <4>1, FS_CardinalityType
    <3>4. used >= 1
      BY <1>c, <3>3 DEF Balanced
    <3>5. used' = used - 1
      BY Zenon, <1>c, <3>2, <3>4 DEF FreedBy
    <3> QED
      BY <1>c, <1>p, <2>2, <3>3, <3>5 DEF Balanced, Prefetching
  <2> QED
    BY Zenon, <2>1, <2>3, <2>4
<1>5. ASSUME used' = used, open' = open,
             NEW p \in PC, pc' = [pc EXCEPT ![t] = p],
             p \in Reserved <=> pc[t] \in Reserved
      PROVE  Balanced'
  <2>1. Reserving' = Reserving
    BY Zenon, <1>0, <1>5 DEF Reserving
  <2> QED
    BY Zenon, <1>p, <1>5, <2>1, BalanceSame
<1> USE DEF PC, Acquiring, Reserved, Goto
<1>6. CASE Begin(t) \/ NoIdle(t) \/ CheckSize(t) \/ AddActive(t)
  BY Zenon, <1>5, <1>6 DEF Begin, NoIdle, CheckSize, AddActive, addActive, storeVars
<1>7. CASE Reserve(t) /\ ~(TryAlloc /\ Goto(t, "select", NoConn))
  BY Zenon, <1>5, <1>7 DEF Reserve
<1>8. CASE TakeIdle(t)
  BY Zenon, <1>5, <1>8 DEF TakeIdle, acquire
<1>9. CASE Select(t)
  BY Zenon, <1>5, <1>9 DEF Select, storeVars
<1>10. CASE SelectNone(t)
  BY Zenon, <1>3, <1>10 DEF SelectNone, Reserving
<1>11. CASE DialFails(t)
  <2>1. CASE tries[t] + 1 < Retries /\ UNCHANGED used /\ pc' = [pc EXCEPT ![t] = "select"]
    BY Zenon, <1>5, <1>11, <2>1 DEF DialFails
  <2>2. CASE used' = FreedBy(1) /\ pc' = [pc EXCEPT ![t] = "out"]
    BY Zenon, <1>3, <1>11, <2>2 DEF DialFails, Reserving
  <2> QED
    BY Zenon, <1>11, <2>1, <2>2 DEF DialFails
<1>12. CASE JoinQueue(t) \/ Wake(t) \/ TimeOut(t) \/ LeaveQueue(t) \/ HandOff(t)
            \/ NobodyWaits(t)
  BY Zenon, <1>5, <1>12 DEF JoinQueue, Wake, TimeOut, LeaveQueue, HandOff, NobodyWaits, storeVars
<1>13. Reserve(t) => \/ Reserve(t) /\ (TryAlloc /\ Goto(t, "select", NoConn))
                     \/ Reserve(t) /\ ~(TryAlloc /\ Goto(t, "select", NoConn))
  BY Zenon
<1> QED
  BY <1>1, <1>2, <1>4, <1>6, <1>7, <1>8, <1>9, <1>10, <1>11, <1>12, <1>13 DEF Step

\* So do the other goroutines, until Close.
LEMMA BalanceOther ==
    ASSUME HInv, Inv', Balanced, ~closed, ~closed', MemLimit # 0,
           \/ PrefetchStep \/ RemoveFinish \/ ClosePool
           \/ \E b \in Removable : RemoveCheck(b) \/ AddBackend(b)
    PROVE  Balanced'
<1>0. Inv /\ StoreTypeOK /\ IndexOK
  BY Zenon DEF HInv, Inv, TypeOK
<1>c. /\ IsFiniteSet(open) /\ Cardinality(open) \in Nat
      /\ IsFiniteSet(Reserving) /\ Cardinality(Reserving) \in Nat
      /\ Prefetching \in Nat /\ used \in Nat /\ MemLimit \in Nat
  BY Zenon, <1>0, MemCounts
<1>r. Reserving' = Reserving
  BY Zenon DEF Reserving, PrefetchStep, PrefetchIdle, PrefetchActive, PrefetchSize,
         PrefetchAlloc, PrefetchDial, RemoveFinish, ClosePool, RemoveCheck, AddBackend,
         clientVars
<1>1. CASE PrefetchIdle \/ PrefetchActive \/ PrefetchSize
  BY Zenon, <1>1, <1>r DEF PrefetchIdle, PrefetchActive, PrefetchSize, storeVars, Balanced,
                    Prefetching
<1>2. CASE PrefetchAlloc
  <2>1. CASE TryAlloc /\ prefetch' = "select"
    <3>1. used' = used + 1 /\ used + 1 <= MemLimit /\ open' = open
          /\ prefetch = "alloc"
      BY Zenon, <1>2, <2>1 DEF PrefetchAlloc, TryAlloc, CanAlloc
    <3> QED
      BY <1>c, <1>r, <2>1, <3>1 DEF Balanced, Prefetching
  <2>2. CASE prefetch' = "idle" /\ UNCHANGED used
    BY Zenon, <1>2, <1>r, <2>2 DEF PrefetchAlloc, Balanced, Prefetching
  <2> QED
    BY Zenon, <1>2, <2>1, <2>2 DEF PrefetchAlloc
<1>3. CASE PrefetchDial
  <2>1. Prefetching = 1 /\ Prefetching' = 0
    BY Zenon, <1>3 DEF PrefetchDial, Prefetching
  <2>2. CASE used' = FreedBy(1) /\ UNCHANGED open
    <3>1. used' = used - 1
      BY <1>c, <2>1, <2>2 DEF Balanced, FreedBy
    <3> QED
      BY <1>c, <1>r, <2>1, <2>2, <3>1 DEF Balanced
  <2>3. ASSUME NEW c \in Conn, Fresh(c), open' = open \cup {c}, UNCHANGED used
        PROVE  Balanced'
    <3>1. c \notin open
      BY Zenon, <2>3 DEF Fresh, Unknown
    <3>2. Cardinality(open') = Cardinality(open) + 1
      BY Zenon, <1>c, <2>3, <3>1, FS_AddElement
    <3> QED
      BY <1>c, <1>r, <2>1, <2>3, <3>2 DEF Balanced
  <2> QED
    BY Zenon, <1>3, <2>2, <2>3 DEF PrefetchDial
<1>4. CASE RemoveFinish
  <2>1. PICK b : b = removing
    BY Zenon
  <2>2. closeBackend(b) /\ prefetch' = prefetch
    BY Zenon, <1>4, <2>1 DEF RemoveFinish, prefetchVars
  <2> DEFINE gone == {c \in IdleSet : BackendOf[c] = b}
  <2>3. Close(gone)
    BY Zenon, <1>0, <2>2, CloseBackendStore
  <2>4. gone \subseteq open
    BY Zenon DEF HInv, HeldOK
  <2> HIDE DEF gone
  <2>5. open' = open \ gone /\ used' = FreedBy(Cardinality(gone))
    BY Zenon, <2>3 DEF Close
  <2>6. open \cap gone = gone
    BY Zenon, <2>4
  <2>7. /\ Cardinality(gone) \in Nat /\ Cardinality(gone) <= Cardinality(open)
        /\ Cardinality(open') = Cardinality(open) - Cardinality(gone)
    <3>1. /\ IsFiniteSet(gone) /\ Cardinality(gone) <= Cardinality(open)
      BY Zenon, <1>c, <2>4, FS_Subset
    <3>2. Cardinality(open \ gone) = Cardinality(open) - Cardinality(open \cap gone)
      BY Zenon, <1>c, FS_Difference
    <3> QED
      BY Zenon, <2>5, <2>6, <3>1, <3>2, FS_CardinalityType
  <2>8. used' = used - Cardinality(gone)
    BY <1>c, <2>5, <2>7 DEF FreedBy, Balanced
  <2> QED
    BY <1>c, <1>r, <2>2, <2>7, <2>8 DEF Balanced, Prefetching
<1>5. CASE ClosePool
  BY Zenon, <1>5 DEF ClosePool
<1>6. CASE \E b \in Removable : RemoveCheck(b) \/ AddBackend(b)
  BY Zenon, <1>6, <1>r DEF RemoveCheck, AddBackend, storeVars, prefetchVars, Balanced, Prefetching
<1> QED
  BY Zenon, <1>1, <1>2, <1>3, <1>4, <1>5, <1>6 DEF PrefetchStep

\* globalMemoryUsed counts the open connections and the dials in progress
\* exactly, and stays within the limit, as long as the pool is not closed.
THEOREM PoolMemoryExact == Spec => []MemoryExact
<1> DEFINE MInv == (MemLimit # 0 /\ ~closed) => Balanced
<1>1. Init => MInv
  <2> SUFFICES ASSUME Init PROVE Balanced
    BY Zenon
  <2>1. open = {} /\ used = 0 /\ Reserving = {} /\ Prefetching = 0
    BY Zenon DEF Init, InitStore, Reserving, Reserved, Prefetching
  <2> QED
    BY <2>1, FS_EmptySet, ServerConnAssumption DEF Balanced
<1>2. HInv /\ HInv' /\ MInv /\ [Next]_vars => MInv'
  <2> SUFFICES ASSUME HInv, Inv', MInv, [Next]_vars, MemLimit # 0, ~closed'
               PROVE  Balanced'
    BY Zenon DEF HInv
  <2>1. ~closed
    <3>1. CASE UNCHANGED closed
      BY Zenon, <3>1
    <3>2. CASE ClosePool
      BY ZenonT(30), <3>2 DEF ClosePool
    <3>3. UNCHANGED closed \/ ClosePool
      BY Zenon DEF Next, Step, Begin, TakeIdle, NoIdle, CheckSize, Reserve, Select,
             SelectNone, Dial, DialFails, AddActive, JoinQueue, Wake, TimeOut,
             LeaveQueue, Return, HandOff, NobodyWaits, PrefetchStep, PrefetchIdle,
             PrefetchActive, PrefetchSize, PrefetchAlloc, PrefetchDial, RemoveCheck,
             RemoveFinish, AddBackend, otherVars, adminVars, vars
    <3> QED
      BY Zenon, <3>1, <3>2, <3>3
  <2>2. Balanced
    BY Zenon, <2>1
  <2>3. ASSUME UNCHANGED vars PROVE Balanced'
    BY Zenon, <2>2, <2>3 DEF Balanced, Reserving, Prefetching, vars, storeVars, clientVars,
                      otherVars, prefetchVars
  <2> QED
    BY Zenon, <2>1, <2>2, <2>3, BalanceClient, BalanceOther DEF Next
<1>3. HInv /\ MInv => MemoryExact
  <2> SUFFICES ASSUME HInv, Balanced
               PROVE  used = Cardinality(open) + Reservations /\ used <= MemLimit
    BY Zenon DEF MemoryExact
  <2>1. Cardinality(open) \in Nat /\ Cardinality(Reserving) \in Nat /\ Prefetching \in Nat
    BY Zenon, MemCounts DEF HInv
  <2>2. Reservations = Cardinality(Reserving) + Prefetching
    BY Zenon DEF Reservations, Reserving, Prefetching
  <2> QED
    BY <2>1, <2>2 DEF Balanced
<1> QED
  BY <1>1, <1>2, <1>3, HeldInvariant, PTL DEF Spec

----------------------------------------------------------------------------
(* Without prefetching, no open connection is forgotten. *)

\* A step that moves connections between a client and the store loses none, if what
\* leaves a client's hands is registered, idle or closed.
LEMMA AccountedMove ==
    ASSUME OpenAccounted, NEW t \in Client,
           \A c \in open' : c \in open \/ c = conn'[t] \/ c \in active',
           \A c \in IdleSet \cup active : c \in IdleSet' \cup active' \cup {conn'[t]} \/ c \notin open',
           \A u \in Client \ {t} : conn'[u] = conn[u],
           conn[t] \in open' => conn[t] \in IdleSet' \cup active' \cup {conn'[t]}
    PROVE  OpenAccounted'
<1> SUFFICES ASSUME NEW c \in open', c \notin IdleSet' \cup active'
             PROVE  \E u \in Client : c = conn'[u]
  BY Zenon DEF OpenAccounted
<1>1. CASE c = conn'[t]
  BY Zenon, <1>1
<1>2. CASE c # conn'[t]
  <2>1. PICK u \in Client : c = conn[u]
    BY Zenon, <1>2 DEF OpenAccounted
  <2> QED
    BY Zenon, <1>2, <2>1
<1> QED
  BY Zenon, <1>1, <1>2

\* Steps of a client: a connection it gives away was registered by addActive, and one
\* it failed to dial is not open.
LEMMA AccountedClient ==
    ASSUME HInv, OpenAccounted, NEW t \in Client,
           Begin(t) \/ Step(t) \/ HandOff(t) \/ NobodyWaits(t)
    PROVE  OpenAccounted'
<1>0. /\ pc \in [Client -> PC] /\ conn \in [Client -> Conn \cup {NoConn}]
      /\ NoConn \notin open /\ open \subseteq Conn
  BY Zenon, ConnPoolAssumption DEF HInv, Inv, TypeOK, StoreTypeOK
<1>i. UNCHANGED idle => IdleSet' = IdleSet
  BY Zenon DEF IdleSet
<1>1. CASE \/ Begin(t) \/ NoIdle(t) \/ CheckSize(t) \/ Reserve(t) \/ Select(t) \/ SelectNone(t)
           \/ JoinQueue(t) \/ Wake(t) \/ TimeOut(t) \/ LeaveQueue(t) \/ NobodyWaits(t)
  <2>1. /\ UNCHANGED <<idle, active, open>> /\ \A u \in Client \ {t} : conn'[u] = conn[u]
        /\ conn'[t] = conn[t] \/ conn[t] = NoConn
    BY Zenon, <1>0, <1>1 DEF Begin, NoIdle, CheckSize, Reserve, Select, SelectNone, JoinQueue, Wake,
                 TimeOut, LeaveQueue, NobodyWaits, Goto, storeVars, HInv, Inv, PointOK, HasConn
  <2> QED
    BY Zenon, <1>0, <1>i, <2>1, AccountedMove
<1>2. CASE TakeIdle(t)
  <2>1. PICK c \in Conn : acquire(c) /\ Goto(t, "holding", c)
    BY Zenon, <1>2 DEF TakeIdle
  <2>2. IdleSet' = IdleSet \ {c} /\ active' = active \cup {c} /\ open' = open
    BY Zenon, <2>1, AcquireStore DEF acquire, HInv, Inv, TypeOK
  <2>3. conn[t] = NoConn
    BY Zenon, <1>2 DEF TakeIdle, HInv, Inv, PointOK, HasConn
  <2>4. \A u \in Client \ {t} : conn'[u] = conn[u]
    BY Zenon, <1>0, <2>1 DEF Goto
  <2> QED
    BY Zenon, <1>0, <2>2, <2>3, <2>4, AccountedMove
<1>3. CASE Dial(t) \/ AddActive(t)
  <2>1. /\ UNCHANGED <<idle, conn>> /\ active \subseteq active'
        /\ \A c \in open' : c \in open \/ c = conn[t]
    BY Zenon, <1>0, <1>3 DEF Dial, AddActive, addActive, Goto
  <2> QED
    BY Zenon, <1>i, <2>1, AccountedMove
<1>4. CASE DialFails(t)
  <2>1. /\ UNCHANGED <<idle, active, open>> /\ \A u \in Client \ {t} : conn'[u] = conn[u]
        /\ conn[t] \notin open
    BY Zenon, <1>0, <1>4 DEF DialFails, HInv, HeldOK
  <2> QED
    BY Zenon, <1>i, <2>1, AccountedMove
<1>5. CASE HandOff(t)
  <2>1. /\ UNCHANGED <<idle, active, open>> /\ \A u \in Client \ {t} : conn'[u] = conn[u]
        /\ conn[t] \in open => conn[t] \in active
    BY Zenon, <1>0, <1>5 DEF HandOff, Goto, storeVars, HInv, HeldOK
  <2> QED
    BY Zenon, <1>i, <2>1, AccountedMove
<1>6. CASE Return(t)
  <2>1. /\ conn' = [conn EXCEPT ![t] = NoConn] /\ active' = active \ {conn[t]}
        /\ \/ IdleSet' = IdleSet \cup {conn[t]} /\ open' = open
           \/ IdleSet' = IdleSet /\ open' = open \ {conn[t]}
    BY Zenon, <1>6, ReturnStore DEF Close
  <2> QED
    BY Zenon, <1>0, <2>1, AccountedMove
<1> QED
  BY Zenon, <1>1, <1>2, <1>3, <1>4, <1>5, <1>6 DEF Step

\* Removing a backend and closing the pool close what they drop.
LEMMA AccountedAdmin ==
    ASSUME HInv, OpenAccounted,
           \/ RemoveFinish \/ ClosePool \/ \E b \in Removable : RemoveCheck(b) \/ AddBackend(b)
    PROVE  OpenAccounted'
<1>1. CASE RemoveFinish
  <2>1. PICK b : b = removing
    BY Zenon
  <2>2. closeBackend(b) /\ StoreTypeOK /\ IndexOK
    BY Zenon, <1>1, <2>1 DEF RemoveFinish, HInv, Inv, TypeOK
  <2> DEFINE gone == {c \in IdleSet : BackendOf[c] = b}
  <2>3. IdleSet' = IdleSet \ gone /\ Close(gone) /\ active' = active
    BY Zenon, <2>2, CloseBackendStore
  <2> HIDE DEF gone
  <2>4. open' = open \ gone /\ conn' = conn
    BY Zenon, <1>1, <2>3 DEF Close, RemoveFinish, clientVars
  <2> QED
    BY Zenon, <2>3, <2>4 DEF OpenAccounted
<1>2. CASE ClosePool
  BY Zenon, <1>2 DEF ClosePool, closeAll, Close, OpenAccounted, clientVars
<1>3. CASE \E b \in Removable : RemoveCheck(b) \/ AddBackend(b)
  BY Zenon, <1>3 DEF RemoveCheck, AddBackend, OpenAccounted, storeVars, clientVars, IdleSet
<1> QED
  BY Zenon, <1>1, <1>2, <1>3

\* Without the prefetch goroutine every open connection is idle, registered as active or
\* in the hands of the client that dialled it: the pool can always find and close it.
THEOREM PoolOpenAccounted == ASSUME Prefetch = 0 PROVE Spec => []OpenAccounted
<1> DEFINE AInv == OpenAccounted /\ prefetch = "done"
<1>1. Init => AInv
  BY DEF Init, InitStore, OpenAccounted
<1>2. HInv /\ AInv /\ [Next]_vars => AInv'
  <2> SUFFICES ASSUME HInv, AInv, [Next]_vars PROVE AInv'
    BY Zenon
  <2>1. ~PrefetchStep
    BY Zenon DEF PrefetchStep, PrefetchIdle, PrefetchActive, PrefetchSize, PrefetchAlloc, PrefetchDial
  <2>2. ASSUME NEW t \in Client, Begin(t) \/ Step(t) \/ HandOff(t) \/ NobodyWaits(t)
        PROVE  AInv'
    <3>1. prefetch' = prefetch
      BY Zenon, <2>2 DEF Step, Begin, TakeIdle, NoIdle, CheckSize, Reserve, Select, SelectNone, Dial,
                  DialFails, AddActive, JoinQueue, Wake, TimeOut, LeaveQueue, Return, HandOff,
                  NobodyWaits, otherVars, prefetchVars
    <3> QED
      BY Zenon, <2>2, <3>1, AccountedClient
  <2>3. CASE RemoveFinish \/ ClosePool \/ \E b \in Removable : RemoveCheck(b) \/ AddBackend(b)
    <3>1. prefetch' = prefetch
      BY Zenon, <2>3 DEF RemoveFinish, ClosePool, RemoveCheck, AddBackend, prefetchVars
    <3> QED
      BY Zenon, <2>3, <3>1, AccountedAdmin
  <2>4. CASE UNCHANGED vars
    BY Zenon, <2>4 DEF OpenAccounted, IdleSet, vars, storeVars, clientVars, otherVars, prefetchVars
  <2> QED
    BY Zenon, <2>1, <2>2, <2>3, <2>4 DEF Next
<1>3. AInv => OpenAccounted
  BY Zenon
<1> QED
  BY <1>1, <1>2, <1>3, HeldInvariant, PTL DEF Spec

----------------------------------------------------------------------------
(***************************************************************************)
(* The pool implements ConnLease: a proof that every step of ConnPool is,  *)
(* through the mapping leaseOf, a step of the abstract pool or no step.    *)
(* The mapping is a function only because ownership is exclusive (Inv).    *)
(***************************************************************************)

\* Where a connection is, read off the mapping.
LeaseRead ==
    \A c \in Conn :
        /\ \A t \in Client : leaseOf[c] = t <=> c \in Owned(t)
        /\ leaseOf[c] = "idle" <=> c \in IdleSet
        /\ (\A t \in Client : c \notin Owned(t)) /\ c \notin IdleSet => leaseOf[c] = "none"

\* The mapping is determined: a client's connections, the idle ones, the rest.
LEMMA LeaseValue == Inv => LeaseRead
<1> SUFFICES ASSUME Inv, NEW c \in Conn
             PROVE  /\ \A t \in Client : leaseOf[c] = t <=> c \in Owned(t)
                    /\ leaseOf[c] = "idle" <=> c \in IdleSet
                    /\ (\A t \in Client : c \notin Owned(t)) /\ c \notin IdleSet
                          => leaseOf[c] = "none"
  BY Zenon DEF LeaseRead
<1>0. /\ \A t, u \in Client : t # u => Owned(t) \cap Owned(u) = {}
      /\ \A t \in Client : Owned(t) \cap IdleSet = {}
  BY Zenon, InvExclusive DEF ExclusiveOwnership
<1>1. leaseOf[c] = IF \E t \in Client : c \in Owned(t)
                   THEN CHOOSE t \in Client : c \in Owned(t)
                   ELSE IF c \in IdleSet THEN "idle" ELSE "none"
  BY Zenon DEF leaseOf
<1>2. ASSUME NEW t \in Client, c \in Owned(t) PROVE leaseOf[c] = t
  <2>1. \A u \in Client : c \in Owned(u) => u = t
    BY Zenon, <1>0, <1>2
  <2> QED
    BY Zenon, <1>1, <1>2, <2>1
<1>3. ASSUME \A t \in Client : c \notin Owned(t)
      PROVE  leaseOf[c] = IF c \in IdleSet THEN "idle" ELSE "none"
  BY Zenon, <1>1, <1>3
<1>4. "idle" \notin Client /\ "none" \notin Client
  BY Zenon, ConnPoolAssumption
<1>5. CASE \E t \in Client : c \in Owned(t)
  <2>1. PICK t \in Client : c \in Owned(t)
    BY Zenon, <1>5
  <2> QED
    BY Zenon, <1>0, <1>2, <1>4, <2>1
<1>6. CASE \A t \in Client : c \notin Owned(t)
  BY Zenon, <1>3, <1>4, <1>6
<1> QED
  BY Zenon, <1>5, <1>6

\* The mapping follows what clients refer to and what is idle.
LEMMA LeaseSame ==
    ASSUME IdleSet' = IdleSet, \A t \in Client : Owned(t)' = Owned(t)
    PROVE  leaseOf' = leaseOf
BY Zenon DEF leaseOf

\* One connection changes place.
LEMMA LeaseOne ==
    ASSUME Inv, Inv', NEW c \in Conn, NEW v,
           \A d \in Conn \ {c} :
              /\ d \in IdleSet' <=> d \in IdleSet
              /\ \A t \in Client : d \in Owned(t)' <=> d \in Owned(t),
           leaseOf'[c] = v
    PROVE  leaseOf' = [leaseOf EXCEPT ![c] = v]
<1>1. \A d \in Conn \ {c} : leaseOf'[d] = leaseOf[d]
  BY Zenon DEF leaseOf
<1>2. leaseOf' = [d \in Conn |-> leaseOf'[d]] /\ leaseOf = [d \in Conn |-> leaseOf[d]]
  BY Zenon DEF leaseOf
<1> QED
  BY Zenon, <1>1, <1>2

\* The same after a step.
LEMMA LeaseValueNext == ASSUME Inv' PROVE LeaseRead'
BY LeaseValue, PTL

\* A client that refers to nothing has no lease.
LEMMA NoLease ==
    ASSUME Inv, NEW t \in Client, Owned(t) = {}
    PROVE  \A c \in Conn : leaseOf[c] # t
BY Zenon, LeaseValue DEF LeaseRead

\* Steps that change nothing in the abstract pool.
LEMMA LeaseStutter ==
    ASSUME Inv, NEW t \in Client,
           \/ Begin(t) \/ NoIdle(t) \/ CheckSize(t) \/ Reserve(t) \/ SelectNone(t)
           \/ Dial(t) \/ AddActive(t) \/ TimeOut(t) \/ NobodyWaits(t)
           \/ JoinQueue(t) \/ Wake(t)
    PROVE  leaseOf' = leaseOf
<1>0. /\ conn \in [Client -> Conn \cup {NoConn}] /\ wconn \in [Client -> Conn \cup {NoConn}]
      /\ (pc[t] \notin HasConn => conn[t] = NoConn)
  BY Zenon DEF Inv, TypeOK, PointOK
<1>1. idle' = idle
  BY Zenon DEF Begin, NoIdle, CheckSize, Reserve, SelectNone, Dial, AddActive, TimeOut,
         NobodyWaits, JoinQueue, Wake, storeVars, addActive
<1>2. IdleSet' = IdleSet
  BY Zenon, <1>1 DEF IdleSet
<1>3. CASE Wake(t)
  <2>1. /\ conn' = [conn EXCEPT ![t] = wconn[t]] /\ conn[t] = NoConn
        /\ wconn' = [wconn EXCEPT ![t] = NoConn]
    BY Zenon, <1>0, <1>3 DEF Wake, Goto, Receive, HasConn
  <2>2. \A u \in Client : {conn'[u], wconn'[u]} = {conn[u], wconn[u]}
    BY Zenon, <1>0, <2>1
  <2> QED
    BY Zenon, <1>2, <2>2, LeaseSame DEF Owned
<1>4. CASE ~Wake(t)
  <2>1. wconn' = wconn
    BY Zenon, <1>4 DEF Begin, NoIdle, CheckSize, Reserve, SelectNone, Dial, AddActive, TimeOut,
         NobodyWaits, JoinQueue, waitVars, Enqueue, SignalNobody
  <2>2. conn' = conn
    <3>1. conn' = conn \/ conn' = [conn EXCEPT ![t] = conn[t]]
          \/ (conn' = [conn EXCEPT ![t] = NoConn] /\ pc[t] \notin HasConn)
      BY Zenon, <1>4 DEF Begin, NoIdle, CheckSize, Reserve, SelectNone, Dial, AddActive,
                  TimeOut, NobodyWaits, JoinQueue, Goto, HasConn
    <3> QED
      BY <1>0, <3>1
  <2> QED
    BY Zenon, <1>2, <2>1, <2>2, LeaseSame DEF Owned
<1> QED
  BY Zenon, <1>3, <1>4

\* A client takes an idle or a new connection.
LEMMA LeaseTake ==
    ASSUME Inv, Inv', NEW t \in Client, TakeIdle(t) \/ Select(t)
    PROVE  \E c \in Conn : Lease!Take(t, c)
<1>0. /\ conn \in [Client -> Conn \cup {NoConn}]
      /\ conn[t] = NoConn /\ wconn[t] = NoConn
  BY Zenon DEF Inv, TypeOK, PointOK, HasConn, TakeIdle, Select
<1>1. \E c \in Conn : /\ conn' = [conn EXCEPT ![t] = c] /\ wconn' = wconn
                      /\ IdleSet' = IdleSet \ {c}
                      /\ \A u \in Client : c \notin Owned(u)
  <2>1. CASE TakeIdle(t)
    <3>1. PICK c \in Conn : acquire(c) /\ Goto(t, "holding", c)
      BY Zenon, <2>1 DEF TakeIdle
    <3>2. c \in IdleSet /\ IdleSet' = IdleSet \ {c}
      BY Zenon, <3>1, AcquireStore DEF Inv, TypeOK
    <3>3. \A u \in Client : c \notin Owned(u)
      BY Zenon, <3>2, InvExclusive DEF ExclusiveOwnership
    <3> QED
      BY Zenon, <2>1, <3>1, <3>2, <3>3 DEF TakeIdle, Goto, waitVars
  <2>2. CASE Select(t)
    <3>1. PICK c \in Conn : Fresh(c) /\ Goto(t, "dial", c)
      BY <2>2 DEF Select
    <3>2. c \notin IdleSet /\ \A u \in Client : c \notin Owned(u)
      BY Zenon, <3>1 DEF Fresh, Unknown, Owned
    <3>3. IdleSet' = IdleSet
      BY Zenon, <2>2 DEF Select, storeVars, IdleSet
    <3> QED
      BY Zenon, <2>2, <3>1, <3>2, <3>3 DEF Select, Goto, waitVars
  <2> QED
    BY Zenon, <2>1, <2>2
<1>2. PICK c \in Conn : /\ conn' = [conn EXCEPT ![t] = c] /\ wconn' = wconn
                       /\ IdleSet' = IdleSet \ {c}
                       /\ \A u \in Client : c \notin Owned(u)
  BY Zenon, <1>1
<1>3. \A d \in Conn \ {c} : /\ d \in IdleSet' <=> d \in IdleSet
                            /\ \A u \in Client : d \in Owned(u)' <=> d \in Owned(u)
  BY Zenon, <1>0, <1>2, ConnPoolAssumption DEF Owned
<1>4. c \in Owned(t)'
  BY Zenon, <1>0, <1>2, ConnPoolAssumption DEF Owned
<1>5. leaseOf'[c] = t
  BY Zenon, <1>4, LeaseValueNext DEF LeaseRead
<1>6. leaseOf' = [leaseOf EXCEPT ![c] = t]
  BY Zenon, <1>3, <1>5, LeaseOne
<1>7. leaseOf[c] \in {"idle", "none"}
  BY Zenon, <1>2, LeaseValue DEF LeaseRead
<1>8. \A d \in Conn : leaseOf[d] # t
  BY Zenon, <1>0, NoLease DEF Owned
<1> QED
  BY Zenon, <1>6, <1>7, <1>8 DEF Lease!Take, Lease!Without

\* A client that loses its only connection, to the idle slice or to nobody,
\* gives up a lease.
LEMMA Drop ==
    ASSUME Inv, Inv', NEW t \in Client, NEW c \in Conn,
           Owned(t) = {c}, Owned(t)' = {},
           \A u \in Client \ {t} : Owned(u)' = Owned(u),
           IdleSet' = IdleSet \/ IdleSet' = IdleSet \cup {c}
    PROVE  Lease!GiveUp(t, c)
<1>1. leaseOf[c] = t
  BY Zenon, LeaseValue DEF LeaseRead
<1>2. \A u \in Client \ {t} : c \notin Owned(u)
  BY Zenon, InvExclusive DEF ExclusiveOwnership
<1>3. \A d \in Conn \ {c} : /\ d \in IdleSet' <=> d \in IdleSet
                            /\ \A u \in Client : d \in Owned(u)' <=> d \in Owned(u)
  BY Zenon
<1>4. \A u \in Client : c \notin Owned(u)'
  BY Zenon, <1>2
<1>5. leaseOf'[c] \in {"idle", "none"}
  BY Zenon, <1>4, LeaseValueNext DEF LeaseRead
<1>6. leaseOf' = [leaseOf EXCEPT ![c] = leaseOf'[c]]
  BY Zenon, <1>3, LeaseOne
<1> QED
  BY Zenon, <1>1, <1>5, <1>6 DEF Lease!GiveUp

\* A failed dial, a release and a client that leaves the queue with a delivered
\* connection give up a lease; a client that leaves without one does nothing.
LEMMA LeaseGiveUp ==
    ASSUME Inv, Inv', NEW t \in Client, DialFails(t) \/ Return(t) \/ LeaveQueue(t)
    PROVE  leaseOf' = leaseOf \/ \E c \in Conn : Lease!GiveUp(t, c)
<1>0. /\ conn \in [Client -> Conn \cup {NoConn}] /\ wconn \in [Client -> Conn \cup {NoConn}]
      /\ conn[t] # NoConn <=> pc[t] \in HasConn
      /\ pc[t] \in {"dial", "returning"} => wconn[t] = NoConn
  BY Zenon DEF Inv, TypeOK, PointOK
<1>1. CASE DialFails(t) \/ Return(t)
  <2>1. PICK c \in Conn : c = conn[t]
    BY Zenon, <1>0, <1>1 DEF DialFails, Return, HasConn
  <2>2. conn' = [conn EXCEPT ![t] = NoConn] /\ wconn' = wconn /\ wconn[t] = NoConn
    BY Zenon, <1>0, <1>1 DEF DialFails, Return, Goto, waitVars
  <2>3. Owned(t) = {c} /\ Owned(t)' = {}
    BY <1>0, <2>1, <2>2, ConnPoolAssumption DEF Owned
  <2>4. \A u \in Client \ {t} : Owned(u)' = Owned(u)
    BY Zenon, <1>0, <2>2 DEF Owned
  <2>5. IdleSet' = IdleSet \/ IdleSet' = IdleSet \cup {c}
    <3>1. CASE DialFails(t)
      BY Zenon, <3>1 DEF DialFails, IdleSet
    <3>2. CASE Return(t)
      <4>1. PICK ok \in BOOLEAN : release(c, ok)
        BY Zenon, <2>1, <3>2 DEF Return
      <4>2. c \notin IdleSet
        BY Zenon, <2>3, InvExclusive DEF ExclusiveOwnership
      <4>3. StoreTypeOK /\ IndexOK /\ Len(idle) <= MaxSize
        BY Zenon DEF Inv, TypeOK
      <4> QED
        BY Zenon, <4>1, <4>2, <4>3, ReleaseStore
    <3> QED
      BY Zenon, <1>1, <3>1, <3>2
  <2> QED
    BY Zenon, <2>3, <2>4, <2>5, Drop
<1>2. CASE LeaveQueue(t)
  <2>1. /\ conn' = [conn EXCEPT ![t] = NoConn] /\ wconn' = [wconn EXCEPT ![t] = NoConn]
        /\ conn[t] = NoConn
    BY Zenon, <1>0, <1>2 DEF LeaveQueue, Leave, Goto, HasConn
  <2>2. IdleSet' = IdleSet
    BY Zenon, <1>2 DEF LeaveQueue, storeVars, IdleSet
  <2>3. Owned(t)' = {} /\ \A u \in Client \ {t} : Owned(u)' = Owned(u)
    BY Zenon, <1>0, <2>1 DEF Owned
  <2>4. CASE wconn[t] = NoConn
    <3>1. \A u \in Client : Owned(u)' = Owned(u)
      BY Zenon, <2>1, <2>3, <2>4 DEF Owned
    <3> QED
      BY Zenon, <2>2, <3>1, LeaseSame
  <2>5. CASE wconn[t] # NoConn
    <3>1. PICK c \in Conn : c = wconn[t]
      BY Zenon, <1>0, <2>5
    <3>2. Owned(t) = {c}
      BY Zenon, <2>1, <3>1, ConnPoolAssumption DEF Owned
    <3> QED
      BY Zenon, <2>2, <2>3, <3>2, Drop
  <2> QED
    BY Zenon, <2>4, <2>5
<1> QED
  BY Zenon, <1>1, <1>2

\* Signal passes the lease on to the first waiter.
LEMMA LeasePass ==
    ASSUME Inv, Inv', NEW t \in Client, HandOff(t)
    PROVE  \E u \in Client, c \in Conn : Lease!Pass(t, u, c)
<1>0. /\ conn \in [Client -> Conn \cup {NoConn}] /\ wconn \in [Client -> Conn \cup {NoConn}]
      /\ conn[t] # NoConn /\ wconn[t] = NoConn
  BY Zenon DEF Inv, TypeOK, PointOK, HasConn, HandOff
<1>1. PICK c \in Conn : c = conn[t]
  BY Zenon, <1>0
<1>2. PICK i \in Waiting : wconn' = [wconn EXCEPT ![queue[i]] = c]
  BY Zenon, <1>1 DEF HandOff, SignalWaiter
<1>3. PICK u \in Client : u = queue[i] /\ pc[u] \in {"waiting", "leaving"} /\ wconn[u] = NoConn
  BY <1>2 DEF Inv, TypeOK, QueueOK, Waiting
<1>4. conn[u] = NoConn /\ u # t
  BY Zenon, <1>3 DEF Inv, PointOK, HasConn, HandOff
<1>5. conn' = [conn EXCEPT ![t] = NoConn] /\ IdleSet' = IdleSet
  BY Zenon DEF HandOff, Goto, storeVars, IdleSet
<1>6. /\ Owned(t) = {c} /\ Owned(u) = {} /\ Owned(t)' = {} /\ Owned(u)' = {c}
      /\ \A w \in Client \ {t, u} : Owned(w)' = Owned(w)
  BY <1>0, <1>1, <1>2, <1>3, <1>4, <1>5, ConnPoolAssumption DEF Owned
<1>7. leaseOf[c] = t
  BY Zenon, <1>6, LeaseValue DEF LeaseRead
<1>8. leaseOf'[c] = u
  BY Zenon, <1>6, LeaseValueNext DEF LeaseRead
<1>9. \A d \in Conn \ {c} : /\ d \in IdleSet' <=> d \in IdleSet
                            /\ \A w \in Client : d \in Owned(w)' <=> d \in Owned(w)
  BY Zenon, <1>5, <1>6
<1>10. leaseOf' = [leaseOf EXCEPT ![c] = u]
  BY Zenon, <1>8, <1>9, LeaseOne
<1>11. \A d \in Conn : leaseOf[d] # u
  BY Zenon, <1>6, NoLease
<1> QED
  BY Zenon, <1>7, <1>10, <1>11 DEF Lease!Pass, Lease!Without

\* RemoveBackend and Close only close idle connections as far as leases go.
LEMMA LeaseClose ==
    ASSUME Inv, Inv', RemoveFinish \/ ClosePool
    PROVE  \E S \in SUBSET Conn : Lease!CloseIdle(S)
<1>0. StoreTypeOK /\ IndexOK
  BY Zenon DEF Inv, TypeOK
<1>1. IdleSet' \subseteq IdleSet /\ conn' = conn /\ wconn' = wconn
  <2>1. CASE RemoveFinish
    <3>1. PICK b : b = removing
      BY Zenon
    <3>2. closeBackend(b)
      BY Zenon, <2>1, <3>1 DEF RemoveFinish
    <3> QED
      BY Zenon, <1>0, <2>1, <3>2, CloseBackendStore DEF RemoveFinish, waitVars, clientVars
  <2>2. CASE ClosePool
    BY Zenon, <1>0, <2>2, CloseAllStore DEF ClosePool, waitVars, clientVars
  <2> QED
    BY Zenon, <2>1, <2>2
<1>2. \A u \in Client : Owned(u)' = Owned(u)
  BY Zenon, <1>1 DEF Owned
<1>3. PICK S \in SUBSET Conn : \A d \in Conn : d \in S <=> d \in IdleSet /\ d \notin IdleSet'
  <2>1. {d \in Conn : d \in IdleSet /\ d \notin IdleSet'} \in SUBSET Conn
    BY Zenon
  <2> QED
    BY Zenon, <2>1
<1>4. \A d \in S : leaseOf[d] = "idle"
  BY Zenon, <1>3, LeaseValue DEF LeaseRead
<1>5. \A d \in S : leaseOf'[d] = "none"
  <2>1. \A d \in S : (\A u \in Client : d \notin Owned(u)') /\ d \notin IdleSet'
    BY Zenon, <1>2, <1>3, InvExclusive DEF ExclusiveOwnership
  <2> QED
    BY Zenon, <2>1, LeaseValueNext DEF LeaseRead
<1>6. \A d \in Conn \ S : leaseOf'[d] = leaseOf[d]
  BY Zenon, <1>1, <1>2, <1>3 DEF leaseOf
<1>7. leaseOf' = [d \in Conn |-> leaseOf'[d]]
  BY Zenon DEF leaseOf
<1>8. leaseOf' = [d \in Conn |-> IF d \in S THEN "none" ELSE leaseOf[d]]
  BY Zenon, <1>5, <1>6, <1>7
<1> QED
  BY Zenon, <1>4, <1>8 DEF Lease!CloseIdle

\* The goroutines that hold no connection change no lease.
LEMMA LeaseOthers ==
    ASSUME Inv, \/ PrefetchStep \/ UNCHANGED vars
                \/ \E b \in Removable : RemoveCheck(b) \/ AddBackend(b)
    PROVE  leaseOf' = leaseOf
<1>1. idle' = idle /\ conn' = conn /\ wconn' = wconn
  BY Zenon DEF PrefetchStep, PrefetchIdle, PrefetchActive, PrefetchSize, PrefetchAlloc,
         PrefetchDial, RemoveCheck, AddBackend, vars, storeVars, waitVars, clientVars
<1> QED
  BY Zenon, <1>1, LeaseSame DEF Owned, IdleSet

\* The pool implements the abstract pool ConnLease: under any interleaving, a
\* connection is leased to one client at a time, a client has at most one, and
\* no other client's step, removal or closing takes it away.
THEOREM PoolImplementsLease == Spec => ImplementsLease
<1>1. Init => Lease!LeaseInit
  BY ConnPoolAssumption DEF Init, InitStore, InitWait, Lease!LeaseInit, leaseOf, Owned, IdleSet
<1>2. Inv /\ Inv' /\ [Next]_vars => [Lease!LeaseNext]_leaseOf
  <2> SUFFICES ASSUME Inv, Inv', [Next]_vars
               PROVE  Lease!LeaseNext \/ leaseOf' = leaseOf
    BY Zenon
  <2>1. ASSUME NEW t \in Client, Begin(t) \/ Step(t) \/ HandOff(t) \/ NobodyWaits(t)
        PROVE  Lease!LeaseNext \/ leaseOf' = leaseOf
    <3>1. CASE TakeIdle(t) \/ Select(t)
      BY Zenon, <3>1, LeaseTake DEF Lease!LeaseNext
    <3>2. CASE DialFails(t) \/ Return(t) \/ LeaveQueue(t)
      BY Zenon, <3>2, LeaseGiveUp DEF Lease!LeaseNext
    <3>3. CASE HandOff(t)
      BY Zenon, <3>3, LeasePass DEF Lease!LeaseNext
    <3>4. CASE \/ Begin(t) \/ NoIdle(t) \/ CheckSize(t) \/ Reserve(t) \/ SelectNone(t)
               \/ Dial(t) \/ AddActive(t) \/ TimeOut(t) \/ NobodyWaits(t)
               \/ JoinQueue(t) \/ Wake(t)
      BY Zenon, <3>4, LeaseStutter
    <3> QED
      BY <2>1, <3>1, <3>2, <3>3, <3>4 DEF Step
  <2>2. CASE RemoveFinish \/ ClosePool
    BY Zenon, <2>2, LeaseClose DEF Lease!LeaseNext
  <2>3. CASE \/ PrefetchStep \/ UNCHANGED vars
             \/ \E b \in Removable : RemoveCheck(b) \/ AddBackend(b)
    BY Zenon, <2>3, LeaseOthers
  <2> QED
    BY Zenon, <2>1, <2>2, <2>3 DEF Next
<1> QED
  BY <1>1, <1>2, PoolInvariant, PTL DEF Spec, ImplementsLease, Lease!LeaseSpec
=============================================================================
