----------------------------- MODULE StmtCache -----------------------------
(***************************************************************************)
(* stmt.Cache: statements by name, names by SQL text, a list of names to   *)
(* evict from, and a counter.  Put does not look whether it knows the      *)
(* name; Remove leaves the name in the list; Get does not move it.         *)
(***************************************************************************)
EXTENDS Integers, Sequences, FiniteSets, FiniteSetsExt

CONSTANTS
    Name, Sql, NoSql, NoStmtName,
    Capacity,    \* maxSize
    MaxList      \* bound: length of the list

ASSUME StmtAssumption ==
    /\ NoSql \notin Sql /\ NoStmtName \notin Name
    /\ Capacity \in Nat \ {0} /\ MaxList \in Nat

VARIABLES
    stmtSql,      \* name -> SQL of its statement, or NoSql (the map statements)
    sqlToName,    \* SQL -> name, or NoStmtName
    lruList,      \* names, the most recent first
    currentSize,
    putAgain      \* history: a name was put while it had a statement

stmtVars == <<stmtSql, sqlToName, lruList, currentSize, putAgain>>

StmtInit ==
    /\ stmtSql = [n \in Name |-> NoSql]
    /\ sqlToName = [q \in Sql |-> NoStmtName]
    /\ lruList = <<>>
    /\ currentSize = 0
    /\ putAgain = FALSE

Stored == {n \in Name : stmtSql[n] # NoSql}

\* Names that k calls of evictLRU take from the end of the list, and have a statement.
Evicted(k) == {lruList[i] : i \in (Len(lruList) - k + 1)..Len(lruList)} \cap Stored

\* Mutant: one name is left in the cache.
EvictionsFew ==
    Min({k \in 0..Len(lruList) : k = Len(lruList)
                                 \/ currentSize - Cardinality(Evicted(k)) <= Capacity})

\* The loop of Put: evictLRU until the counter is below maxSize or the list is empty.
Evictions ==
    Min({k \in 0..Len(lruList) : k = Len(lruList)
                                 \/ currentSize - Cardinality(Evicted(k)) < Capacity})

\* The maps without the statements of some names, as Remove and evictLRU leave them.
StmtsWithout(gone) == [n \in Name |-> IF n \in gone THEN NoSql ELSE stmtSql[n]]
NamesWithout(gone) ==
    [q \in Sql |-> IF \E n \in gone : stmtSql[n] = q THEN NoStmtName ELSE sqlToName[q]]

Put(n, q) ==
    LET k == Evictions
        gone == Evicted(k)
    IN /\ Len(lruList) - k < MaxList
       /\ stmtSql' = [StmtsWithout(gone) EXCEPT ![n] = q]
       /\ sqlToName' = [NamesWithout(gone) EXCEPT ![q] = n]
       /\ lruList' = <<n>> \o SubSeq(lruList, 1, Len(lruList) - k)
       /\ currentSize' = currentSize - Cardinality(gone) + 1
       /\ putAgain' = (putAgain \/ n \in Stored \ gone)

RemoveStmt(n) ==
    /\ n \in Stored
    /\ stmtSql' = StmtsWithout({n})
    /\ sqlToName' = NamesWithout({n})
    /\ currentSize' = currentSize - 1
    /\ UNCHANGED <<lruList, putAgain>>

ClearStmts ==
    /\ stmtSql' = [n \in Name |-> NoSql]
    /\ sqlToName' = [q \in Sql |-> NoStmtName]
    /\ lruList' = <<>>
    /\ currentSize' = 0
    /\ putAgain' = FALSE

StmtNext ==
    \/ \E n \in Name, q \in Sql : Put(n, q)
    \/ \E n \in Name : RemoveStmt(n)
    \/ ClearStmts

StmtSpec == StmtInit /\ [][StmtNext]_stmtVars

----------------------------------------------------------------------------
(* Properties *)

\* However often names are put again or removed, the cache holds at most maxSize
\* statements: each is in the list, and the counter, which may be too high, is never
\* too low.  Until a name is put a second time, Size is exact, and GetBySQL finds a
\* statement with the SQL text it was asked for, or none.
StmtBounded ==
    /\ Cardinality(Stored) <= Capacity
    /\ Cardinality(Stored) <= currentSize
    /\ Stored \subseteq {lruList[i] : i \in DOMAIN lruList}
    /\ ~putAgain =>
          /\ currentSize = Cardinality(Stored)
          /\ \A q \in Sql : sqlToName[q] # NoStmtName => stmtSql[sqlToName[q]] = q
=============================================================================
