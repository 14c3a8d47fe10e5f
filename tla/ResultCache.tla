---------------------------- MODULE ResultCache ----------------------------
(***************************************************************************)
(* cache.Store, an LRU cache bounded in memory, and how the sessions of a  *)
(* listener use it: a SELECT looks its answer up, and otherwise captures   *)
(* the server's and stores it; a modification invalidates the tables that  *)
(* extractTablesFromQuery finds in it, before it is sent.                  *)
(*                                                                         *)
(* The database is a version per table.  An entry remembers the versions   *)
(* its answer was computed from.                                           *)
(***************************************************************************)
EXTENDS Integers, Sequences, FiniteSets, FiniteSetsExt, Functions, Lists

CONSTANTS
    Client,      \* sessions
    Table,
    Select,      \* cacheable queries
    NoSelect,
    Reads,       \* tables a query reads
    From,        \* tables extractTablesFromQuery finds in it: the first after FROM
    SizeOf,      \* bytes captured for its answer
    MaxMemory,
    MaxVersion   \* bound: changes of a table

ASSUME CacheAssumption ==
    /\ Reads \in [Select -> SUBSET Table] /\ From \in [Select -> SUBSET Table]
    /\ SizeOf \in [Select -> Nat] /\ MaxMemory \in Nat /\ MaxVersion \in Nat

VARIABLES
    entries,     \* query -> entry, for the queries in the cache
    evictionList,\* queries, most recently used first
    currentMemory,
    version,     \* table -> version in the database
    dirty,       \* session -> modifications of its open transaction
    rpc,         \* where the session's goroutine is
    qry,         \* the query it handles
    seen,        \* the versions its answer was computed from
    raced        \* history: the answer met a write that was under way, or not named

storeVars == <<entries, evictionList, currentMemory>>
cacheVars == <<storeVars, version, dirty, rpc, qry, seen, raced>>

\* A modification: the table it changes, and whether the text has it after FROM
\* (DELETE FROM has, UPDATE, INSERT, TRUNCATE and the others have not).
Write == [table : Table, named : BOOLEAN]

CacheInit ==
    /\ entries = <<>>
    /\ evictionList = <<>>
    /\ currentMemory = 0
    /\ version = [t \in Table |-> 0]
    /\ dirty = [s \in Client |-> {}]
    /\ rpc = [s \in Client |-> "idle"]
    /\ qry = [s \in Client |-> NoSelect]
    /\ seen = [s \in Client |-> version]
    /\ raced = [s \in Client |-> FALSE]

----------------------------------------------------------------------------
(* Store *)

SizeOfAll(qs) == MapThenSumSet(LAMBDA q : SizeOf[q], qs)

\* A list without some of its queries, in the order it had.
Keeps(list, gone) == Only(list, Range(list) \ gone)

\* removeEntry, for each of a set of entries.
\* Mutant: the memory is not given back.
RemoveEntriesUncounted(gone) ==
    /\ entries' = Restrict(entries, DOMAIN entries \ gone)
    /\ evictionList' = Keeps(evictionList, gone)
    /\ UNCHANGED currentMemory

RemoveEntries(gone) ==
    /\ entries' = Restrict(entries, DOMAIN entries \ gone)
    /\ evictionList' = Keeps(evictionList, gone)
    /\ currentMemory' = currentMemory - SizeOfAll(gone)

\* The entries that Set evicts, from the back of the list, to make room.
EvictLRU(list, memory, size) ==
    LET Last(k) == {list[i] : i \in (Len(list) - k + 1)..Len(list)}
        k == Min({n \in 0..Len(list) : n = Len(list)
                                       \/ memory - SizeOfAll(Last(n)) + size <= MaxMemory})
    IN Last(k)

\* Set: a present entry is removed, others evicted, the new one put in front.
Set(q, e) ==
    LET old == {q} \cap DOMAIN entries
        gone == old \cup EvictLRU(Keeps(evictionList, old), currentMemory - SizeOfAll(old),
                                  SizeOf[q])
    IN IF SizeOf[q] > MaxMemory THEN UNCHANGED storeVars
       ELSE /\ entries' = [p \in (DOMAIN entries \ gone) \cup {q} |->
                              IF p = q THEN e ELSE entries[p]]
            /\ evictionList' = <<q>> \o Keeps(evictionList, gone)
            /\ currentMemory' = currentMemory - SizeOfAll(gone) + SizeOf[q]

\* Mutant: the entries are searched, and stay.
InvalidateNothing(tables) == UNCHANGED storeVars

\* InvalidateTables
InvalidateTables(tables) ==
    RemoveEntries({q \in DOMAIN entries : From[q] \cap tables # {}})

\* cleanupExpired: any entries may have reached their time to live.
CleanupExpired ==
    /\ \E gone \in SUBSET DOMAIN entries \ {{}} : RemoveEntries(gone)
    /\ UNCHANGED <<version, dirty, rpc, qry, seen, raced>>

----------------------------------------------------------------------------
(* forwardClientToServer *)

\* A SELECT: Get moves a present entry to the front and the answer is sent from it.
SelectHit(s, q) ==
    /\ rpc[s] = "idle" /\ q \in DOMAIN entries
    /\ evictionList' = <<q>> \o Keeps(evictionList, {q})
    /\ UNCHANGED <<entries, currentMemory, version, dirty, rpc, qry, seen, raced>>

\* Get finds nothing, or an entry that has expired, which it removes.
SelectMiss(s, q) ==
    /\ rpc[s] = "idle"
    /\ IF q \in DOMAIN entries THEN RemoveEntries({q}) ELSE UNCHANGED storeVars
    /\ rpc' = [rpc EXCEPT ![s] = "query"]
    /\ qry' = [qry EXCEPT ![s] = q]
    /\ UNCHANGED <<version, dirty, seen, raced>>

\* Tables that a write is under way for: invalidated, and not yet in effect.
Changed(s) == {w.table : w \in dirty[s]}
UnderWay == UNION {Changed(s) : s \in Client}

\* The server answers; a session sees the changes of its own transaction.
Answered(s) ==
    /\ rpc[s] = "query"
    /\ rpc' = [rpc EXCEPT ![s] = "store"]
    /\ seen' = [seen EXCEPT ![s] = [t \in Table |-> version[t]
                                      + IF t \in Changed(s) THEN 1 ELSE 0]]
    /\ raced' = [raced EXCEPT ![s] = Reads[qry[s]] \cap UnderWay # {}]
    /\ UNCHANGED <<storeVars, version, dirty, qry>>

\* forwardAndCapture stores the answer, which the client has already got.
StoreAnswer(s) ==
    /\ rpc[s] = "store"
    /\ Set(qry[s], [seen |-> seen[s], raced |-> raced[s]])
    /\ rpc' = [rpc EXCEPT ![s] = "idle"]
    /\ qry' = [qry EXCEPT ![s] = NoSelect]
    /\ seen' = [seen EXCEPT ![s] = [t \in Table |-> 0]]
    /\ raced' = [raced EXCEPT ![s] = FALSE]
    /\ UNCHANGED <<version, dirty>>

\* History: the answers still to be stored that read one of some tables.
Meets(tables) ==
    [c \in Client |-> raced[c] \/ (rpc[c] = "store" /\ Reads[qry[c]] \cap tables # {})]

\* A modification: the cache is invalidated, then the statement is sent.  Outside of
\* a transaction its commit follows.
Modify(s, w) ==
    /\ rpc[s] = "idle" /\ version[w.table] < MaxVersion
    /\ InvalidateTables(IF w.named THEN {w.table} ELSE {})
    /\ dirty' = [dirty EXCEPT ![s] = @ \cup {w}]
    /\ raced' = Meets({w.table})
    /\ UNCHANGED <<version, rpc, qry, seen>>

\* The changes take effect.  History: they meet the entries that were not invalidated
\* because the modification, or the query, does not have the table after FROM.
Commit(s) ==
    LET unnamed == {w.table : w \in {v \in dirty[s] : ~v.named}}
        blind(q) == Reads[q] \cap (unnamed \cup (Changed(s) \ From[q])) # {}
    IN /\ rpc[s] = "idle" /\ dirty[s] # {}
       /\ \A t \in Changed(s) : version[t] < MaxVersion
       /\ version' = [t \in Table |-> version[t] + IF t \in Changed(s) THEN 1 ELSE 0]
       /\ dirty' = [dirty EXCEPT ![s] = {}]
       /\ entries' = [q \in DOMAIN entries |->
                        [entries[q] EXCEPT !.raced = @ \/ blind(q)]]
       /\ raced' = Meets(Changed(s))
       /\ UNCHANGED <<evictionList, currentMemory, rpc, qry, seen>>

Rollback(s) ==
    /\ rpc[s] = "idle" /\ dirty[s] # {}
    /\ dirty' = [dirty EXCEPT ![s] = {}]
    /\ UNCHANGED <<storeVars, version, rpc, qry, seen, raced>>

\* Reading or writing fails: the goroutine of the session ends, another begins.
AnswerFails(s) ==
    /\ rpc[s] = "query"
    /\ rpc' = [rpc EXCEPT ![s] = "idle"]
    /\ qry' = [qry EXCEPT ![s] = NoSelect]
    /\ dirty' = [dirty EXCEPT ![s] = {}]
    /\ UNCHANGED <<storeVars, version, seen, raced>>

CacheNext ==
    \/ \E s \in Client :
          \/ \E q \in Select : SelectHit(s, q) \/ SelectMiss(s, q)
          \/ \E w \in Write : Modify(s, w)
          \/ Answered(s) \/ StoreAnswer(s) \/ AnswerFails(s) \/ Commit(s) \/ Rollback(s)
    \/ CleanupExpired

CacheSpec == CacheInit /\ [][CacheNext]_cacheVars

----------------------------------------------------------------------------
(* Properties *)

\* The list has each entry once and nothing else, the memory counter is the sum of
\* their sizes, and never above the maximum.
StoreConsistent ==
    /\ DOMAIN entries = {evictionList[i] : i \in DOMAIN evictionList}
    /\ Len(evictionList) = Cardinality(DOMAIN entries)
    /\ currentMemory = SizeOfAll(DOMAIN entries)
    /\ currentMemory <= MaxMemory

\* A cached answer is out of date only if it was computed or stored while a
\* modification of its tables was between its invalidation and its commit, or if
\* such a modification does not have the table after FROM, or the query has it only
\* in a JOIN.
CachedFresh ==
    \A q \in DOMAIN entries : ~entries[q].raced =>
        \A t \in Reads[q] : entries[q].seen[t] = version[t]
=============================================================================
