--------------------------- MODULE PreparedCache ---------------------------
(***************************************************************************)
(* PreparedStatementCache: statements by (the hash of) their query, and a  *)
(* second map from statement ids to queries.  All operations run under     *)
(* one lock.  Ids are names that the sessions' clients choose, and several *)
(* sessions use the same ones.  LastUsed is abstracted: evictOldest may    *)
(* choose any statement, clean-up any set of them.                         *)
(***************************************************************************)
EXTENDS Integers, FiniteSets

CONSTANTS Query, Id, NoQuery, NoId, MaxSize

ASSUME PreparedAssumption ==
    /\ NoId \notin Id /\ NoQuery \notin Query
    /\ MaxSize \in Nat \ {0}
    /\ IsFiniteSet(Query)

VARIABLES
    statements,   \* query -> the ID of its statement, or NoId
    byID,         \* id -> query, or NoQuery
    reused        \* history: an id has been given to a second query

preparedVars == <<statements, byID, reused>>

PreparedInit ==
    /\ statements = [q \in Query |-> NoId]
    /\ byID = [i \in Id |-> NoQuery]
    /\ reused = FALSE

Cached == {q \in Query : statements[q] # NoId}

\* Deleting the statements of some queries, each with the mapping of its ID.
Without(gone) == [q \in Query |-> IF q \in gone THEN NoId ELSE statements[q]]
MappingWithout(gone) ==
    [i \in Id |-> IF \E q \in gone : statements[q] = i THEN NoQuery ELSE byID[i]]

\* evictOldest at capacity: the victims Add may have.
EvictOldest == IF Cardinality(Cached) >= MaxSize THEN {{q} : q \in Cached} ELSE {{}}

Reuses(i, q) == \E p \in Cached \ {q} : statements[p] = i

\* Mutant: the statement's former id keeps leading to it.
AddKnownKeep(i, q) ==
    /\ q \in Cached
    /\ byID' = [byID EXCEPT ![i] = q]
    /\ statements' = [statements EXCEPT ![q] = i]
    /\ reused' = (reused \/ Reuses(i, q))

\* Add of a query that has a statement: its id changes.
AddKnown(i, q) ==
    /\ q \in Cached
    /\ byID' = [byID EXCEPT ![statements[q]] = NoQuery, ![i] = q]
    /\ statements' = [statements EXCEPT ![q] = i]
    /\ reused' = (reused \/ Reuses(i, q))

\* Add of a new one, after an eviction when the cache is full.
AddNew(i, q) ==
    /\ q \notin Cached
    /\ \E gone \in EvictOldest :
          /\ byID' = [MappingWithout(gone) EXCEPT ![i] = q]
          /\ statements' = [Without(gone) EXCEPT ![q] = i]
    /\ reused' = (reused \/ Reuses(i, q))

\* Remove, by id.
RemoveID(i) ==
    /\ byID[i] # NoQuery
    /\ statements' = [statements EXCEPT ![byID[i]] = NoId]
    /\ byID' = [byID EXCEPT ![i] = NoQuery]
    /\ UNCHANGED reused

\* cleanup: the statements that have not been used for the ttl.
Cleanup ==
    \E gone \in SUBSET Cached :
        /\ statements' = Without(gone)
        /\ byID' = MappingWithout(gone)
        /\ UNCHANGED reused

PreparedNext ==
    \/ \E i \in Id, q \in Query : AddKnown(i, q) \/ AddNew(i, q)
    \/ \E i \in Id : RemoveID(i)
    \/ Cleanup

PreparedSpec == PreparedInit /\ [][PreparedNext]_preparedVars

----------------------------------------------------------------------------
(* Properties *)

\* Type invariant.
PreparedTypeOK ==
    /\ statements \in [Query -> Id \cup {NoId}]
    /\ byID \in [Id -> Query \cup {NoQuery}]
    /\ reused \in BOOLEAN

\* An id never leads to a statement that is gone, or that has another ID: whatever
\* evictions, clean-ups and reuses of ids by other sessions come before (GetByID).
ByIDSound ==
    \A i \in Id : byID[i] # NoQuery => statements[byID[i]] = i

\* Every statement is found under its ID, as long as no id has been given to a
\* second query.
ByIDComplete ==
    ~reused => \A q \in Cached : byID[statements[q]] = q

\* The cache never holds more than maxSize statements.
PreparedBounded == Cardinality(Cached) <= MaxSize
=============================================================================
