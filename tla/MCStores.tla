------------------------------ MODULE MCStores ------------------------------
(***************************************************************************)
(* For TLC: the three caches, the storage of a Raft node, and a listener   *)
(* from its start to its end.  They have no state in common: a behaviour   *)
(* is of one of them, and the others stay in their initial states.         *)
(***************************************************************************)
EXTENDS ResultCache, PreparedCache, StmtCache, RaftStorage, Listener

CONSTANTS s1, s2, t1, t2, q1, q2, q3, i1, i2, i3

VARIABLE which

MCClient == {s1, s2}
MCTable == {t1, t2}
MCSelect == {q1, q2}
MCReads == [q \in MCSelect |-> IF q = q1 THEN {t1} ELSE {t1, t2}]
MCFrom == [q \in MCSelect |-> IF q = q1 THEN {t1} ELSE {t2}]
MCSize == [q \in MCSelect |-> IF q = q1 THEN 2 ELSE 3]
MCQuery == {q1, q2, q3}
MCId == {i1, i2, i3}

\* A user is set and deleted, another one is set and overwritten: the loss of a command
\* shows, and so does the order.  The second command is one of two.
MCCommands ==
    [k \in 1..MaxEntries |->
        CASE k = 1 -> {Command("user", i1, "v1")}
          [] k = 2 -> {Command("userDelete", i1, None), Command("user", i2, "v2")}
          [] k = 3 -> {Command("user", i2, "v1")}
          [] OTHER -> {Command("user", i2, "v2")}]

\* Backend lists: the second has lost its primary, the third all backends.
MCKindOf == [v \in 0..MaxLists |-> CASE v = 2 -> "noPrimary" [] v = 3 -> "empty" [] OTHER -> "good"]

vars == <<cacheVars, preparedVars, stmtVars, storageVars, listenerVars, which>>

MCInit ==
    /\ which \in {"result", "prepared", "stmt", "storage", "listener"}
    /\ CacheInit /\ PreparedInit /\ StmtInit /\ StorageInit /\ ListenerInit

\* A step of one component.
Of(name, A, rest) == which = name /\ A /\ UNCHANGED <<rest, which>>

\* The storage ends where nothing is left to check, excuses being never taken back; after
\* a cut it starts once more.
Unexcused == excuse = {} \/ (node = "down" /\ excuse = {"cut"})

MCNext ==
    \/ Of("result", CacheNext, <<preparedVars, stmtVars, storageVars, listenerVars>>)
    \/ Of("prepared", PreparedNext, <<cacheVars, stmtVars, storageVars, listenerVars>>)
    \/ Of("stmt", StmtNext, <<cacheVars, preparedVars, storageVars, listenerVars>>)
    \/ Of("storage", Unexcused /\ StorageNext, <<cacheVars, preparedVars, stmtVars, listenerVars>>)
    \/ Of("listener", ListenerNext, <<cacheVars, preparedVars, stmtVars, storageVars>>)

MCSpec == MCInit /\ [][MCNext]_vars
=============================================================================
