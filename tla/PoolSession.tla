---------------------------- MODULE PoolSession ----------------------------
(***************************************************************************)
(* pool.Session.HandleMessage over the transaction and the statement       *)
(* pooling strategies.  One goroutine handles the messages of a session,   *)
(* so that a message is handled in one step between the acquisitions of    *)
(* the others; its forms are the points at which HandleMessage returns.    *)
(***************************************************************************)
EXTENDS Strategy

CONSTANT MaxHandled     \* bound: messages of a session

VARIABLES
    mode,      \* the strategy of the pool
    txn,       \* Session.inTxn
    auto,      \* Session.autoCommit (AutoCommitRelease)
    open,      \* OnClientDisconnect has not been called
    handled,   \* messages handled
    pinned,    \* history: connections written to since BEGIN was written
    failed     \* history: acquiring or writing has failed

psVars == <<mode, txn, auto, open, handled, pinned, failed>>

PSInit ==
    /\ InitStrategy
    /\ mode \in {"transaction", "statement"}
    /\ txn = [s \in Session |-> FALSE]
    /\ auto = [s \in Session |-> TRUE]
    /\ open = [s \in Session |-> TRUE]
    /\ handled = [s \in Session |-> 0]
    /\ pinned = [s \in Session |-> {}]
    /\ failed = [s \in Session |-> FALSE]

Holding == {sconn[s] : s \in Session} \ {NoConn}

\* inTxn when the query is handled: BEGIN sets it first.
Inside(s, m) == txn[s] \/ m = "begin"

\* The conditions of OnQuery: whether it acquires a connection.
Acquires(s) == mode = "statement" \/ sconn[s] = NoConn

\* Mutant: a query outside of a transaction is not told from one inside.
ReleasesEarly(s, m) == TRUE

\* What is done after the message is written, in OnQueryComplete and, for COMMIT,
\* OnTransactionEnd: whether the connection is given back.
Releases(s, m) ==
    \/ mode = "statement"
    \/ mode = "transaction" /\ m = "commit"
    \/ mode = "transaction" /\ ~Inside(s, m) /\ (auto[s] \/ Acquires(s))

\* AutoCommitRelease, set by OnQuery with a new connection, cleared by OnQueryComplete.
AutoAfter(s, m) ==
    IF mode = "statement" \/ Inside(s, m) THEN auto[s] ELSE FALSE

\* The message is forwarded over c.
Forward(s, m, c) ==
    /\ mode = "transaction" \/ m # "begin"
    /\ pinned' = [pinned EXCEPT ![s] = IF m = "commit" THEN {}
                                       ELSE IF m = "begin" \/ @ # {} THEN @ \cup {c}
                                       ELSE @]
    /\ txn' = [txn EXCEPT ![s] = (@ \/ m = "begin") /\ m # "commit"]
    /\ auto' = [auto EXCEPT ![s] = AutoAfter(s, m)]
    /\ UNCHANGED failed

\* HandleMessage with the session's connection.
HandleHeld(s, m) ==
    /\ ~Acquires(s)
    /\ Forward(s, m, sconn[s])
    /\ IF Releases(s, m) THEN Release(sconn[s]) /\ SetServerConn(s, NoConn)
       ELSE UNCHANGED <<poolVars, sconn>>

\* HandleMessage with a new connection, kept ...
HandleKept(s, m) ==
    /\ Acquires(s) /\ ~Releases(s, m)
    /\ \E c \in Conn : /\ Acquire(c, Holding)
                       /\ SetServerConn(s, c)
                       /\ Forward(s, m, c)

\* ... or given back: to the idle slice, or closed.
HandleOnce(s, m) ==
    /\ Acquires(s) /\ Releases(s, m)
    /\ \E c \in Conn :
          /\ Forward(s, m, c)
          /\ \/ idle[c] > 0 /\ idle' \in {idle, [idle EXCEPT ![c] = @ - 1]}
             \/ /\ idle[c] = 0 /\ c \notin out \cup Holding
                /\ idle' \in {idle, [idle EXCEPT ![c] = 1]}
    /\ SetServerConn(s, NoConn)
    /\ UNCHANGED out

\* BEGIN with the statement strategy: an error, after inTxn is set.
HandleRefused(s, m) ==
    /\ mode = "statement" /\ m = "begin"
    /\ txn' = [txn EXCEPT ![s] = TRUE]
    /\ UNCHANGED <<poolVars, sconn, auto, pinned, failed>>

\* OnQuery has no connection, or the write to it fails: HandleMessage returns early,
\* and the session keeps the connection.
HandleFails(s, m) ==
    /\ mode = "transaction" \/ m # "begin"
    /\ txn' = [txn EXCEPT ![s] = Inside(s, m)]
    /\ failed' = [failed EXCEPT ![s] = TRUE]
    /\ UNCHANGED pinned
    /\ \/ Acquires(s) /\ UNCHANGED <<poolVars, sconn, auto>>
       \/ /\ Acquires(s)
          /\ \E c \in Conn : Acquire(c, Holding) /\ SetServerConn(s, c)
          /\ auto' = [auto EXCEPT ![s] = @ \/ (mode = "transaction" /\ ~Inside(s, m))]
       \/ ~Acquires(s) /\ UNCHANGED <<poolVars, sconn, auto>>

HandleMessage(s, m) ==
    /\ open[s] /\ handled[s] < MaxHandled
    /\ handled' = [handled EXCEPT ![s] = @ + 1]
    /\ \/ HandleHeld(s, m) \/ HandleKept(s, m) \/ HandleOnce(s, m)
       \/ HandleRefused(s, m) \/ HandleFails(s, m)
    /\ UNCHANGED <<mode, open>>

OnClientDisconnect(s) ==
    /\ open[s]
    /\ open' = [open EXCEPT ![s] = FALSE]
    /\ IF sconn[s] = NoConn THEN UNCHANGED <<poolVars, sconn>>
       ELSE Release(sconn[s]) /\ SetServerConn(s, NoConn)
    /\ UNCHANGED <<mode, txn, auto, handled, pinned, failed>>

PSNext ==
    \E s \in Session : \/ \E m \in {"begin", "commit", "query"} : HandleMessage(s, m)
                       \/ OnClientDisconnect(s)

PSSpec == PSInit /\ [][PSNext]_<<poolVars, sconn, psVars>>

----------------------------------------------------------------------------
(* Properties *)

\* In transaction mode the statements between BEGIN and COMMIT go to one connection
\* (unless one could not be sent), and no other session has it meanwhile.
PinnedInTxn ==
    mode = "transaction" =>
        \A s \in Session : ~failed[s] /\ open[s] =>
            /\ Cardinality(pinned[s]) <= 1
            /\ pinned[s] # {} => pinned[s] = {sconn[s]} /\ sconn[s] \in out
            /\ \A t \in Session \ {s} : sconn[t] \notin pinned[s]

\* Between messages, exactly the sessions inside of a transaction hold a connection:
\* every connection handed out is one of theirs, and a session outside of a
\* transaction, or in statement mode, has none.  Excepted is a session one of whose
\* messages could not be sent; in statement mode its next statement acquires another
\* connection and forgets the first.
PoolConnsHeld ==
    /\ mode = "transaction" \/ (mode = "statement" /\ \A s \in Session : ~failed[s])
          => out = Holding
    /\ \A s \in Session :
          ~failed[s] /\ (mode = "statement" \/ (mode = "transaction" /\ ~txn[s]))
              => sconn[s] = NoConn
=============================================================================
