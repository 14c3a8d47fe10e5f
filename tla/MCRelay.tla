------------------------------- MODULE MCRelay -------------------------------
(***************************************************************************)
(* Two sessions for TLC: in the relay, or, in other behaviours, under      *)
(* HandleMessage with one of the other two strategies.  The pool and the   *)
(* sessions' connections are the same variables in both.                   *)
(***************************************************************************)
EXTENDS Relay, PoolSession

CONSTANTS s1, s2, p1, p2, r1

MCSessions == {s1, s2}
MCConns == {p1, p2, r1}
MCRole == [c \in MCConns |-> IF c = r1 THEN "replica" ELSE "primary"]
MCFirst == [s \in MCSessions |-> IF s = s1 THEN p1 ELSE r1]
MCSent == [s \in MCSessions |-> IF s = s1 THEN 2 ELSE 1]

relayVars == <<c2sVars, inTxn, ready, run, txnVars, monVars, excuse>>

\* What a part that a behaviour does not run has for a state.
Off(value) == [s \in Session |-> value]

NoPoolSession ==
    /\ mode = "session" /\ txn = Off(FALSE) /\ auto = Off(FALSE) /\ open = Off(FALSE)
    /\ handled = Off(0) /\ pinned = Off({}) /\ failed = Off(FALSE)

NoRelay ==
    /\ c2s = Off("done") /\ msg = Off("read") /\ hand = Off(NoConn) /\ sent = Off(0)
    /\ role = Off(AnyRole) /\ inTxn = Off(FALSE) /\ ready = Off(FALSE)
    /\ run = Off("ended") /\ info = <<>> /\ cur = Off(NoTxn) /\ due = {} /\ mon = Idle
    /\ used = Off({}) /\ excuse = Off({"late", "timeout", "twice", "stale", "role"})

MCInit == (Init /\ NoPoolSession) \/ (PSInit /\ NoRelay)

\* A behaviour ends where nothing is left to check: excuses are never taken back,
\* and only a session that sends another message after BEGIN can use two connections.
Unexcused ==
    \/ ~Blamed({"late", "timeout"})
    \/ \E s \in Session : /\ excuse[s] \cap {"timeout", "stale", "late", "role"} = {}
                          /\ MaxSent[s] > 1 /\ c2s[s] # "done"
                          /\ sent[s] = 0 \/ msg[s] = "begin" \/ used[s] # {}

MCNext ==
    \/ mode = "session" /\ Unexcused /\ Next /\ UNCHANGED psVars
    \/ mode # "session" /\ PSNext /\ UNCHANGED relayVars

MCSpec == MCInit /\ [][MCNext]_<<vars, psVars>>
==============================================================================
