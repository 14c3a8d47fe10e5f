------------------------------- MODULE Relay -------------------------------
(***************************************************************************)
(* Sessions inside Relay.Run, in session pooling mode: the goroutine that  *)
(* forwards the client's messages, with routing and the pooling strategy,  *)
(* the goroutine that reads from the server, the end of Run with the       *)
(* deferred clean-up of Handle, and the time-out loop of the transaction   *)
(* manager, which acts on the sessions from a goroutine of its own.        *)
(*                                                                         *)
(* A session enters the relay with the connection of its pool session      *)
(* (sconn); the one its start-up used, which only forwardServerToClient    *)
(* reads and which Run closes, is not in Conn.  A message is abstracted to *)
(* what routing and transactions tell apart.                               *)
(***************************************************************************)
EXTENDS Strategy, Sequences

CONSTANTS
    FirstConn,   \* connection of each session when its relay starts
    Leftover,    \* sessions whose start-up left a ReadyForQuery unread
    MaxSent,     \* bound: messages of each client
    MaxTxn       \* bound: transactions registered

ASSUME RelayAssumption ==
    /\ RoleOf \in [Conn -> Role]
    /\ FirstConn \in [Session -> Conn]
    /\ \A s, t \in Session : s # t => FirstConn[s] # FirstConn[t]
    /\ MaxSent \in [Session -> Nat] /\ MaxTxn \in Nat

VARIABLES
    c2s,       \* where forwardClientToServer is
    msg,       \* the message it handles
    hand,      \* the connection it has got for it
    sent,      \* messages read so far
    role,      \* the target role it acquires for
    inTxn,     \* Session.inTxn
    ready,     \* a ReadyForQuery of the start-up is still to be read
    run,       \* where Run and the clean-up are
    info,      \* TransactionManager.transactions, and those unregistered
    cur,       \* ps.transactionInfo
    due,       \* transactions that checkTimeouts has collected
    mon,       \* where its abort function is
    used,      \* history: connections written to since BEGIN
    excuse     \* history: what has happened to a session that should not

c2sVars == <<c2s, msg, hand, sent, role, used>>
txnVars == <<info, cur>>
monVars == <<due, mon>>
vars == <<poolVars, sconn, c2sVars, inTxn, ready, run, txnVars, monVars, excuse>>

Message == {"begin", "commit", "read", "write"}
NoTxn == 0
Idle == [pc |-> "idle", session |-> CHOOSE s \in Session : TRUE]

Blame(s, why) == excuse' = [excuse EXCEPT ![s] = @ \cup {why}]

Init ==
    /\ idle = [c \in Conn |-> 0]
    /\ out = {FirstConn[s] : s \in Session}
    /\ sconn = FirstConn
    /\ c2s = [s \in Session |-> "read"]
    /\ msg = [s \in Session |-> "read"]
    /\ hand = [s \in Session |-> NoConn]
    /\ sent = [s \in Session |-> 0]
    /\ role = [s \in Session |-> AnyRole]
    /\ inTxn = [s \in Session |-> FALSE]
    /\ ready = [s \in Session |-> s \in Leftover]
    /\ run = [s \in Session |-> "up"]
    /\ info = <<>>
    /\ cur = [s \in Session |-> NoTxn]
    /\ due = {}
    /\ mon = Idle
    /\ used = [s \in Session |-> {}]
    /\ excuse = [s \in Session |-> {}]

----------------------------------------------------------------------------
(* Transaction manager *)

\* Register: a transaction that the session already has stays in the map.
Register(s) ==
    /\ Len(info) < MaxTxn
    /\ info' = Append(info, [session |-> s, status |-> "active", listed |-> TRUE])
    /\ cur' = [cur EXCEPT ![s] = Len(info) + 1]

\* SetStatus and Unregister, for the transaction the session knows of.
Unregister(s) ==
    /\ info' = IF cur[s] = NoTxn THEN info
               ELSE [info EXCEPT ![cur[s]].status = "ended", ![cur[s]].listed = FALSE]
    /\ cur' = [cur EXCEPT ![s] = NoTxn]

\* checkTimeouts, under the lock: active transactions that are too old or idle for
\* too long are collected.
CheckTimeouts ==
    /\ due = {} /\ mon.pc = "idle"
    /\ due' \in SUBSET {i \in DOMAIN info : info[i].listed /\ info[i].status = "active"}
    /\ due' # {}
    /\ UNCHANGED <<poolVars, sconn, c2sVars, inTxn, ready, run, txnVars, mon, excuse>>

\* For one of them: SetStatus (TxnAborted or TxnIdle, neither of which is active
\* again), if it is still in the map, and its abort function,
\* sendRollbackToBackend, which writes ROLLBACK to the session's connection.
Abort(i) ==
    LET s == info[i].session
    IN /\ i \in due /\ mon.pc = "idle"
       /\ due' = due \ {i}
       /\ info' = IF info[i].listed THEN [info EXCEPT ![i].status = "aborted"] ELSE info
       /\ \/ sconn[s] = NoConn /\ UNCHANGED <<mon, excuse>>
          \/ /\ sconn[s] # NoConn
             /\ mon' = [pc |-> "release", session |-> s]
             /\ Blame(s, "timeout")
       /\ UNCHANGED <<poolVars, sconn, c2sVars, inTxn, ready, run, cur>>

\* Its deferred OnClientDisconnect: Release, then SetServerConn(nil).
AbortRelease ==
    LET c == sconn[mon.session]
    IN /\ mon.pc = "release"
       /\ \/ c = NoConn /\ mon' = Idle /\ UNCHANGED poolVars
          \/ c # NoConn /\ mon' = [pc |-> "forget", session |-> mon.session] /\ Release(c)
       /\ UNCHANGED <<sconn, c2sVars, inTxn, ready, run, txnVars, due, excuse>>

AbortForget ==
    /\ mon.pc = "forget"
    /\ SetServerConn(mon.session, NoConn)
    /\ mon' = Idle
    /\ UNCHANGED <<poolVars, c2sVars, inTxn, ready, run, txnVars, due, excuse>>

----------------------------------------------------------------------------
(* forwardClientToServer *)

\* A message is read; BEGIN and COMMIT are told to the transaction manager.
ReadMessage(s, m) ==
    /\ c2s[s] = "read" /\ run[s] = "up" /\ sent[s] < MaxSent[s]
    /\ sent' = [sent EXCEPT ![s] = @ + 1]
    /\ msg' = [msg EXCEPT ![s] = m]
    /\ c2s' = [c2s EXCEPT ![s] = "query"]
    /\ CASE m = "begin" -> Register(s)
         [] m = "commit" -> Unregister(s)
         [] OTHER -> UNCHANGED txnVars
    /\ UNCHANGED <<poolVars, sconn, hand, role, used, inTxn, ready, run, monVars,
                   excuse>>

\* Terminate, a read error, or the context: the goroutine ends.
ReadEnds(s) ==
    /\ c2s[s] = "read"
    /\ c2s' = [c2s EXCEPT ![s] = "done"]
    /\ UNCHANGED <<poolVars, sconn, msg, hand, sent, role, used, inTxn, ready, run,
                   txnVars, monVars, excuse>>

\* Router.selectReplica: a replica, or the primary when no replica is healthy.
selectReplica == {"replica", "primary"}

\* Mutant: the router does not look at the transaction.
RouteQueryReads(m, t) == IF m = "read" THEN selectReplica ELSE {"primary"}

\* Router.RouteQuery: the roles it may choose.  The default rules: in a transaction
\* the primary, otherwise a replica for reads.
RouteQuery(m, t) == IF ~t /\ m = "read" THEN selectReplica ELSE {"primary"}

\* OnTransactionBegin and OnTransactionEnd, as soon as a connection is found.
Mark(s) == inTxn' = [inTxn EXCEPT ![s] = CASE msg[s] = "begin" -> TRUE
                                           [] msg[s] = "commit" -> FALSE
                                           [] OTHER -> @]

\* ProxySession.OnQuery and SessionStrategy.OnQuery: the role is chosen; a session's
\* connection of another role is released, and the session left with it.
OnQuery(s) ==
    /\ c2s[s] = "query"
    /\ \E r \in RouteQuery(msg[s], inTxn[s]) :
          /\ \/ /\ sconn[s] # NoConn /\ RoleOf[sconn[s]] = r
                /\ hand' = [hand EXCEPT ![s] = sconn[s]]
                /\ c2s' = [c2s EXCEPT ![s] = "write"]
                /\ Mark(s)
                /\ UNCHANGED <<poolVars, role>>
             \/ /\ sconn[s] # NoConn /\ RoleOf[sconn[s]] # r
                /\ Release(sconn[s])
                /\ c2s' = [c2s EXCEPT ![s] = "acquire"]
                /\ role' = [role EXCEPT ![s] = r]
                /\ UNCHANGED <<hand, inTxn>>
             \/ /\ sconn[s] = NoConn
                /\ c2s' = [c2s EXCEPT ![s] = "acquire"]
                /\ role' = [role EXCEPT ![s] = r]
                /\ UNCHANGED <<poolVars, hand, inTxn>>
    /\ IF run[s] = "up" THEN UNCHANGED excuse ELSE Blame(s, "late")
    /\ UNCHANGED <<sconn, msg, sent, used, ready, run, txnVars, monVars>>

\* The message is dealt with: the locals of the loop's body are gone.
Returns(s, to) ==
    /\ c2s' = [c2s EXCEPT ![s] = to]
    /\ hand' = [hand EXCEPT ![s] = NoConn]
    /\ msg' = [msg EXCEPT ![s] = "read"]

\* Connections that someone still refers to.
InUse == {sconn[t] : t \in Session} \cup {hand[t] : t \in Session}

\* Mutant: the session is not told of its new connection.
AcquiredUntold(s) ==
    /\ c2s[s] = "acquire"
    /\ \E c \in Conn : /\ Acquire(c, InUse)
                       /\ hand' = [hand EXCEPT ![s] = c]
    /\ c2s' = [c2s EXCEPT ![s] = "write"]
    /\ Mark(s)
    /\ role' = [role EXCEPT ![s] = AnyRole]
    /\ UNCHANGED <<sconn, excuse, msg, sent, used, ready, run, txnVars, monVars>>

\* AcquireToRole returns a connection, of whatever role ...
Acquired(s) ==
    /\ c2s[s] = "acquire"
    /\ \E c \in Conn :
          /\ Acquire(c, InUse)
          /\ SetServerConn(s, c)
          /\ hand' = [hand EXCEPT ![s] = c]
          /\ excuse' = [excuse EXCEPT ![s] =
                @ \cup (IF run[s] = "up" THEN {} ELSE {"late"})
                  \cup (IF msg[s] = "begin" /\ RoleOf[c] # role[s] THEN {"role"} ELSE {})]
    /\ c2s' = [c2s EXCEPT ![s] = "write"]
    /\ Mark(s)
    /\ role' = [role EXCEPT ![s] = AnyRole]
    /\ UNCHANGED <<msg, sent, used, ready, run, txnVars, monVars>>

\* ... or fails: the goroutine ends, and the session keeps the connection that was
\* released.
AcquireFails(s) ==
    /\ c2s[s] = "acquire"
    /\ Returns(s, "done")
    /\ role' = [role EXCEPT ![s] = AnyRole]
    /\ IF sconn[s] = NoConn THEN UNCHANGED excuse ELSE Blame(s, "twice")
    /\ UNCHANGED <<poolVars, sconn, sent, used, inTxn, ready, run,
                   txnVars, monVars>>

\* The message is written; a read that is to be cached waits for its answer
\* (forwardAndCapture).  The connection may be broken.
WriteMessage(s) ==
    /\ c2s[s] = "write"
    /\ used' = [used EXCEPT ![s] = IF msg[s] = "commit" THEN {}
                                   ELSE IF msg[s] = "begin" \/ @ # {} THEN @ \cup {hand[s]}
                                   ELSE @]
    /\ \/ msg[s] = "read" /\ c2s' = [c2s EXCEPT ![s] = "capture"]
          /\ UNCHANGED <<msg, hand>>
       \/ Returns(s, "read")
    /\ UNCHANGED <<poolVars, sconn, sent, role, inTxn, ready, run, txnVars,
                   monVars, excuse>>

WriteFails(s) ==
    /\ c2s[s] \in {"write", "capture"}
    /\ Returns(s, "done")
    /\ UNCHANGED <<poolVars, sconn, sent, role, used, inTxn, ready, run,
                   txnVars, monVars, excuse>>

Captured(s) ==
    /\ c2s[s] = "capture"
    /\ Returns(s, "read")
    /\ UNCHANGED <<poolVars, sconn, sent, role, used, inTxn, ready, run,
                   txnVars, monVars, excuse>>

----------------------------------------------------------------------------
(* forwardServerToClient *)

\* ReadyForQuery with status idle, sent when the start-up had ended, is read.
ServerReady(s) ==
    /\ run[s] = "up" /\ ready[s]
    /\ ready' = [ready EXCEPT ![s] = FALSE]
    /\ inTxn' = [inTxn EXCEPT ![s] = FALSE]
    /\ IF inTxn[s] THEN Blame(s, "stale") ELSE UNCHANGED excuse
    /\ UNCHANGED <<poolVars, sconn, c2sVars, run, txnVars, monVars>>

----------------------------------------------------------------------------
(* Relay.Run and the deferred function of Handle *)

\* A goroutine has ended (the one that reads from the server may do so at any time), or
\* the context: both sockets are closed.  Run does not wait for the other goroutine,
\* since done is set.
RunEnds(s) ==
    /\ run[s] = "up"
    /\ run' = [run EXCEPT ![s] = "disconnect"]
    /\ UNCHANGED <<poolVars, sconn, c2sVars, inTxn, ready, txnVars, monVars, excuse>>

\* Mutant: the session's connection is only forgotten.
DisconnectNoRelease(s) ==
    /\ run[s] = "disconnect"
    /\ run' = [run EXCEPT ![s] = "forget"]
    /\ UNCHANGED <<poolVars, sconn, c2sVars, inTxn, ready, txnVars, monVars, excuse>>

\* OnClientDisconnect: Release, then SetServerConn(nil).
Disconnect(s) ==
    /\ run[s] = "disconnect"
    /\ \/ sconn[s] = NoConn /\ run' = [run EXCEPT ![s] = "ended"] /\ UNCHANGED poolVars
       \/ sconn[s] # NoConn /\ run' = [run EXCEPT ![s] = "forget"] /\ Release(sconn[s])
    /\ IF c2s[s] \in {"read", "done"} THEN UNCHANGED excuse ELSE Blame(s, "late")
    /\ UNCHANGED <<sconn, c2sVars, inTxn, ready, txnVars, monVars>>

Forget(s) ==
    /\ run[s] = "forget"
    /\ SetServerConn(s, NoConn)
    /\ run' = [run EXCEPT ![s] = "ended"]
    /\ UNCHANGED <<poolVars, c2sVars, inTxn, ready, txnVars, monVars, excuse>>

----------------------------------------------------------------------------
ClientToServer(s) ==
    \/ \E m \in Message : ReadMessage(s, m)
    \/ ReadEnds(s) \/ OnQuery(s) \/ Acquired(s) \/ AcquireFails(s)
    \/ WriteMessage(s) \/ WriteFails(s) \/ Captured(s)

Monitor == CheckTimeouts \/ (\E i \in due : Abort(i)) \/ AbortRelease \/ AbortForget

Next ==
    \/ \E s \in Session : \/ ClientToServer(s) \/ ServerReady(s)
                          \/ RunEnds(s) \/ Disconnect(s) \/ Forget(s)
    \/ Monitor

Spec == Init /\ [][Next]_vars

----------------------------------------------------------------------------
(* Properties *)

\* Type invariant.
RelayTypeOK ==
    /\ idle \in [Conn -> Nat] /\ out \subseteq Conn
    /\ sconn \in [Session -> Conn \cup {NoConn}]
    /\ hand \in [Session -> Conn \cup {NoConn}]
    /\ c2s \in [Session -> {"read", "query", "acquire", "write", "capture", "done"}]
    /\ msg \in [Session -> Message]
    /\ \A s \in Session : sent[s] \in 0..MaxSent[s]
    /\ role \in [Session -> Role \cup {AnyRole}]
    /\ inTxn \in [Session -> BOOLEAN] /\ ready \in [Session -> BOOLEAN]
    /\ run \in [Session -> {"up", "disconnect", "forget", "ended"}]
    /\ cur \in [Session -> 0..Len(info)]
    /\ \A i \in DOMAIN info : info[i].status \in {"active", "ended", "aborted"}
    /\ due \subseteq DOMAIN info

Blamed(why) == \E s \in Session : why \cap excuse[s] # {}

\* A message is only written to, and an answer only read from, a connection that
\* is the session's own: handed out, not idle, and in no other goroutine's hand.
\* Excused are a time-out (the monitor releases the connection that the relay is
\* using), a goroutine that outlives Run, and a connection released twice when
\* AcquireToRole fails.
WriteOwned ==
    ~Blamed({"timeout", "late", "twice"}) =>
        \A s \in Session : c2s[s] \in {"write", "capture"} =>
            /\ hand[s] = sconn[s] /\ hand[s] \in out /\ idle[hand[s]] = 0
            /\ \A t \in Session \ {s} : hand[t] # hand[s]

\* All statements of a transaction are written to one connection, although reads
\* are split off to replicas: unless the transaction has timed out or a stale
\* ReadyForQuery has told the session that it is over, or its goroutine outlives Run,
\* or BEGIN was given a connection of another role than it asked for, which the next
\* statement exchanges.
TxnOneConn ==
    \A s \in Session : excuse[s] \cap {"timeout", "stale", "late", "role"} = {}
                           => Cardinality(used[s]) <= 1

\* A connection is lost to the pool only through a goroutine that outlives Run, or
\* through a time-out, which forgets whatever connection the session has by then.
NothingLost ==
    ~Blamed({"late", "timeout"}) => out \subseteq {sconn[s] : s \in Session}
=============================================================================
