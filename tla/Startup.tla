------------------------------ MODULE Startup ------------------------------
(***************************************************************************)
(* A client connection from accept to close: Listener.handleConnection,    *)
(* ProxySession.Handle, the six start-up sequences (PostgreSQL, MySQL and  *)
(* MSSQL, each by interception or passthrough) and the deferred clean-up.  *)
(*                                                                         *)
(* Each session is a goroutine.  A start-up is the sequence of steps that  *)
(* its protocol and authentication mode prescribe (Steps); at[s] is the    *)
(* step session s is at.  Packets are abstracted to the step they complete *)
(* and to whether they are accepted.  The relay is one point here; module  *)
(* Relay has its inside.                                                   *)
(***************************************************************************)
EXTENDS Strategy, Sequences

CONSTANTS
    User,          \* names in the user database
    Stranger,      \* a name that is not
    NoName,        \* ps.username = ""
    UserMax,       \* MaxConnections of each user; 0: no limit
    Allowed,       \* the users whose CanAccessPool holds
    ClientLimits,  \* values of Limits.MaxClientConnections
    MaxAttempts,   \* AuthLimiter.maxAttempts
    Addr           \* addresses and ports that clients connect from

ASSUME StartupAssumption ==
    /\ Stranger \notin User /\ NoName \notin User \cup {Stranger}
    /\ UserMax \in [User -> Nat]
    /\ Allowed \subseteq User
    /\ ClientLimits \subseteq Nat
    /\ MaxAttempts \in Nat \ {0}
    /\ IsFiniteSet(Session)

VARIABLES
    cfg,         \* the listener's configuration, fixed
    addr,        \* clientConn.RemoteAddr
    pc,          \* where handleConnection is
    at,          \* number of start-up steps done, plus one
    dialog,      \* state of a dialogue inside a step
    user,        \* ps.username
    pconn,       \* ps.serverConn
    authed,      \* sessions with ps.authenticated set
    clientCount, \* Pool.clientCount
    userCount,   \* Pool.userConnCounts: an entry per counter that exists
    failures,    \* AuthLimiter.attempts: failures counted per address and port
    locked,      \* addresses locked out
    cut          \* history: sessions that began to clean up with one connection
                 \* as the pool session's and as their own

limiterVars == <<failures, locked>>
countVars == <<clientCount, userCount, limiterVars>>
connVars == <<poolVars, sconn, pconn>>
fixedVars == <<cfg, addr, cut>>     \* only Disconnect changes one, cut
vars == <<connVars, pc, at, dialog, user, authed, countVars, fixedVars>>

Name == User \cup {Stranger}

\* Backend.Auth has a user and a password file, or not (password); only PostgreSQL
\* by interception looks.
Config == {c \in [body : {"postgresql", "mysql", "mssql"},
                  auth : {"interception", "passthrough"},
                  mode : {"session", "transaction", "statement"},
                  password : BOOLEAN,
                  maxClients : ClientLimits] :
              c.password => c.body = "postgresql" /\ c.auth = "interception"}

----------------------------------------------------------------------------
(* The steps of a start-up *)

\* handlePostgreSQLAuth
PostgreSQLAuthSteps == <<"limiter", "first", "final">>

\* connectToBackend
ConnectSteps == <<"connect", "backend">>

\* handlePostgreSQLStartup
PostgreSQLSteps ==
    <<"read", "lookup", "count", "access">>
    \o (IF cfg.auth = "interception" THEN PostgreSQLAuthSteps ELSE <<>>)
    \o ConnectSteps

\* handleMySQLInterception
MySQLInterceptionSteps ==
    <<"limiter", "read", "lookup", "count", "access", "reread", "verify", "connect">>

\* handleMySQLPassthrough
MySQLPassthroughSteps == <<"limiter", "connect", "greet", "read", "forward">>

\* handleMySQLStartup
MySQLSteps ==
    IF cfg.auth = "interception" THEN MySQLInterceptionSteps ELSE MySQLPassthroughSteps

\* handleMSSQLInterception
MSSQLInterceptionSteps ==
    <<"limiter", "read", "lookup", "count", "access", "connect", "prelogin", "login">>

\* handleMSSQLPassthrough
MSSQLPassthroughSteps == <<"limiter", "connect", "ask", "prelogin", "login7", "login">>

\* handleMSSQLStartup
MSSQLSteps ==
    IF cfg.auth = "interception" THEN MSSQLInterceptionSteps ELSE MSSQLPassthroughSteps

\* handleStartup
Steps == CASE cfg.body = "postgresql" -> PostgreSQLSteps
           [] cfg.body = "mysql" -> MySQLSteps
           [] OTHER -> MSSQLSteps

\* Session s is at step x of its start-up.
At(s, x) == pc[s] = "startup" /\ at[s] <= Len(Steps) /\ Steps[at[s]] = x

\* Session s has done step x.
Done(s, x) == \E i \in DOMAIN Steps : i < at[s] /\ Steps[i] = x

\* The step succeeds: on to the next one, or to the end of handleStartup.
Advance(s) ==
    /\ at' = [at EXCEPT ![s] = @ + 1]
    /\ pc' = [pc EXCEPT ![s] = IF at[s] = Len(Steps) THEN "started" ELSE "startup"]
    /\ dialog' = [dialog EXCEPT ![s] = "begin"]

\* The step fails: handleStartup returns an error to Handle.
Fail(s) ==
    /\ pc' = [pc EXCEPT ![s] = "discount"]
    /\ dialog' = [dialog EXCEPT ![s] = "begin"]
    /\ UNCHANGED at

\* The step goes on with the dialogue.
Continue(s, d) == dialog' = [dialog EXCEPT ![s] = d] /\ UNCHANGED <<pc, at>>

\* AuthLimiter.RecordFailure: a lock-out or a window that is over starts a new
\* count without a lock; otherwise a locked address stays as it is, and another
\* one is locked when it has MaxAttempts failures.
RecordFailure(s) ==
    LET a == addr[s]
    IN \/ /\ failures[a] > 0
          /\ failures' = [failures EXCEPT ![a] = 1]
          /\ locked' = locked \ {a}
       \/ a \in locked /\ UNCHANGED limiterVars
       \/ /\ a \notin locked
          /\ failures' = [failures EXCEPT ![a] = @ + 1]
          /\ locked' = IF failures[a] + 1 >= MaxAttempts THEN locked \cup {a} ELSE locked

\* AuthLimiter.RecordSuccess
RecordSuccess(s) ==
    /\ failures' = [failures EXCEPT ![addr[s]] = 0]
    /\ locked' = locked \ {addr[s]}

\* AuthLimiter.IsLimited; an entry whose window or lock-out is over is forgotten.
IsLimited(s) == addr[s] \in locked /\ UNCHANGED limiterVars
NotLimited(s) == \/ addr[s] \notin locked /\ UNCHANGED limiterVars
                 \/ failures[addr[s]] > 0 /\ RecordSuccess(s)

Init ==
    /\ InitStrategy
    /\ cfg \in Config
    /\ addr \in [Session -> Addr]
    /\ pc = [s \in Session |-> "new"]
    /\ at = [s \in Session |-> 1]
    /\ dialog = [s \in Session |-> "begin"]
    /\ user = [s \in Session |-> NoName]
    /\ pconn = [s \in Session |-> NoConn]
    /\ authed = {}
    /\ clientCount = 0
    /\ userCount = [u \in {} |-> 0]
    /\ failures = [a \in Addr |-> 0]
    /\ locked = {}
    /\ cut = {}

----------------------------------------------------------------------------
(* Listener.handleConnection *)

\* The goroutine that acceptLoop started runs, perhaps after the listener has been
\* stopped: TryIncrementClientCount, or close the connection.  A port is used by
\* one connection at a time.
Accept(s) ==
    /\ pc[s] = "new"
    /\ \A t \in Session : addr[t] = addr[s] => pc[t] \in {"new", "closed"}
    /\ \/ /\ clientCount < cfg.maxClients
          /\ clientCount' = clientCount + 1
          /\ pc' = [pc EXCEPT ![s] = "startup"]
       \/ /\ clientCount >= cfg.maxClients
          /\ pc' = [pc EXCEPT ![s] = "closed"]
          /\ UNCHANGED clientCount
    /\ UNCHANGED <<connVars, at, dialog, user, authed, userCount, limiterVars, fixedVars>>

----------------------------------------------------------------------------
(* ProxySession.handleStartup: the client's side *)

\* The limiter is asked.
CheckLimiter(s) ==
    /\ At(s, "limiter")
    /\ (NotLimited(s) /\ Advance(s)) \/ (IsLimited(s) /\ Fail(s))
    /\ UNCHANGED <<connVars, user, authed, clientCount, userCount, fixedVars>>

\* An SSLRequest is answered with a TLS handshake, or ends the session when TLS is
\* required and not available.  (Answered with 'N' it changes nothing.)
SSLRequest(s) ==
    /\ At(s, "read") /\ cfg.body = "postgresql" /\ dialog[s] = "begin"
    /\ Continue(s, "tls") \/ Fail(s)
    /\ UNCHANGED <<connVars, user, authed, countVars, fixedVars>>

\* A client certificate names the user (authenticateWithCertificate); in
\* interception mode it must be a user with access to the pool.
UseCertificate(s, u) ==
    /\ At(s, "read") /\ dialog[s] = "tls"
    /\ \/ /\ cfg.auth = "interception" => u \in Allowed
          /\ user' = [user EXCEPT ![s] = u]
          /\ Continue(s, "named")
       \/ cfg.auth = "interception" /\ u \notin Allowed /\ Fail(s) /\ UNCHANGED user
    /\ UNCHANGED <<connVars, authed, countVars, fixedVars>>

\* The start-up message names the user; it may be rejected after ps.username has
\* been set, and is when it has no name.
ReadStartupMessage(s, u) ==
    /\ At(s, "read") /\ cfg.body = "postgresql"
    /\ user' = [user EXCEPT ![s] = u]
    /\ (u # NoName /\ Advance(s)) \/ Fail(s)
    /\ UNCHANGED <<connVars, authed, countVars, fixedVars>>

\* parseMySQLHandshakeResponse; the name may be empty.
parseMySQLHandshakeResponse(s, u) == user' = [user EXCEPT ![s] = u]

\* readMySQLClientHandshake, or the answer to the greeting
ReadMySQLHandshake(s, u) ==
    /\ At(s, "read") /\ cfg.body = "mysql"
    /\ parseMySQLHandshakeResponse(s, u)
    /\ Advance(s)
    /\ UNCHANGED <<connVars, authed, countVars, fixedVars>>

\* extractLogin7Credentials: no name when the packet is too short for one.
extractLogin7Credentials(s, u) == user' = [user EXCEPT ![s] = u]

\* readMSSQLClientHandshake: Pre-Login and Login7
ReadMSSQLHandshake(s, u) ==
    /\ At(s, "read") /\ cfg.body = "mssql"
    /\ extractLogin7Credentials(s, u)
    /\ Advance(s)
    /\ UNCHANGED <<connVars, authed, countVars, fixedVars>>

\* The client's message is cut off, malformed or too long.
ReadFails(s) ==
    /\ At(s, "read")
    /\ Fail(s)
    /\ UNCHANGED <<connVars, user, authed, countVars, fixedVars>>

\* A refusal before the password is checked counts as a failed attempt, except
\* in the PostgreSQL start-up.
Refuse(s) ==
    /\ Fail(s)
    /\ IF cfg.body = "postgresql" THEN UNCHANGED limiterVars ELSE RecordFailure(s)

\* userDB.GetUser
Lookup(s) ==
    /\ At(s, "lookup")
    /\ \/ user[s] \in User /\ Advance(s) /\ UNCHANGED limiterVars
       \/ user[s] \notin User /\ Refuse(s)
    /\ UNCHANGED <<connVars, user, authed, clientCount, userCount, fixedVars>>

\* The value of a user's counter; LoadOrStore creates it at zero.
Count(u) == IF u \in DOMAIN userCount THEN userCount[u] ELSE 0
SetCount(u, n) ==
    userCount' = [v \in DOMAIN userCount \cup {u} |-> IF v = u THEN n ELSE userCount[v]]

\* Pool.TryIncrementUserCount, for a user with a limit.
CountUser(s) ==
    LET u == user[s]
    IN /\ At(s, "count")
       /\ \/ UserMax[u] = 0 /\ Advance(s) /\ UNCHANGED <<userCount, limiterVars>>
          \/ /\ UserMax[u] > 0 /\ Count(u) < UserMax[u]
             /\ SetCount(u, Count(u) + 1) /\ Advance(s) /\ UNCHANGED limiterVars
          \/ /\ UserMax[u] > 0 /\ Count(u) >= UserMax[u]
             /\ SetCount(u, Count(u)) /\ Refuse(s)
       /\ UNCHANGED <<connVars, user, authed, clientCount, fixedVars>>

\* user.CanAccessPool
CheckAccess(s) ==
    /\ At(s, "access")
    /\ \/ user[s] \in Allowed /\ Advance(s) /\ UNCHANGED limiterVars
       \/ user[s] \notin Allowed /\ Refuse(s)
    /\ UNCHANGED <<connVars, user, authed, clientCount, userCount, fixedVars>>

\* The client's first SCRAM message: ParseClientFirst and GenerateServerFirst
\* accept it or count a failure; an I/O error counts as none.
ScramFirst(s) ==
    /\ At(s, "first")
    /\ \/ Advance(s) /\ UNCHANGED limiterVars
       \/ Fail(s) /\ (RecordFailure(s) \/ UNCHANGED limiterVars)
    /\ UNCHANGED <<connVars, user, authed, clientCount, userCount, fixedVars>>

\* The client's last one: VerifyClientFinal.
ScramFinal(s) ==
    /\ At(s, "final")
    /\ \/ Advance(s) /\ authed' = authed \cup {s} /\ RecordSuccess(s)
       \/ Fail(s) /\ (RecordFailure(s) \/ UNCHANGED limiterVars) /\ UNCHANGED authed
    /\ UNCHANGED <<connVars, user, clientCount, userCount, fixedVars>>

\* parseMySQLHandshakeResponseWithAuth: the answer to the proxy's own greeting
\* names the user again; that name, if there is one, replaces the first.
RereadMySQL(s, u) ==
    /\ At(s, "reread")
    /\ \/ /\ user' = [user EXCEPT ![s] = IF u = NoName THEN @ ELSE u]
          /\ Advance(s) /\ UNCHANGED limiterVars
       \/ Fail(s) /\ RecordFailure(s) /\ UNCHANGED user
    /\ UNCHANGED <<connVars, authed, clientCount, userCount, fixedVars>>

\* VerifyMySQLPassword, against the hash of the user looked up first
VerifyMySQL(s) ==
    /\ At(s, "verify")
    /\ \/ Advance(s) /\ UNCHANGED limiterVars
       \/ Fail(s) /\ RecordFailure(s)
    /\ UNCHANGED <<connVars, user, authed, clientCount, userCount, fixedVars>>

----------------------------------------------------------------------------
(* ProxySession.handleStartup: the backend's side *)

\* Connections that some session refers to.
InUse == {sconn[t] : t \in Session} \cup {pconn[t] : t \in Session}

\* Strategy.OnClientConnect, called by the start-up: in session mode a connection
\* is acquired, or not; the other modes leave the session without one, and the
\* start-up gives up.  MySQL by interception ends here.
Connect(s) ==
    /\ At(s, "connect")
    /\ \/ /\ cfg.mode = "session"
          /\ \E c \in Conn : /\ Acquire(c, InUse)
                             /\ SetServerConn(s, c)
                             /\ pconn' = [pconn EXCEPT ![s] = c]
          /\ Advance(s)
          /\ IF cfg.body = "mysql" /\ cfg.auth = "interception"
             THEN authed' = authed \cup {s} /\ RecordSuccess(s)
             ELSE UNCHANGED <<authed, limiterVars>>
       \/ /\ Fail(s)
          /\ IF cfg.body # "postgresql" /\ cfg.auth = "interception"
             THEN RecordFailure(s) ELSE UNCHANGED limiterVars
          /\ UNCHANGED <<connVars, authed>>
    /\ UNCHANGED <<user, clientCount, userCount, fixedVars>>

\* authenticateToBackend: the backend asks for a password in one of two ways, or
\* lets the proxy in.  Answering an MD5 challenge changes nothing here.
AuthenticateToBackend(s) ==
    /\ At(s, "backend") /\ cfg.password /\ dialog[s] = "begin"
    /\ Advance(s) \/ Continue(s, "sasl") \/ Fail(s)
    /\ UNCHANGED <<connVars, user, authed, countVars, fixedVars>>

\* processSCRAMAuthCycle: the backend's challenge is answered (BuildClientFinal),
\* its signature verified (VerifyServerFinal).  A ReadyForQuery ends it as well.
BuildClientFinal(s) ==
    /\ At(s, "backend") /\ dialog[s] = "sasl"
    /\ Advance(s) \/ Continue(s, "challenged") \/ Fail(s)
    /\ UNCHANGED <<connVars, user, authed, countVars, fixedVars>>

VerifyServerFinal(s) ==
    /\ At(s, "backend") /\ dialog[s] \in {"sasl", "challenged"}
    /\ Advance(s) \/ Fail(s)
    /\ UNCHANGED <<connVars, user, authed, countVars, fixedVars>>

\* Without a password of its own the proxy looks at the limiter once more ...
CheckLimiterAgain(s) ==
    /\ At(s, "backend") /\ ~cfg.password /\ dialog[s] = "begin"
    /\ (NotLimited(s) /\ Continue(s, "forward")) \/ (IsLimited(s) /\ Fail(s))
    /\ UNCHANGED <<connVars, user, authed, clientCount, userCount, fixedVars>>

\* ... and forwards the backend's messages to the client and the client's answers
\* back (forwardAuthToBackend) until ReadyForQuery, whether or not the backend has
\* accepted the client before (forwardAuthFromBackend).
ForwardAuthFromBackend(s) ==
    /\ At(s, "backend") /\ dialog[s] \in {"forward", "accepted"}
    /\ \/ /\ Continue(s, "accepted")
          /\ authed' = authed \cup {s}
          /\ RecordSuccess(s)
       \/ (Advance(s) \/ Fail(s)) /\ UNCHANGED <<authed, limiterVars>>
    /\ UNCHANGED <<connVars, user, clientCount, userCount, fixedVars>>

\* The backend's greeting is read, its scramble extracted (extractMySQLScramble)
\* and put into the proxy's own greeting (createMySQLHandshake).
Greet(s) ==
    /\ At(s, "greet")
    /\ Advance(s) \/ Fail(s)
    /\ UNCHANGED <<connVars, user, authed, countVars, fixedVars>>

\* forwardMySQLAuth: packets are forwarded until the server's OK or error packet.
ForwardMySQLAuth(s) ==
    /\ At(s, "forward")
    /\ \/ Advance(s) /\ authed' = authed \cup {s} /\ RecordSuccess(s)
       \/ Fail(s) /\ (RecordFailure(s) \/ UNCHANGED limiterVars) /\ UNCHANGED authed
    /\ UNCHANGED <<connVars, user, clientCount, userCount, fixedVars>>

\* forwardMSSQLPreLogin, and the Login7 packet that the client sends when it has
\* been answered: read from the client and forwarded.
ForwardMSSQLPreLogin(s) ==
    /\ At(s, "ask") \/ At(s, "login7")
    /\ Advance(s) \/ Fail(s)
    /\ UNCHANGED <<connVars, user, authed, countVars, fixedVars>>

\* forwardMSSQLPreLoginResponse
ForwardMSSQLPreLoginResponse(s) ==
    /\ At(s, "prelogin")
    /\ Advance(s) \/ Fail(s)
    /\ UNCHANGED <<connVars, user, authed, countVars, fixedVars>>

\* forwardMSSQLLogin7Response: until the end of the server's answer, which counts
\* as success whatever it said; an SSPI token in it starts an exchange.
ForwardMSSQLLogin7Response(s) ==
    /\ At(s, "login") /\ dialog[s] = "begin"
    /\ \/ Advance(s) /\ authed' = authed \cup {s} /\ RecordSuccess(s)
       \/ (Continue(s, "sspi") \/ Fail(s)) /\ UNCHANGED <<authed, limiterVars>>
    /\ UNCHANGED <<connVars, user, clientCount, userCount, fixedVars>>

\* forwardMSSQLClientSSPIResponse: the client's token, and the server's answer to
\* it; further rounds change nothing.  Then the login response goes on.
ForwardMSSQLClientSSPIResponse(s) ==
    /\ At(s, "login") /\ dialog[s] = "sspi"
    /\ Continue(s, "begin") \/ Fail(s)
    /\ UNCHANGED <<connVars, user, authed, countVars, fixedVars>>

----------------------------------------------------------------------------
(* ProxySession.Handle *)

\* Mutant: Acquire without a time-out.
ConnectAgainWaits(s) ==
    /\ pc[s] = "started" /\ cfg.mode = "session"
    /\ \E c \in Conn : Acquire(c, InUse) /\ SetServerConn(s, c)
    /\ pc' = [pc EXCEPT ![s] = "relay"]
    /\ UNCHANGED <<at, dialog, user, pconn, authed, countVars, fixedVars>>

\* Handle calls OnClientConnect once more.
ConnectAgain(s) ==
    /\ pc[s] = "started"
    /\ \/ /\ cfg.mode = "session"
          /\ \E c \in Conn : Acquire(c, InUse) /\ SetServerConn(s, c)
          /\ pc' = [pc EXCEPT ![s] = "relay"]
       \/ pc' = [pc EXCEPT ![s] = "discount"] /\ UNCHANGED <<poolVars, sconn>>
    /\ UNCHANGED <<at, dialog, user, pconn, authed, countVars, fixedVars>>

\* Relay.Run returns: client or server gone, deadline passed, listener stopped.
RelayEnds(s) ==
    /\ pc[s] = "relay"
    /\ pc' = [pc EXCEPT ![s] = "discount"]
    /\ UNCHANGED <<poolVars, at, dialog, user, sconn, pconn, authed, countVars,
                   fixedVars>>

\* Mutant: only an authenticated session is discounted.
DiscountAuthenticated(s) ==
    /\ pc[s] = "discount"
    /\ IF s \in authed /\ user[s] \in DOMAIN userCount
       THEN SetCount(user[s], userCount[user[s]] - 1) ELSE UNCHANGED userCount
    /\ pc' = [pc EXCEPT ![s] = "disconnect"]
    /\ UNCHANGED <<poolVars, at, dialog, user, sconn, pconn, authed, clientCount,
                   limiterVars, fixedVars>>

\* The deferred function: DecrementUserCount, if ps.username is set and has a
\* counter.
Discount(s) ==
    /\ pc[s] = "discount"
    /\ IF user[s] \in DOMAIN userCount
       THEN SetCount(user[s], userCount[user[s]] - 1) ELSE UNCHANGED userCount
    /\ pc' = [pc EXCEPT ![s] = "disconnect"]
    /\ UNCHANGED <<poolVars, at, dialog, user, sconn, pconn, authed, clientCount,
                   limiterVars, fixedVars>>

\* Strategy.OnClientDisconnect: Release, then SetServerConn(nil).
Disconnect(s) ==
    /\ pc[s] = "disconnect"
    /\ IF sconn[s] = NoConn THEN UNCHANGED poolVars ELSE Release(sconn[s])
    /\ SetServerConn(s, NoConn)
    /\ cut' = IF sconn[s] # NoConn /\ sconn[s] = pconn[s] THEN cut \cup {s} ELSE cut
    /\ pc' = [pc EXCEPT ![s] = "release"]
    /\ UNCHANGED <<at, dialog, user, pconn, authed, countVars, cfg, addr>>

\* Mutant: the start-up's connection is taken for the pool session's, and dropped.
ReleaseOwnNot(s) ==
    /\ pc[s] = "release"
    /\ pconn' = [pconn EXCEPT ![s] = NoConn]
    /\ pc' = [pc EXCEPT ![s] = "uncount"]
    /\ UNCHANGED <<poolVars, at, dialog, user, sconn, authed, countVars, fixedVars>>

\* ps.serverConn is released too.
ReleaseOwn(s) ==
    /\ pc[s] = "release"
    /\ IF pconn[s] = NoConn THEN UNCHANGED poolVars ELSE Release(pconn[s])
    /\ pconn' = [pconn EXCEPT ![s] = NoConn]
    /\ pc' = [pc EXCEPT ![s] = "uncount"]
    /\ UNCHANGED <<at, dialog, user, sconn, authed, countVars, fixedVars>>

\* The deferred DecrementClientCount and connWG.Done; the session is garbage.
Uncount(s) ==
    /\ pc[s] = "uncount"
    /\ clientCount' = clientCount - 1
    /\ pc' = [pc EXCEPT ![s] = "closed"]
    /\ at' = [at EXCEPT ![s] = 1]
    /\ user' = [user EXCEPT ![s] = NoName]
    /\ authed' = authed \ {s}
    /\ UNCHANGED <<poolVars, dialog, sconn, pconn, userCount, limiterVars, fixedVars>>

----------------------------------------------------------------------------
ClientStep(s) ==
    \/ CheckLimiter(s) \/ SSLRequest(s) \/ ReadFails(s)
    \/ Lookup(s) \/ CountUser(s) \/ CheckAccess(s)
    \/ ScramFirst(s) \/ ScramFinal(s) \/ VerifyMySQL(s)
    \/ \E u \in Name : UseCertificate(s, u)
    \/ \E u \in Name \cup {NoName} : \/ ReadStartupMessage(s, u) \/ ReadMySQLHandshake(s, u)
                                     \/ ReadMSSQLHandshake(s, u) \/ RereadMySQL(s, u)

BackendStep(s) ==
    \/ Connect(s) \/ AuthenticateToBackend(s) \/ BuildClientFinal(s) \/ VerifyServerFinal(s)
    \/ CheckLimiterAgain(s) \/ ForwardAuthFromBackend(s) \/ Greet(s) \/ ForwardMySQLAuth(s)
    \/ ForwardMSSQLPreLogin(s) \/ ForwardMSSQLPreLoginResponse(s)
    \/ ForwardMSSQLLogin7Response(s) \/ ForwardMSSQLClientSSPIResponse(s)

CleanupStep(s) == Discount(s) \/ Disconnect(s) \/ ReleaseOwn(s) \/ Uncount(s)

Step(s) == \/ ClientStep(s) \/ BackendStep(s) \/ ConnectAgain(s) \/ RelayEnds(s)
           \/ CleanupStep(s)

Next == \E s \in Session : Accept(s) \/ Step(s)

Spec == Init /\ [][Next]_vars

\* Session s may be reading from its backend or writing to it, whose socket has no
\* deadline: in these steps of the start-up, and in the relay, which the client's
\* deadline ends only while the relay reads from the client.
AwaitsBackend(s) ==
    \/ \E x \in {"backend", "greet", "forward", "ask", "prelogin", "login7", "login"} : At(s, x)
    \/ pc[s] = "relay"

(***************************************************************************)
(* Fairness: goroutines are scheduled, reads from the client end at the    *)
(* deadline that acceptLoop and handleConnection set on its socket,        *)
(* Acquire at its time-out, the reset of a released connection at its      *)
(* own.  Nothing is assumed of backends, so that neither the start-up's    *)
(* dialogue with one nor the relay need end, of the arrival of clients, or *)
(* of a shutdown.                                                          *)
(***************************************************************************)
FairSpec == Spec /\ \A s \in Session : WF_vars(~AwaitsBackend(s) /\ Step(s))

----------------------------------------------------------------------------
(* Properties *)

Cleanup == {"discount", "disconnect", "release", "uncount"}
PC == {"new", "startup", "started", "relay", "closed"} \cup Cleanup

\* Type invariant.
StartupTypeOK ==
    /\ cfg \in Config
    /\ idle \in [Conn -> Nat] /\ out \subseteq Conn
    /\ pc \in [Session -> PC]
    /\ at \in [Session -> 1..(Len(Steps) + 1)]
    /\ dialog \in [Session -> {"begin", "tls", "named", "sasl", "challenged", "forward", "accepted",
                            "sspi"}]
    /\ user \in [Session -> Name \cup {NoName}]
    /\ sconn \in [Session -> Conn \cup {NoConn}]
    /\ pconn \in [Session -> Conn \cup {NoConn}]
    /\ authed \subseteq Session
    /\ clientCount \in Int
    /\ DOMAIN userCount \subseteq User /\ \A u \in DOMAIN userCount : userCount[u] \in Int
    /\ failures \in [Addr -> Nat] /\ locked \subseteq Addr
    /\ addr \in [Session -> Addr] /\ cut \subseteq Session

\* Sessions whose user is counted and not yet discounted.
CountedFor(u) == {s \in Session : /\ user[s] = u /\ Done(s, "count")
                                  /\ pc[s] \in {"startup", "started", "relay", "discount"}}

\* No failed start-up leaves a user's counter too high, which would lock the user
\* out for good.  (MySQL by interception may change ps.username between increment
\* and decrement, and is not covered.)
NeverLockedOut ==
    cfg.body # "mysql" =>
        \A u \in DOMAIN userCount : userCount[u] <= Cardinality(CountedFor(u))

\* The connections of a session that it has not released.
Holds(s) == {sconn[s], pconn[s]} \ {NoConn}

\* Whatever way a session ends, refused, failed or stopped, it gives back what it
\* took.  The client counter is exactly the number of connections being handled, and
\* at most the limit ("Ensure counter is decremented on all exit paths"); and every
\* connection handed out belongs to a session that will release it, also the one that
\* the second OnClientConnect of Handle replaces.
NothingLeaked ==
    /\ clientCount = Cardinality({s \in Session : pc[s] \notin {"new", "closed"}})
    /\ clientCount <= cfg.maxClients
    /\ out \subseteq UNION {Holds(s) : s \in Session}

Live(s) == pc[s] \in {"startup", "started", "relay"}

\* "Client gets a dedicated server connection for entire session lifetime": until a
\* session ends, its connections are neither idle nor another live session's.  Not so
\* in the one case that DedicatedUnlessCut excepts.
DedicatedConn ==
    \A s \in Session : Live(s) => \A c \in Holds(s) :
        idle[c] = 0 /\ \A t \in Session \ {s} : Live(t) => c \notin Holds(t)

\* Only one thing breaks that: a session that gives up after it has connected and
\* before the second OnClientConnect has succeeded, and so releases one connection
\* twice.
DedicatedUnlessCut == cut = {} => DedicatedConn

\* In the end every session is closed for good, unless it waits for its backend, in
\* the start-up or in the relay: whatever the other sessions hold, though each needs
\* two connections, and though those in the relay may never give theirs back.
SessionsEnd ==
    \A s \in Session : <>[](pc[s] \in {"new", "closed"} \/ AwaitsBackend(s))
=============================================================================
