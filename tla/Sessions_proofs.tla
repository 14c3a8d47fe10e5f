--------------------------- MODULE Sessions_proofs ---------------------------
(***************************************************************************)
(* Who has a server connection: sessions under HandleMessage, in the       *)
(* transaction and statement modes, and sessions in the relay, in session  *)
(* mode; for any number of sessions and connections.  Then the cache of    *)
(* their prepared statements.                                              *)
(***************************************************************************)
EXTENDS Relay, PoolSession, PreparedCache, TLAPS

\* The provers get more time than by default; a step that is left to Zenon says so.
USE SMTT(20), ZenonT(20)

----------------------------------------------------------------------------
(* HandleMessage *)

PSTypeOK ==
    /\ mode \in {"transaction", "statement"}
    /\ idle \in [Conn -> Nat] /\ out \in SUBSET Conn
    /\ sconn \in [Session -> Conn \cup {NoConn}]
    /\ txn \in [Session -> BOOLEAN] /\ auto \in [Session -> BOOLEAN]
    /\ open \in [Session -> BOOLEAN] /\ failed \in [Session -> BOOLEAN]
    /\ pinned \in [Session -> SUBSET Conn]

\* In transaction mode a connection is idle once, or held by one session, or neither.
Exclusive ==
    mode = "transaction" =>
        /\ out = Holding
        /\ \A c \in Conn : idle[c] = 0 \/ (idle[c] = 1 /\ c \notin out)
        /\ \A s, t \in Session : s # t /\ sconn[s] = sconn[t] => sconn[s] = NoConn

\* A session without failures that is outside of a transaction holds nothing; inside,
\* what it has written to is what it holds.
HeldInTxn ==
    \A s \in Session : mode = "transaction" /\ ~failed[s] =>
        /\ ~txn[s] => sconn[s] = NoConn
        /\ open[s] /\ pinned[s] # {} => txn[s] /\ sconn[s] # NoConn /\ pinned[s] = {sconn[s]}

\* In statement mode a session that has not failed holds nothing between messages.
NoneHeld ==
    mode = "statement" =>
        /\ \A s \in Session : ~failed[s] => sconn[s] = NoConn
        /\ (\A s \in Session : ~failed[s]) => out = {}

PSInv == PSTypeOK /\ Exclusive /\ HeldInTxn /\ NoneHeld

\* Releasing keeps the types of the pool.
LEMMA ReleaseType ==
    ASSUME idle \in [Conn -> Nat], out \in SUBSET Conn, NEW c \in Conn, Release(c)
    PROVE  idle' \in [Conn -> Nat] /\ out' \in SUBSET Conn
BY DEF Release

\* Acquiring does.
LEMMA AcquireType ==
    ASSUME idle \in [Conn -> Nat], out \in SUBSET Conn, NEW c \in Conn, NEW u, Acquire(c, u)
    PROVE  idle' \in [Conn -> Nat] /\ out' \in SUBSET Conn
BY DEF Acquire

\* Forwarding a message over a connection changes the session's flags.
LEMMA ForwardType ==
    ASSUME PSTypeOK, NEW s \in Session, NEW m, NEW c \in Conn, Forward(s, m, c)
    PROVE  /\ pinned' \in [Session -> SUBSET Conn]
           /\ txn' \in [Session -> BOOLEAN] /\ auto' \in [Session -> BOOLEAN]
           /\ failed' = failed
<1> USE DEF PSTypeOK, Forward
<1>1. pinned' \in [Session -> SUBSET Conn]
  BY Zenon
<1>2. txn' \in [Session -> BOOLEAN]
  BY Zenon
<1>3. auto' \in [Session -> BOOLEAN]
  BY Zenon DEF AutoAfter
<1> QED
  BY Zenon, <1>1, <1>2, <1>3

\* Every step keeps the types.
LEMMA PSTypeStep == PSTypeOK /\ [PSNext]_<<poolVars, sconn, psVars>> => PSTypeOK'
<1> SUFFICES ASSUME PSTypeOK, [PSNext]_<<poolVars, sconn, psVars>> PROVE PSTypeOK'
  BY Zenon
<1>1. ASSUME NEW s \in Session, NEW m \in {"begin", "commit", "query"}, HandleMessage(s, m)
      PROVE  PSTypeOK'
  <2> mode' = mode /\ open' = open
    BY Zenon, <1>1 DEF HandleMessage
  <2>1. CASE HandleHeld(s, m)
    <3>1. sconn[s] \in Conn
      BY Zenon, <2>1 DEF HandleHeld, Acquires, PSTypeOK
    <3>2. Forward(s, m, sconn[s])
      BY Zenon, <2>1 DEF HandleHeld
    <3>3. idle' \in [Conn -> Nat] /\ out' \in SUBSET Conn
      BY Zenon, <2>1, <3>1, ReleaseType DEF HandleHeld, PSTypeOK, poolVars
    <3>4. sconn' \in [Session -> Conn \cup {NoConn}]
      BY Zenon, <2>1 DEF HandleHeld, SetServerConn, PSTypeOK
    <3> QED
      BY Zenon, <3>1, <3>2, <3>3, <3>4, ForwardType DEF PSTypeOK
  <2>2. CASE HandleKept(s, m)
    <3> PICK c \in Conn : Acquire(c, Holding) /\ SetServerConn(s, c) /\ Forward(s, m, c)
      BY Zenon, <2>2 DEF HandleKept
    <3>1. idle' \in [Conn -> Nat] /\ out' \in SUBSET Conn
      BY Zenon, AcquireType DEF PSTypeOK
    <3>2. sconn' \in [Session -> Conn \cup {NoConn}]
      BY Zenon DEF SetServerConn, PSTypeOK
    <3> QED
      BY Zenon, <3>1, <3>2, ForwardType DEF PSTypeOK
  <2>3. CASE HandleOnce(s, m)
    <3> PICK c \in Conn :
           /\ Forward(s, m, c)
           /\ \/ idle[c] > 0 /\ idle' \in {idle, [idle EXCEPT ![c] = @ - 1]}
              \/ idle[c] = 0 /\ idle' \in {idle, [idle EXCEPT ![c] = 1]}
      BY Zenon, <2>3 DEF HandleOnce
    <3>1. idle' \in [Conn -> Nat]
      BY DEF PSTypeOK
    <3>2. sconn' \in [Session -> Conn \cup {NoConn}] /\ out' = out
      BY Zenon, <2>3 DEF HandleOnce, SetServerConn, PSTypeOK
    <3> QED
      BY Zenon, <3>1, <3>2, ForwardType DEF PSTypeOK
  <2>4. CASE HandleRefused(s, m)
    BY Zenon, <2>4 DEF HandleRefused, PSTypeOK, poolVars
  <2>5. CASE HandleFails(s, m)
    <3>1. /\ txn' \in [Session -> BOOLEAN] /\ failed' \in [Session -> BOOLEAN]
          /\ auto' \in [Session -> BOOLEAN] /\ pinned' = pinned
      BY Zenon, <2>5 DEF HandleFails, PSTypeOK, Inside
    <3>2. CASE UNCHANGED <<poolVars, sconn>>
      BY Zenon, <3>1, <3>2 DEF PSTypeOK, poolVars
    <3>3. CASE \E c \in Conn : Acquire(c, Holding) /\ SetServerConn(s, c)
      <4> PICK c \in Conn : Acquire(c, Holding) /\ SetServerConn(s, c)
        BY Zenon, <3>3
      <4>1. idle' \in [Conn -> Nat] /\ out' \in SUBSET Conn
        BY Zenon, AcquireType DEF PSTypeOK
      <4>2. sconn' \in [Session -> Conn \cup {NoConn}]
        BY Zenon DEF SetServerConn, PSTypeOK
      <4> QED
        BY Zenon, <3>1, <4>1, <4>2 DEF PSTypeOK
    <3> QED
      BY Zenon, <2>5, <3>2, <3>3 DEF HandleFails
  <2> QED
    BY Zenon, <1>1, <2>1, <2>2, <2>3, <2>4, <2>5 DEF HandleMessage
<1>2. ASSUME NEW s \in Session, OnClientDisconnect(s) PROVE PSTypeOK'
  <2>1. idle' \in [Conn -> Nat] /\ out' \in SUBSET Conn
    BY Zenon, <1>2, ReleaseType DEF OnClientDisconnect, PSTypeOK, poolVars
  <2> QED
    BY Zenon, <1>2, <2>1 DEF OnClientDisconnect, PSTypeOK, SetServerConn
<1>3. CASE UNCHANGED <<poolVars, sconn, psVars>>
  BY Zenon, <1>3 DEF PSTypeOK, poolVars, psVars
<1> QED
  BY Zenon, <1>1, <1>2, <1>3 DEF PSNext

\* What a step does to the connections: one session gives its connection back, or
\* takes one that is idle or new, or uses one in passing, or nothing changes.
GivesBack(s) == sconn[s] \in Conn /\ Release(sconn[s]) /\ SetServerConn(s, NoConn)
Takes(s) == \E c \in Conn : Acquire(c, Holding) /\ SetServerConn(s, c)
Passes(s) ==
    /\ \E c \in Conn : \/ idle[c] > 0 /\ idle' \in {idle, [idle EXCEPT ![c] = @ - 1]}
                       \/ /\ idle[c] = 0 /\ c \notin out \cup Holding
                          /\ idle' \in {idle, [idle EXCEPT ![c] = 1]}
    /\ SetServerConn(s, NoConn) /\ UNCHANGED out

\* In transaction mode each of them leaves connections exclusive, where only a session
\* without a connection takes or passes.
LEMMA ExclusiveStep ==
    ASSUME PSTypeOK, Exclusive, mode' = mode, NEW s \in Session,
           \/ GivesBack(s)
           \/ mode = "transaction" => sconn[s] = NoConn /\ (Takes(s) \/ Passes(s))
           \/ UNCHANGED <<poolVars, sconn>>
    PROVE  Exclusive'
<1> SUFFICES ASSUME mode = "transaction" PROVE Exclusive'
  BY Zenon DEF Exclusive
<1>0. NoConn \notin Conn
  BY Zenon, StrategyAssumption
<1> USE DEF PSTypeOK
<1>1. CASE GivesBack(s)
  <2>1. /\ out' = out \ {sconn[s]} /\ sconn' = [sconn EXCEPT ![s] = NoConn]
        /\ sconn[s] \in Conn
        /\ idle' = [idle EXCEPT ![sconn[s]] = @ + 1] \/ idle' = idle
    BY Zenon, <1>1 DEF GivesBack, Release, SetServerConn
  <2>2. Holding' = Holding \ {sconn[s]}
    BY <2>1 DEF Exclusive, Holding
  <2>3. sconn[s] \in out
    BY ZenonT(30), <2>1, <1>0 DEF Exclusive, Holding
  <2>4. \A c \in Conn : idle'[c] = 0 \/ (idle'[c] = 1 /\ c \notin out')
    BY <2>1, <2>3 DEF Exclusive
  <2>5. \A u, t \in Session : u # t /\ sconn'[u] = sconn'[t] => sconn'[u] = NoConn
    BY Zenon, <2>1 DEF Exclusive
  <2> QED
    BY Zenon, <2>1, <2>2, <2>4, <2>5 DEF Exclusive
<1>2. CASE sconn[s] = NoConn /\ Takes(s)
  <2> PICK c \in Conn : Acquire(c, Holding) /\ SetServerConn(s, c)
    BY Zenon, <1>2 DEF Takes
  <2>1. /\ out' = out \cup {c} /\ sconn' = [sconn EXCEPT ![s] = c]
        /\ \/ idle[c] > 0 /\ idle' = [idle EXCEPT ![c] = @ - 1]
           \/ idle[c] = 0 /\ idle' = idle
        /\ c \notin out
    BY DEF Acquire, SetServerConn, Exclusive
  <2>2. Holding' = Holding \cup {c}
    BY Zenon, <2>1, <1>0, <1>2 DEF Holding
  <2>3. \A d \in Conn : idle'[d] = 0 \/ (idle'[d] = 1 /\ d \notin out')
    BY <2>1 DEF Exclusive
  <2>4. c \notin Holding
    BY Zenon, <2>1 DEF Exclusive
  <2>5. \A u, t \in Session : u # t /\ sconn'[u] = sconn'[t] => sconn'[u] = NoConn
    BY <2>1, <2>4, <1>0 DEF Exclusive, Holding
  <2> QED
    BY Zenon, <2>1, <2>2, <2>3, <2>5 DEF Exclusive
<1>3. CASE sconn[s] = NoConn /\ Passes(s)
  <2>1. sconn' = sconn /\ out' = out
    BY Zenon, <1>3 DEF Passes, SetServerConn
  <2>2. \A d \in Conn : idle'[d] = 0 \/ (idle'[d] = 1 /\ d \notin out')
    BY <1>3, <2>1 DEF Passes, Exclusive
  <2> QED
    BY <2>1, <2>2 DEF Exclusive, Holding
<1>4. CASE UNCHANGED <<poolVars, sconn>>
  BY <1>4 DEF Exclusive, Holding, poolVars
<1> QED
  BY Zenon, <1>1, <1>2, <1>3, <1>4

\* Handling a message is one of these.
LEMMA HandleMoves ==
    ASSUME PSTypeOK, NEW s \in Session, NEW m \in {"begin", "commit", "query"},
           HandleMessage(s, m)
    PROVE  /\ mode' = mode
           /\ \/ GivesBack(s)
              \/ mode = "transaction" => sconn[s] = NoConn /\ (Takes(s) \/ Passes(s))
              \/ UNCHANGED <<poolVars, sconn>>
<1>1. CASE HandleHeld(s, m)
  BY Zenon, <1>1 DEF HandleMessage, HandleHeld, Acquires, GivesBack, PSTypeOK
<1>2. CASE HandleKept(s, m)
  BY Zenon, <1>2 DEF HandleMessage, HandleKept, Acquires, Takes, PSTypeOK
<1>3. CASE HandleOnce(s, m)
  BY Zenon, <1>3 DEF HandleMessage, HandleOnce, Acquires, Passes, PSTypeOK
<1>4. CASE HandleRefused(s, m)
  BY Zenon, <1>4 DEF HandleMessage, HandleRefused
<1>5. CASE HandleFails(s, m)
  BY Zenon, <1>5 DEF HandleMessage, HandleFails, Acquires, Takes, PSTypeOK
<1> QED
  BY Zenon, <1>1, <1>2, <1>3, <1>4, <1>5 DEF HandleMessage

\* A step of one session leaves what is said of the others.
LEMMA HeldInTxnStep ==
    ASSUME PSTypeOK, HeldInTxn, NEW s \in Session, NEW m \in {"begin", "commit", "query"},
           HandleMessage(s, m)
    PROVE  HeldInTxn'
<1> SUFFICES ASSUME NEW u \in Session, mode' = "transaction", ~failed'[u]
             PROVE  /\ ~txn'[u] => sconn'[u] = NoConn
                    /\ open'[u] /\ pinned'[u] # {} =>
                          txn'[u] /\ sconn'[u] # NoConn /\ pinned'[u] = {sconn'[u]}
  BY Zenon DEF HeldInTxn
<1>0. mode = "transaction" /\ open' = open /\ NoConn \notin Conn
  BY Zenon, StrategyAssumption DEF HandleMessage
<1> USE DEF PSTypeOK
<1>1. CASE HandleHeld(s, m)
  <2>1. /\ sconn[s] # NoConn /\ Forward(s, m, sconn[s])
        /\ sconn' = IF Releases(s, m) THEN [sconn EXCEPT ![s] = NoConn] ELSE sconn
    BY Zenon, <1>1, <1>0 DEF HandleHeld, Acquires, SetServerConn
  <2>2. CASE u # s
    BY Zenon, <2>1, <2>2, <1>0 DEF HeldInTxn, Forward
  <2>3. CASE u = s
    <3>1. ~failed[s] /\ txn[s]
      BY Zenon, <2>1, <2>3, <1>0 DEF HeldInTxn, Forward
    <3>2. CASE m = "commit"
      <4>1. Releases(s, m)
        BY Zenon, <3>2, <1>0 DEF Releases
      <4>2. pinned'[s] = {}
        BY Zenon, <2>1, <3>2 DEF Forward
      <4> QED
        BY Zenon, <2>1, <2>3, <4>1, <4>2
    <3>3. CASE m # "commit"
      <4>1. ~Releases(s, m) /\ txn'[s]
        BY Zenon, <2>1, <3>1, <3>3, <1>0 DEF Releases, Forward, Inside
      <4>2. pinned'[s] \in {pinned[s], pinned[s] \cup {sconn[s]}}
        BY Zenon, <2>1, <3>3 DEF Forward
      <4> QED
        BY Zenon, <2>1, <2>3, <3>1, <4>1, <4>2, <1>0 DEF HeldInTxn
    <3> QED
      BY Zenon, <3>2, <3>3
  <2> QED
    BY Zenon, <2>2, <2>3
<1>2. CASE HandleKept(s, m)
  <2>1. /\ sconn[s] = NoConn /\ ~Releases(s, m)
        /\ \E c \in Conn : Forward(s, m, c) /\ sconn' = [sconn EXCEPT ![s] = c]
    BY Zenon, <1>2, <1>0 DEF HandleKept, Acquires, SetServerConn
  <2> PICK c \in Conn : Forward(s, m, c) /\ sconn' = [sconn EXCEPT ![s] = c]
    BY Zenon, <2>1
  <2>2. CASE u # s
    BY Zenon, <2>2, <1>0 DEF HeldInTxn, Forward
  <2>3. CASE u = s
    <3>1. ~failed[s] /\ (open[s] => pinned[s] = {})
      BY Zenon, <2>1, <2>3, <1>0 DEF HeldInTxn, Forward
    <3>2. m # "commit" /\ Inside(s, m)
      BY Zenon, <2>1, <1>0 DEF Releases, Acquires
    <3>3. txn'[s]
      BY Zenon, <3>2 DEF Forward, Inside
    <3>4. open[s] => pinned'[s] \in {{}, {c}}
      BY Zenon, <3>1, <3>2 DEF Forward
    <3> QED
      BY Zenon, <2>3, <3>3, <3>4, <1>0
  <2> QED
    BY Zenon, <2>2, <2>3
<1>3. CASE HandleOnce(s, m)
  <2>1. /\ sconn[s] = NoConn /\ Releases(s, m) /\ sconn' = [sconn EXCEPT ![s] = NoConn]
        /\ \E c \in Conn : Forward(s, m, c)
    BY Zenon, <1>3, <1>0 DEF HandleOnce, Acquires, SetServerConn
  <2> PICK c \in Conn : Forward(s, m, c)
    BY Zenon, <2>1
  <2>2. CASE u # s
    BY Zenon, <2>1, <2>2, <1>0 DEF HeldInTxn, Forward
  <2>3. CASE u = s
    <3>1. ~failed[s] /\ (open[s] => pinned[s] = {})
      BY Zenon, <2>1, <2>3, <1>0 DEF HeldInTxn, Forward
    <3>2. m # "begin"
      BY Zenon, <2>1, <1>0 DEF Releases, Inside
    <3> QED
      BY Zenon, <2>1, <2>3, <3>1, <3>2, <1>0 DEF Forward
  <2> QED
    BY Zenon, <2>2, <2>3
<1>4. CASE HandleFails(s, m)
  <2>1. u # s
    BY Zenon, <1>4 DEF HandleFails
  <2>2. sconn'[u] = sconn[u] /\ txn'[u] = txn[u] /\ pinned' = pinned /\ failed'[u] = failed[u]
    BY Zenon, <1>4, <2>1 DEF HandleFails, SetServerConn
  <2> QED
    BY Zenon, <2>2, <1>0 DEF HeldInTxn
<1> QED
  BY Zenon, <1>0, <1>1, <1>2, <1>3, <1>4 DEF HandleMessage, HandleRefused

\* In statement mode every message that does not fail gives its connection back.
LEMMA NoneHeldStep ==
    ASSUME PSTypeOK, NoneHeld, NEW s \in Session, NEW m \in {"begin", "commit", "query"},
           HandleMessage(s, m)
    PROVE  NoneHeld'
<1> SUFFICES ASSUME mode = "statement"
             PROVE  /\ \A u \in Session : ~failed'[u] => sconn'[u] = NoConn
                    /\ (\A u \in Session : ~failed'[u]) => out' = {}
  BY Zenon DEF NoneHeld, HandleMessage
<1> USE DEF PSTypeOK
<1>1. CASE HandleOnce(s, m)
  BY ZenonT(30), <1>1 DEF HandleOnce, Forward, SetServerConn, NoneHeld
<1>2. CASE HandleRefused(s, m)
  BY Zenon, <1>2 DEF HandleRefused, poolVars, NoneHeld
<1>3. CASE HandleFails(s, m)
  BY Zenon, <1>3 DEF HandleFails, SetServerConn, NoneHeld
<1>4. ~HandleHeld(s, m) /\ ~HandleKept(s, m)
  BY Zenon DEF HandleHeld, HandleKept, Acquires, Releases
<1> QED
  BY Zenon, <1>1, <1>2, <1>3, <1>4 DEF HandleMessage

\* The invariant holds of pool sessions.
THEOREM PSInvariant == PSSpec => []PSInv
<1>1. PSInit => PSInv
  BY DEF PSInit, InitStrategy, PSInv, PSTypeOK, Exclusive, HeldInTxn, NoneHeld, Holding
<1>2. PSInv /\ [PSNext]_<<poolVars, sconn, psVars>> => PSInv'
  <2> SUFFICES ASSUME PSInv, [PSNext]_<<poolVars, sconn, psVars>> PROVE PSInv'
    BY Zenon
  <2>0. PSTypeOK'
    BY Zenon, PSTypeStep DEF PSInv
  <2>1. ASSUME NEW s \in Session, NEW m \in {"begin", "commit", "query"}, HandleMessage(s, m)
        PROVE  PSInv'
    BY Zenon, <2>0, <2>1, HandleMoves, ExclusiveStep, HeldInTxnStep, NoneHeldStep DEF PSInv
  <2>2. ASSUME NEW s \in Session, OnClientDisconnect(s) PROVE PSInv'
    <3>1. Exclusive'
      <4>1. mode' = mode /\ (GivesBack(s) \/ UNCHANGED <<poolVars, sconn>>)
        BY Zenon, <2>2 DEF OnClientDisconnect, GivesBack, PSInv, PSTypeOK
      <4> QED
        BY Zenon, <4>1, ExclusiveStep DEF PSInv
    <3>2. sconn' = [sconn EXCEPT ![s] = NoConn]
      BY Zenon, <2>2 DEF OnClientDisconnect, SetServerConn, PSInv, PSTypeOK
    <3>3. HeldInTxn'
      BY Zenon, <2>2, <3>2 DEF OnClientDisconnect, PSInv, PSTypeOK, HeldInTxn
    <3>4. NoneHeld'
      BY Zenon, <2>2, <3>2, StrategyAssumption
      DEF OnClientDisconnect, PSInv, PSTypeOK, NoneHeld, poolVars
    <3> QED
      BY Zenon, <2>0, <3>1, <3>3, <3>4 DEF PSInv
  <2>3. CASE UNCHANGED <<poolVars, sconn, psVars>>
    BY <2>0, <2>3 DEF PSInv, Exclusive, HeldInTxn, NoneHeld, Holding, poolVars, psVars
  <2> QED
    BY Zenon, <2>1, <2>2, <2>3 DEF PSNext
<1> QED
  BY <1>1, <1>2, PTL DEF PSSpec

\* Between messages exactly the sessions inside of a transaction hold a connection, and
\* what is handed out is what they hold (HandleMessage, OnClientDisconnect).
THEOREM SessionConnsHeld == PSSpec => []PoolConnsHeld
<1>1. PSInv => PoolConnsHeld
  <2> SUFFICES ASSUME PSInv PROVE PoolConnsHeld
    BY Zenon
  <2>1. mode = "transaction" => out = Holding
    BY Zenon DEF PSInv, Exclusive
  <2>2. mode = "statement" /\ (\A s \in Session : ~failed[s]) => out = Holding
    BY Zenon DEF PSInv, NoneHeld, Holding
  <2> QED
    <3>1. ASSUME NEW s \in Session, ~failed[s],
                 mode = "statement" \/ (mode = "transaction" /\ ~txn[s])
          PROVE  sconn[s] = NoConn
      BY Zenon, <3>1 DEF PSInv, HeldInTxn, NoneHeld
    <3> QED
      BY Zenon, <2>1, <2>2, <3>1 DEF PoolConnsHeld
<1> QED
  BY <1>1, PSInvariant, PTL

----------------------------------------------------------------------------
(* The relay *)

RPoolTypeOK ==
    /\ idle \in [Conn -> Nat] /\ out \in SUBSET Conn
    /\ sconn \in [Session -> Conn \cup {NoConn}]

\* What a session may be blamed for.
Excuse == {"timeout", "stale", "late", "twice", "role"}

RFlowTypeOK ==
    /\ hand \in [Session -> Conn \cup {NoConn}]
    /\ c2s \in [Session -> {"read", "query", "acquire", "write", "capture", "done"}]
    /\ \A s \in Session : hand[s] \in Conn <=> c2s[s] \in {"write", "capture"}
    /\ msg \in [Session -> Message]
    /\ role \in [Session -> Role \cup {AnyRole}]
    /\ inTxn \in [Session -> BOOLEAN]
    /\ run \in [Session -> {"up", "disconnect", "forget", "ended"}]
    /\ used \in [Session -> SUBSET Conn]
    /\ excuse \in [Session -> SUBSET Excuse]

TxnInfo == [session : Session, status : {"active", "ended", "aborted"}, listed : BOOLEAN]

RTxnTypeOK ==
    /\ info \in Seq(TxnInfo)
    /\ cur \in [Session -> 0..Len(info)]
    /\ due \in SUBSET (1..Len(info))
    /\ mon.pc # "idle" => mon.session \in Session /\ "timeout" \in excuse[mon.session]

RTypeOK == RPoolTypeOK /\ RFlowTypeOK /\ RTxnTypeOK

\* The session answers for its connection: it has not released it, and will.
Owns(s) == sconn[s] \in Conn /\ c2s[s] # "acquire" /\ run[s] \in {"up", "disconnect"}

\* Every connection handed out has a session that answers for it.
Answered ==
    ~Blamed({"late", "timeout"}) => \A c \in out : \E s \in Session : Owns(s) /\ sconn[s] = c

\* What a session answers for is handed out, not idle, and its own.
Owned ==
    ~Blamed({"timeout", "late", "twice"}) =>
        /\ \A s \in Session : Owns(s) => sconn[s] \in out
        /\ \A s, t \in Session : Owns(s) /\ Owns(t) /\ s # t => sconn[s] # sconn[t]
        /\ \A c \in Conn : idle[c] = 0 \/ (idle[c] = 1 /\ c \notin out)

\* The connection in hand is the session's, unless its goroutine is late or timed out.
InHand ==
    \A s \in Session : excuse[s] \cap {"timeout", "late"} = {} =>
        /\ c2s[s] \in {"write", "capture"} => hand[s] = sconn[s]
        /\ run[s] \in {"forget", "ended"} => c2s[s] \in {"read", "done"}

\* What is known of a transaction with statements behind it.
InTxn(s) ==
    /\ c2s[s] = "acquire" => role[s] = "primary" \/ (msg[s] = "read" /\ role[s] = "replica")
    /\ c2s[s] \in {"write", "capture"} /\ msg[s] = "begin" =>
          inTxn[s] /\ RoleOf[sconn[s]] = "primary"
    /\ used[s] = {} \/ \E c \in Conn : used[s] = {c}
    /\ used[s] # {} /\ c2s[s] # "done" /\ run[s] \in {"up", "disconnect"} =>
          /\ used[s] = {sconn[s]} /\ RoleOf[sconn[s]] = "primary" /\ c2s[s] # "acquire"
          /\ inTxn[s] \/ (c2s[s] = "write" /\ msg[s] = "commit")

OneConn ==
    \A s \in Session : excuse[s] \cap {"timeout", "stale", "late", "role"} = {} => InTxn(s)

RelayInv == RTypeOK /\ Answered /\ Owned /\ InHand /\ OneConn

\* The steps of the relay, one by one.
RelaySteps(s) ==
    \/ \E m \in Message : ReadMessage(s, m)
    \/ ReadEnds(s) \/ OnQuery(s) \/ Acquired(s) \/ AcquireFails(s)
    \/ WriteMessage(s) \/ WriteFails(s) \/ Captured(s)
    \/ ServerReady(s) \/ RunEnds(s) \/ Disconnect(s) \/ Forget(s)

\* Next is a step of a session, or of the monitor.
LEMMA RelayCases ==
    Next => (\E s \in Session : RelaySteps(s)) \/ CheckTimeouts \/ (\E i \in due : Abort(i))
            \/ AbortRelease \/ AbortForget
BY Zenon DEF Next, ClientToServer, Monitor, RelaySteps

\* Excuses are never taken back.
LEMMA ExcuseGrows ==
    ASSUME RTypeOK, [Next]_vars
    PROVE  /\ excuse' \in [Session -> SUBSET Excuse]
           /\ \A s \in Session : excuse[s] \subseteq excuse'[s]
<1> USE DEF RTypeOK, RFlowTypeOK
<1>1. ASSUME NEW s \in Session, NEW why \in SUBSET Excuse, excuse' = [excuse EXCEPT ![s] = @ \cup why]
      PROVE  /\ excuse' \in [Session -> SUBSET Excuse]
             /\ \A t \in Session : excuse[t] \subseteq excuse'[t]
  BY Zenon, <1>1
<1>2. ASSUME NEW s \in Session, RelaySteps(s)
      PROVE  excuse' = excuse \/ \E why \in SUBSET Excuse : excuse' = [excuse EXCEPT ![s] = @ \cup why]
  <2>1. CASE Acquired(s)
    <3>1. PICK c \in Conn : excuse' = [excuse EXCEPT ![s] =
                @ \cup (IF run[s] = "up" THEN {} ELSE {"late"})
                  \cup (IF msg[s] = "begin" /\ RoleOf[c] # role[s] THEN {"role"} ELSE {})]
      BY Zenon, <2>1 DEF Acquired
    <3>2. PICK late \in SUBSET Excuse : late = IF run[s] = "up" THEN {} ELSE {"late"}
      BY Zenon DEF Excuse
    <3>3. PICK rl \in SUBSET Excuse :
             rl = IF msg[s] = "begin" /\ RoleOf[c] # role[s] THEN {"role"} ELSE {}
      BY Zenon DEF Excuse
    <3>4. (excuse[s] \cup late) \cup rl = excuse[s] \cup (late \cup rl)
      BY Zenon
    <3>5. excuse' = [excuse EXCEPT ![s] = (excuse[s] \cup late) \cup rl]
      BY Zenon, <3>1, <3>2, <3>3
    <3>6. excuse' = [excuse EXCEPT ![s] = excuse[s] \cup (late \cup rl)]
      BY Zenon, <3>4, <3>5
    <3>7. late \cup rl \in SUBSET Excuse
      BY Zenon
    <3> QED
      BY Zenon, <3>6, <3>7
  <2>2. CASE excuse' = excuse \/ \E why \in Excuse : Blame(s, why)
    BY Zenon, <2>2 DEF Blame
  <2> QED
    BY Zenon, <1>2, <2>1, <2>2 DEF Excuse, RelaySteps, ReadMessage, ReadEnds, OnQuery, AcquireFails, WriteMessage,
              WriteFails, Captured, ServerReady, RunEnds, Disconnect, Forget
<1>3. ASSUME NEW i \in due, Abort(i)
      PROVE  /\ info[i].session \in Session
             /\ \/ excuse' = excuse
                \/ excuse' = [excuse EXCEPT ![info[i].session] = @ \cup {"timeout"}]
  <2>1. i \in 1..Len(info)
    BY Zenon DEF RTxnTypeOK
  <2>2. info[i] \in TxnInfo
    BY <2>1 DEF RTxnTypeOK
  <2> QED
    BY Zenon, <1>3, <2>2 DEF Abort, TxnInfo, Blame
<1>4. CheckTimeouts \/ AbortRelease \/ AbortForget \/ UNCHANGED vars => excuse' = excuse
  BY Zenon DEF CheckTimeouts, AbortRelease, AbortForget, vars
<1>5. CASE excuse' = excuse
  BY Zenon, <1>5
<1>6. CASE \E s \in Session : RelaySteps(s)
  BY <1>1, <1>2, <1>5, <1>6
<1>7. CASE \E i \in due : Abort(i)
  <2>1. {"timeout"} \in SUBSET Excuse
    BY Zenon DEF Excuse
  <2> QED
    BY Zenon, <1>1, <1>3, <1>5, <1>7, <2>1
<1> QED
  BY Zenon, <1>4, <1>5, <1>6, <1>7, RelayCases

\* So a session that nothing excuses after a step was not excused before.
LEMMA NotBlamedBefore ==
    ASSUME RTypeOK, [Next]_vars, NEW why, ~Blamed(why)' PROVE ~Blamed(why)
BY Zenon, ExcuseGrows DEF Blamed

\* The pool's types.
LEMMA RPoolTypeStep == RTypeOK /\ [Next]_vars => RPoolTypeOK'
<1> SUFFICES ASSUME RTypeOK, [Next]_vars PROVE RPoolTypeOK'
  BY Zenon
<1> USE DEF RTypeOK, RPoolTypeOK
<1>1. CASE UNCHANGED <<poolVars, sconn>>
  BY Zenon, <1>1 DEF poolVars
<1>2. ASSUME NEW c \in Conn, Release(c), UNCHANGED sconn PROVE RPoolTypeOK'
  BY Zenon, <1>2, ReleaseType
<1>3. ASSUME NEW s \in Session, RelaySteps(s) PROVE RPoolTypeOK'
  <2>1. CASE OnQuery(s)
    BY Zenon, <2>1, <1>1, <1>2 DEF OnQuery
  <2>2. CASE Acquired(s)
    <3> PICK c \in Conn : Acquire(c, InUse) /\ SetServerConn(s, c)
      BY Zenon, <2>2 DEF Acquired
    <3> QED
      BY Zenon, AcquireType DEF SetServerConn
  <2>3. CASE Disconnect(s)
    BY Zenon, <2>3, <1>1, <1>2 DEF Disconnect
  <2>4. CASE Forget(s)
    BY Zenon, <2>4 DEF Forget, SetServerConn, poolVars
  <2> QED
    BY Zenon, <1>1, <1>3, <2>1, <2>2, <2>3, <2>4
    DEF RelaySteps, ReadMessage, ReadEnds, AcquireFails, WriteMessage, WriteFails, Captured,
        ServerReady, RunEnds
<1>4. CASE AbortRelease
  <2>1. mon.pc = "release" /\ mon.session \in Session
    BY Zenon, <1>4 DEF AbortRelease, RTxnTypeOK
  <2> QED
    BY Zenon, <1>1, <1>2, <1>4, <2>1 DEF AbortRelease
<1>5. CASE AbortForget
  BY Zenon, <1>5 DEF AbortForget, SetServerConn, poolVars
<1> QED
  BY Zenon, <1>1, <1>3, <1>4, <1>5, RelayCases DEF CheckTimeouts, Abort, vars

\* The types of what forwardClientToServer works with.
LEMMA RFlowTypeStep == RTypeOK /\ [Next]_vars => RFlowTypeOK'
<1> SUFFICES ASSUME RTypeOK, [Next]_vars PROVE RFlowTypeOK'
  BY Zenon
<1>0. excuse' \in [Session -> SUBSET Excuse]
  BY Zenon, ExcuseGrows
<1> USE DEF RTypeOK, RFlowTypeOK
<1>1. ASSUME NEW s \in Session, RelaySteps(s) PROVE RFlowTypeOK'
  <2>1. CASE \E m \in Message : ReadMessage(s, m)
    BY <1>0, <2>1 DEF ReadMessage
  <2>2. CASE ReadEnds(s)
    BY Zenon, <1>0, <2>2 DEF ReadEnds
  <2>3. CASE OnQuery(s)
    <3>1. inTxn' \in [Session -> BOOLEAN]
      <4>1. Mark(s) \/ inTxn' = inTxn
        BY Zenon, <2>3 DEF OnQuery
      <4> QED
        BY Zenon, <4>1 DEF Mark
    <3>2. role' \in [Session -> Role \cup {AnyRole}]
      BY Zenon, <2>3 DEF OnQuery, RouteQuery, selectReplica, Role
    <3>3. /\ hand' \in [Session -> Conn \cup {NoConn}]
          /\ c2s' \in [Session -> {"read", "query", "acquire", "write", "capture", "done"}]
          /\ \A t \in Session : hand'[t] \in Conn <=> c2s'[t] \in {"write", "capture"}
      BY <2>3 DEF OnQuery, RPoolTypeOK
    <3> QED
      BY Zenon, <1>0, <2>3, <3>1, <3>2, <3>3 DEF OnQuery
  <2>4. CASE Acquired(s)
    <3> PICK c \in Conn : hand' = [hand EXCEPT ![s] = c]
      BY Zenon, <2>4 DEF Acquired
    <3>1. inTxn' \in [Session -> BOOLEAN]
      BY Zenon, <2>4 DEF Acquired, Mark
    <3>2. role' \in [Session -> Role \cup {AnyRole}]
      BY Zenon, <2>4 DEF Acquired
    <3> QED
      BY Zenon, <1>0, <2>4, <3>1, <3>2 DEF Acquired
  <2>5. CASE AcquireFails(s)
    BY Zenon, <1>0, <2>5, StrategyAssumption DEF AcquireFails, Returns, Message
  <2>6. CASE WriteMessage(s)
    <3>1. used' \in [Session -> SUBSET Conn]
      BY ZenonT(30), <2>6 DEF WriteMessage
    <3>2. /\ hand' \in [Session -> Conn \cup {NoConn}]
          /\ c2s' \in [Session -> {"read", "query", "acquire", "write", "capture", "done"}]
          /\ \A t \in Session : hand'[t] \in Conn <=> c2s'[t] \in {"write", "capture"}
      BY Zenon, <2>6, StrategyAssumption DEF WriteMessage, Returns
    <3> QED
      BY Zenon, <1>0, <2>6, <3>1, <3>2 DEF WriteMessage, Returns, Message
  <2>7. CASE WriteFails(s) \/ Captured(s)
    BY <1>0, <2>7, StrategyAssumption DEF WriteFails, Captured, Returns, Message
  <2>8. CASE ServerReady(s)
    BY Zenon, <1>0, <2>8 DEF ServerReady, c2sVars
  <2>9. CASE RunEnds(s) \/ Disconnect(s) \/ Forget(s)
    BY Zenon, <1>0, <2>9 DEF RunEnds, Disconnect, Forget, c2sVars
  <2> QED
    BY Zenon, <1>1, <2>1, <2>2, <2>3, <2>4, <2>5, <2>6, <2>7, <2>8, <2>9 DEF RelaySteps
<1> QED
  BY Zenon, <1>0, <1>1, RelayCases
  DEF CheckTimeouts, Abort, AbortRelease, AbortForget, vars, c2sVars

\* The types of the transaction manager; whom the monitor aborts is blamed.
LEMMA RTxnTypeStep == RTypeOK /\ [Next]_vars => RTxnTypeOK'
<1> SUFFICES ASSUME RTypeOK, [Next]_vars PROVE RTxnTypeOK'
  BY Zenon
<1>0. \A s \in Session : excuse[s] \subseteq excuse'[s]
  BY Zenon, ExcuseGrows
<1> USE DEF RTypeOK, RTxnTypeOK
<1>1. CASE UNCHANGED <<txnVars, monVars>>
  BY Zenon, <1>0, <1>1 DEF txnVars, monVars
<1>2. ASSUME NEW i \in 1..Len(info), NEW st \in {"active", "ended", "aborted"},
             NEW li \in BOOLEAN
      PROVE  [info EXCEPT ![i].status = st, ![i].listed = li] \in Seq(TxnInfo)
             /\ Len([info EXCEPT ![i].status = st, ![i].listed = li]) = Len(info)
  <2>1. info[i] \in TxnInfo
    OBVIOUS
  <2>2. [info[i] EXCEPT !.status = st, !.listed = li] \in TxnInfo
    BY Zenon, <2>1 DEF TxnInfo
  <2>3. [info EXCEPT ![i] = [info[i] EXCEPT !.status = st, !.listed = li]] \in Seq(TxnInfo)
        /\ Len([info EXCEPT ![i] = [info[i] EXCEPT !.status = st, !.listed = li]]) = Len(info)
    BY <2>2
  <2>4. [info EXCEPT ![i].status = st, ![i].listed = li]
           = [info EXCEPT ![i] = [info[i] EXCEPT !.status = st, !.listed = li]]
    BY Zenon, <2>1 DEF TxnInfo
  <2> QED
    BY Zenon, <2>3, <2>4
<1>3. ASSUME NEW s \in Session, Register(s), UNCHANGED monVars PROVE RTxnTypeOK'
  <2>1. [session |-> s, status |-> "active", listed |-> TRUE] \in TxnInfo
    BY Zenon DEF TxnInfo
  <2>2. info' \in Seq(TxnInfo) /\ Len(info') = Len(info) + 1
    BY <1>3, <2>1 DEF Register
  <2>3. cur' \in [Session -> 0..Len(info')]
    BY <1>3, <2>2 DEF Register
  <2> QED
    BY <1>0, <1>3, <2>2, <2>3 DEF monVars
<1>4. ASSUME NEW s \in Session, Unregister(s), UNCHANGED monVars PROVE RTxnTypeOK'
  <2>1. info' \in Seq(TxnInfo) /\ Len(info') = Len(info)
    <3>1. CASE cur[s] = 0
      BY Zenon, <1>4, <3>1 DEF Unregister, NoTxn
    <3>2. CASE cur[s] # 0
      <4>1. cur[s] \in 1..Len(info)
        BY <3>2
      <4>2. info' = [info EXCEPT ![cur[s]].status = "ended", ![cur[s]].listed = FALSE]
        BY Zenon, <1>4, <3>2 DEF Unregister, NoTxn
      <4> QED
        BY Zenon, <1>2, <4>1, <4>2
    <3> QED
      BY Zenon, <3>1, <3>2
  <2>2. cur' \in [Session -> 0..Len(info')]
    BY <1>4, <2>1 DEF Unregister, NoTxn
  <2> QED
    BY Zenon, <1>0, <1>4, <2>1, <2>2 DEF monVars
<1>5. ASSUME NEW s \in Session, RelaySteps(s) PROVE RTxnTypeOK'
  <2>1. CASE \E m \in Message : ReadMessage(s, m)
    BY Zenon, <2>1, <1>1, <1>3, <1>4 DEF ReadMessage
  <2> QED
    BY Zenon, <1>1, <1>5, <2>1
    DEF RelaySteps, ReadEnds, OnQuery, Acquired, AcquireFails, WriteMessage, WriteFails, Captured,
        ServerReady, RunEnds, Disconnect, Forget
<1>6. CASE CheckTimeouts
  BY <1>0, <1>6 DEF CheckTimeouts, txnVars
<1>7. ASSUME NEW i \in due, Abort(i) PROVE RTxnTypeOK'
  <2>1. i \in 1..Len(info) /\ info[i] \in TxnInfo
    OBVIOUS
  <2>2. [info EXCEPT ![i].status = "aborted"]
           = [info EXCEPT ![i] = [info[i] EXCEPT !.status = "aborted"]]
    BY Zenon, <2>1 DEF TxnInfo
  <2>3. [info[i] EXCEPT !.status = "aborted"] \in TxnInfo
    BY Zenon, <2>1 DEF TxnInfo
  <2>4. info' \in Seq(TxnInfo) /\ Len(info') = Len(info)
    BY <1>7, <2>1, <2>2, <2>3 DEF Abort
  <2>5. mon'.pc # "idle" => mon'.session \in Session /\ "timeout" \in excuse'[mon'.session]
    BY <1>7, <2>1 DEF Abort, Blame, TxnInfo, RFlowTypeOK
  <2> QED
    BY Zenon, <1>7, <2>4, <2>5 DEF Abort
<1>8. CASE AbortRelease \/ AbortForget
  <2>1. mon.session \in Session /\ "timeout" \in excuse'[mon.session]
    BY Zenon, <1>0, <1>8 DEF AbortRelease, AbortForget
  <2> QED
    <3>1. UNCHANGED <<txnVars, due>>
      BY Zenon, <1>8 DEF AbortRelease, AbortForget
    <3>2. mon' = Idle \/ mon' = [pc |-> "forget", session |-> mon.session]
      BY Zenon, <1>8 DEF AbortRelease, AbortForget
    <3>3. mon'.pc # "idle" => mon'.session = mon.session
      BY <3>2 DEF Idle
    <3> QED
      BY Zenon, <2>1, <3>1, <3>3 DEF txnVars
<1> QED
  BY Zenon, <1>1, <1>5, <1>6, <1>7, <1>8, RelayCases DEF vars

\* A step of one session changes nothing that belongs to another.
LEMMA OnlyOwn ==
    ASSUME NEW s \in Session, NEW t \in Session, s # t, RelaySteps(s), RTypeOK
    PROVE  /\ c2s'[t] = c2s[t] /\ msg'[t] = msg[t] /\ hand'[t] = hand[t] /\ used'[t] = used[t]
           /\ role'[t] = role[t]
           /\ inTxn'[t] = inTxn[t] /\ run'[t] = run[t] /\ sconn'[t] = sconn[t]
<1> USE DEF RTypeOK, RPoolTypeOK, RFlowTypeOK
<1>1. sconn'[t] = sconn[t]
  BY Zenon DEF RelaySteps, ReadMessage, ReadEnds, OnQuery, Acquired, AcquireFails, WriteMessage,
         WriteFails, Captured, ServerReady, RunEnds, Disconnect, Forget, SetServerConn
<1>2. c2s'[t] = c2s[t] /\ run'[t] = run[t]
  BY DEF RelaySteps, ReadMessage, ReadEnds, OnQuery, Acquired, AcquireFails, WriteMessage,
         WriteFails, Captured, ServerReady, RunEnds, Disconnect, Forget, Returns, c2sVars
<1>3. hand'[t] = hand[t] /\ msg'[t] = msg[t]
  BY Zenon DEF RelaySteps, ReadMessage, ReadEnds, OnQuery, Acquired, AcquireFails, WriteMessage,
         WriteFails, Captured, ServerReady, RunEnds, Disconnect, Forget, Returns, c2sVars
<1>4. inTxn'[t] = inTxn[t]
  BY Zenon DEF RelaySteps, ReadMessage, ReadEnds, OnQuery, Acquired, AcquireFails, WriteMessage,
         WriteFails, Captured, ServerReady, RunEnds, Disconnect, Forget, Mark, c2sVars
<1>5. used'[t] = used[t] /\ role'[t] = role[t]
  BY ZenonT(30) DEF RelaySteps, ReadMessage, ReadEnds, OnQuery, Acquired, AcquireFails, WriteMessage,
         WriteFails, Captured, ServerReady, RunEnds, Disconnect, Forget, c2sVars
<1> QED
  BY Zenon, <1>1, <1>2, <1>3, <1>4, <1>5

\* The monitor takes a connection only from a session that it blames.
LEMMA OfMonitor ==
    ASSUME RTypeOK,
           \/ CheckTimeouts \/ (\E i \in due : Abort(i)) \/ AbortRelease \/ AbortForget
           \/ UNCHANGED vars
    PROVE  /\ UNCHANGED <<c2sVars, inTxn, run>>
           /\ \A s \in Session : "timeout" \notin excuse'[s] => sconn'[s] = sconn[s]
           /\ (\A s \in Session : "timeout" \notin excuse'[s]) => UNCHANGED <<poolVars, sconn>>
<1> USE DEF RTypeOK, RPoolTypeOK, RTxnTypeOK
<1>1. CASE AbortRelease
  BY Zenon, <1>1 DEF AbortRelease
<1>2. CASE AbortForget
  BY Zenon, <1>2 DEF AbortForget, SetServerConn
<1> QED
  BY Zenon, <1>1, <1>2 DEF CheckTimeouts, Abort, vars, poolVars, c2sVars

\* What a step of a session that is not late does to its connection: it gives it
\* back, takes one, or keeps it.
LEMMA RelayMoves ==
    ASSUME RTypeOK, NEW s \in Session, RelaySteps(s), "late" \notin excuse'[s]
    PROVE  \/ /\ sconn[s] \in Conn /\ run[s] \in {"up", "disconnect"} /\ c2s[s] # "acquire"
              /\ Release(sconn[s]) /\ sconn' = sconn
              /\ c2s'[s] = "acquire" \/ run'[s] = "forget"
           \/ /\ c2s[s] = "acquire" /\ run[s] = "up" /\ run' = run
              /\ \E c \in Conn : /\ Acquire(c, InUse)
                                 /\ sconn' = [sconn EXCEPT ![s] = c] /\ hand'[s] = c
              /\ c2s'[s] = "write"
           \/ /\ UNCHANGED <<poolVars, sconn>>
              /\ ("twice" \notin excuse'[s] => Owns(s)' = Owns(s)) /\ (Owns(s) => Owns(s)')
           \/ /\ UNCHANGED poolVars /\ run[s] = "forget" /\ run'[s] = "ended"
              /\ sconn' = [sconn EXCEPT ![s] = NoConn]
<1> USE DEF RTypeOK, RPoolTypeOK, RFlowTypeOK
<1>1. CASE \E m \in Message : ReadMessage(s, m)
  BY Zenon, <1>1 DEF ReadMessage, Owns
<1>2. CASE ReadEnds(s)
  BY Zenon, <1>2 DEF ReadEnds, Owns
<1>3. CASE OnQuery(s)
  <2>1. run[s] = "up" /\ run' = run /\ sconn' = sconn /\ c2s[s] = "query"
    BY <1>3 DEF OnQuery, Blame
  <2>2. \/ sconn[s] \in Conn /\ c2s'[s] = "write" /\ UNCHANGED poolVars
        \/ sconn[s] \in Conn /\ c2s'[s] = "acquire" /\ Release(sconn[s])
        \/ sconn[s] = NoConn /\ c2s'[s] = "acquire" /\ UNCHANGED poolVars
    BY <1>3 DEF OnQuery
  <2> QED
    BY Zenon, <2>1, <2>2, StrategyAssumption DEF Owns
<1>4. CASE Acquired(s)
  <2>1. run[s] = "up" /\ run' = run /\ c2s[s] = "acquire" /\ c2s'[s] = "write"
    BY <1>4 DEF Acquired
  <2>2. \E c \in Conn : /\ Acquire(c, InUse)
                        /\ sconn' = [sconn EXCEPT ![s] = c] /\ hand'[s] = c
    BY Zenon, <1>4 DEF Acquired, SetServerConn
  <2> QED
    BY Zenon, <2>1, <2>2
<1>5. CASE AcquireFails(s)
  <2>1. /\ UNCHANGED <<poolVars, sconn, run>> /\ c2s[s] = "acquire"
        /\ sconn[s] # NoConn => "twice" \in excuse'[s]
    BY <1>5 DEF AcquireFails, Blame
  <2> QED
    BY Zenon, <2>1, StrategyAssumption DEF Owns
<1>6. CASE WriteMessage(s)
  BY Zenon, <1>6 DEF WriteMessage, Returns, Owns
<1>7. CASE WriteFails(s) \/ Captured(s)
  BY Zenon, <1>7 DEF WriteFails, Captured, Returns, Owns
<1>8. CASE ServerReady(s)
  BY Zenon, <1>8 DEF ServerReady, c2sVars, Owns
<1>9. CASE RunEnds(s)
  BY Zenon, <1>9 DEF RunEnds, c2sVars, Owns
<1>10. CASE Disconnect(s)
  <2>1. c2s[s] \in {"read", "done"} /\ run[s] = "disconnect" /\ sconn' = sconn
    BY <1>10 DEF Disconnect, Blame
  <2>2. \/ sconn[s] = NoConn /\ UNCHANGED <<poolVars, c2s>>
        \/ sconn[s] \in Conn /\ Release(sconn[s]) /\ run'[s] = "forget"
    BY Zenon, <1>10 DEF Disconnect, c2sVars
  <2> QED
    BY Zenon, <2>1, <2>2, StrategyAssumption DEF Owns
<1>11. CASE Forget(s)
  BY Zenon, <1>11 DEF Forget, SetServerConn
<1> QED
  BY Zenon, <1>1, <1>2, <1>3, <1>4, <1>5, <1>6, <1>7, <1>8, <1>9, <1>10, <1>11 DEF RelaySteps

\* Others answer for what they answered for.
LEMMA OwnsOther ==
    ASSUME NEW s \in Session, NEW t \in Session, s # t, RelaySteps(s), RTypeOK
    PROVE  Owns(t)' = Owns(t) /\ sconn'[t] = sconn[t]
BY Zenon, OnlyOwn DEF Owns

\* No connection is left without a session to answer for it.
LEMMA AnsweredStep == RTypeOK /\ Answered /\ [Next]_vars => Answered'
<1> SUFFICES ASSUME RTypeOK, Answered, [Next]_vars, ~Blamed({"late", "timeout"})'
             PROVE  \A c \in out' : \E s \in Session : Owns(s)' /\ sconn'[s] = c
  BY Zenon DEF Answered
<1>0. /\ \A c \in out : \E s \in Session : Owns(s) /\ sconn[s] = c
      /\ \A s \in Session : "late" \notin excuse'[s] /\ "timeout" \notin excuse'[s]
  BY Zenon, NotBlamedBefore DEF Answered, Blamed
<1>1. ASSUME NEW s \in Session, RelaySteps(s)
      PROVE  \A c \in out' : \E t \in Session : Owns(t)' /\ sconn'[t] = c
  <2>0. \A t \in Session \ {s} : Owns(t)' = Owns(t) /\ sconn'[t] = sconn[t]
    BY Zenon, <1>1, OwnsOther
  <2>1. CASE sconn[s] \in Conn /\ Release(sconn[s]) /\ sconn' = sconn
    BY Zenon, <1>0, <2>0, <2>1 DEF Release
  <2>2. CASE /\ c2s[s] = "acquire" /\ run[s] = "up" /\ run' = run
             /\ \E c \in Conn : Acquire(c, InUse) /\ sconn' = [sconn EXCEPT ![s] = c]
             /\ c2s'[s] = "write"
    <3> PICK c \in Conn : Acquire(c, InUse) /\ sconn' = [sconn EXCEPT ![s] = c]
      BY Zenon, <2>2
    <3>1. out' = out \cup {c} /\ ~Owns(s) /\ Owns(s)' /\ sconn'[s] = c
      BY Zenon, <2>2 DEF Acquire, Owns, RTypeOK, RPoolTypeOK
    <3> QED
      BY Zenon, <1>0, <2>0, <3>1
  <2>3. CASE UNCHANGED <<poolVars, sconn>> /\ (Owns(s) => Owns(s)')
    BY Zenon, <1>0, <2>0, <2>3 DEF poolVars
  <2>4. CASE /\ UNCHANGED poolVars /\ run[s] = "forget"
             /\ sconn' = [sconn EXCEPT ![s] = NoConn]
    <3>1. ~Owns(s)
      BY Zenon, <2>4 DEF Owns
    <3> QED
      BY Zenon, <1>0, <2>0, <2>4, <3>1 DEF poolVars
  <2> QED
    BY Zenon, <1>0, <1>1, <2>1, <2>2, <2>3, <2>4, RelayMoves
<1>2. CASE UNCHANGED <<poolVars, sconn, c2sVars, run>>
  BY Zenon, <1>0, <1>2 DEF Owns, poolVars, c2sVars
<1> QED
  BY Zenon, <1>0, <1>1, <1>2, OfMonitor, RelayCases

\* What a session answers for stays its own.
LEMMA OwnedStep == RTypeOK /\ Owned /\ [Next]_vars => Owned'
<1> DEFINE Mine == \A s \in Session : Owns(s) => sconn[s] \in out
           Apart == \A s, t \in Session : Owns(s) /\ Owns(t) /\ s # t => sconn[s] # sconn[t]
           Once == \A c \in Conn : idle[c] = 0 \/ (idle[c] = 1 /\ c \notin out)
<1> SUFFICES ASSUME RTypeOK, Owned, [Next]_vars, ~Blamed({"timeout", "late", "twice"})'
             PROVE  Mine' /\ Apart' /\ Once'
  BY Zenon DEF Owned
<1>0. /\ Mine /\ Apart /\ Once
      /\ \A s \in Session : /\ "late" \notin excuse'[s] /\ "timeout" \notin excuse'[s]
                             /\ "twice" \notin excuse'[s]
  BY Zenon, NotBlamedBefore DEF Owned, Blamed
<1>1. ASSUME NEW s \in Session, RelaySteps(s) PROVE Mine' /\ Apart' /\ Once'
  <2>0. \A t \in Session \ {s} : Owns(t)' = Owns(t) /\ sconn'[t] = sconn[t]
    BY Zenon, <1>1, OwnsOther
  <2>1. CASE /\ sconn[s] \in Conn /\ run[s] \in {"up", "disconnect"} /\ c2s[s] # "acquire"
             /\ Release(sconn[s]) /\ sconn' = sconn
             /\ c2s'[s] = "acquire" \/ run'[s] = "forget"
    <3>1. Owns(s) /\ ~Owns(s)' /\ sconn[s] \in out
      BY Zenon, <1>0, <2>1 DEF Owns
    <3>2. out' = out \ {sconn[s]}
          /\ (idle' = [idle EXCEPT ![sconn[s]] = @ + 1] \/ idle' = idle)
      BY Zenon, <2>1 DEF Release
    <3>3. Mine' /\ Apart'
      BY Zenon, <1>0, <2>0, <3>1, <3>2
    <3>4. Once'
      BY <1>0, <2>1, <3>1, <3>2 DEF RTypeOK, RPoolTypeOK
    <3> QED
      BY Zenon, <3>3, <3>4
  <2>2. CASE /\ c2s[s] = "acquire" /\ run[s] = "up" /\ run' = run
             /\ \E c \in Conn : Acquire(c, InUse) /\ sconn' = [sconn EXCEPT ![s] = c]
             /\ c2s'[s] = "write"
    <3> PICK c \in Conn : Acquire(c, InUse) /\ sconn' = [sconn EXCEPT ![s] = c]
      BY Zenon, <2>2
    <3>1. /\ out' = out \cup {c} /\ c \notin out /\ sconn'[s] = c
          /\ \/ idle[c] > 0 /\ idle' = [idle EXCEPT ![c] = @ - 1]
             \/ idle[c] = 0 /\ idle' = idle
      BY <1>0 DEF Acquire, RTypeOK, RPoolTypeOK
    <3>2. Mine' /\ Apart'
      BY <1>0, <2>0, <3>1
    <3>3. Once'
      BY <1>0, <3>1 DEF RTypeOK, RPoolTypeOK
    <3> QED
      BY Zenon, <3>2, <3>3
  <2>3. CASE UNCHANGED <<poolVars, sconn>> /\ Owns(s)' = Owns(s)
    BY Zenon, <1>0, <2>0, <2>3 DEF poolVars
  <2>4. CASE /\ UNCHANGED poolVars /\ run'[s] = "ended"
             /\ sconn' = [sconn EXCEPT ![s] = NoConn]
    <3>1. ~Owns(s)'
      BY Zenon, <2>4 DEF Owns
    <3> QED
      BY <1>0, <2>0, <2>4, <3>1 DEF poolVars
  <2> QED
    BY Zenon, <1>0, <1>1, <2>1, <2>2, <2>3, <2>4, RelayMoves
<1>2. CASE UNCHANGED <<poolVars, sconn, c2sVars, run>>
  <2>1. \A s \in Session : Owns(s)' = Owns(s)
    BY Zenon, <1>2 DEF Owns, c2sVars
  <2> QED
    BY Zenon, <1>0, <1>2, <2>1 DEF poolVars
<1> QED
  BY Zenon, <1>0, <1>1, <1>2, OfMonitor, RelayCases

\* The connection in hand stays the session's.
LEMMA InHandStep == RTypeOK /\ InHand /\ [Next]_vars => InHand'
<1> SUFFICES ASSUME RTypeOK, InHand, [Next]_vars, NEW t \in Session,
                    excuse'[t] \cap {"timeout", "late"} = {}
             PROVE  /\ c2s'[t] \in {"write", "capture"} => hand'[t] = sconn'[t]
                    /\ run'[t] \in {"forget", "ended"} => c2s'[t] \in {"read", "done"}
  BY Zenon DEF InHand
<1>0. /\ c2s[t] \in {"write", "capture"} => hand[t] = sconn[t]
      /\ run[t] \in {"forget", "ended"} => c2s[t] \in {"read", "done"}
  BY Zenon, ExcuseGrows DEF InHand
<1> USE DEF RTypeOK, RPoolTypeOK, RFlowTypeOK
<1>1. ASSUME RelaySteps(t)
      PROVE  /\ c2s'[t] \in {"write", "capture"} => hand'[t] = sconn'[t]
             /\ run'[t] \in {"forget", "ended"} => c2s'[t] \in {"read", "done"}
  <2>1. CASE \E m \in Message : ReadMessage(t, m)
    BY Zenon, <1>0, <2>1 DEF ReadMessage
  <2>2. CASE ReadEnds(t)
    BY Zenon, <1>0, <2>2 DEF ReadEnds
  <2>3. CASE OnQuery(t)
    <3>1. run[t] = "up" /\ run' = run /\ sconn' = sconn
      <4>1. "late" \notin excuse'[t]
        BY Zenon
      <4> QED
        BY <2>3, <4>1 DEF OnQuery, Blame
    <3>2. c2s'[t] = "acquire" \/ (c2s'[t] = "write" /\ hand'[t] = sconn[t])
      BY Zenon, <2>3 DEF OnQuery
    <3> QED
      BY Zenon, <3>1, <3>2
  <2>4. CASE Acquired(t)
    <3>1. run[t] = "up" /\ run' = run
      BY <2>4 DEF Acquired
    <3>2. hand'[t] = sconn'[t]
      BY <2>4 DEF Acquired, SetServerConn
    <3> QED
      BY Zenon, <3>1, <3>2
  <2>5. CASE AcquireFails(t)
    BY Zenon, <1>0, <2>5 DEF AcquireFails, Returns
  <2>6. CASE WriteMessage(t)
    BY Zenon, <1>0, <2>6 DEF WriteMessage, Returns
  <2>7. CASE WriteFails(t) \/ Captured(t)
    BY Zenon, <1>0, <2>7 DEF WriteFails, Captured, Returns
  <2>8. CASE ServerReady(t) \/ RunEnds(t)
    BY Zenon, <1>0, <2>8 DEF ServerReady, RunEnds, c2sVars
  <2>9. CASE Disconnect(t)
    <3>1. c2s[t] \in {"read", "done"} /\ UNCHANGED c2sVars
      BY <2>9 DEF Disconnect, Blame
    <3> QED
      BY Zenon, <3>1 DEF c2sVars
  <2>10. CASE Forget(t)
    BY Zenon, <1>0, <2>10 DEF Forget, c2sVars
  <2> QED
    BY Zenon, <1>1, <2>1, <2>2, <2>3, <2>4, <2>5, <2>6, <2>7, <2>8, <2>9, <2>10 DEF RelaySteps
<1>2. ASSUME NEW s \in Session, s # t, RelaySteps(s)
      PROVE  /\ c2s'[t] \in {"write", "capture"} => hand'[t] = sconn'[t]
             /\ run'[t] \in {"forget", "ended"} => c2s'[t] \in {"read", "done"}
  BY Zenon, <1>0, <1>2, OnlyOwn
<1>3. CASE UNCHANGED <<c2sVars, run>> /\ sconn'[t] = sconn[t]
  BY Zenon, <1>0, <1>3 DEF c2sVars
<1> QED
  BY Zenon, <1>1, <1>2, <1>3, OfMonitor, RelayCases

\* In a transaction every query is routed to the primary, and finds the session there.
LEMMA OneConnStep == RTypeOK /\ InHand /\ OneConn /\ [Next]_vars => OneConn'
<1> SUFFICES ASSUME RTypeOK, InHand, OneConn, [Next]_vars, NEW t \in Session,
                    excuse'[t] \cap {"timeout", "stale", "late", "role"} = {}
             PROVE  InTxn(t)'
  BY Zenon DEF OneConn
<1>0. /\ InTxn(t)
      /\ c2s[t] \in {"write", "capture"} => hand[t] = sconn[t]
      /\ run[t] \in {"forget", "ended"} => c2s[t] \in {"read", "done"}
  BY Zenon, ExcuseGrows DEF InHand, OneConn
<1> USE DEF RTypeOK, RPoolTypeOK, RFlowTypeOK
<1>1. ASSUME RelaySteps(t) PROVE InTxn(t)'
  <2>1. CASE \E m \in Message : ReadMessage(t, m)
    BY <1>0, <2>1 DEF ReadMessage, InTxn
  <2>2. CASE ReadEnds(t)
    BY Zenon, <1>0, <2>2 DEF ReadEnds, InTxn
  <2>3. CASE OnQuery(t)
    <3>1. /\ run[t] = "up" /\ run' = run /\ sconn' = sconn /\ c2s[t] = "query"
          /\ used' = used /\ msg' = msg
      <4>1. "late" \notin excuse'[t]
        BY Zenon
      <4> QED
        BY <2>3, <4>1 DEF OnQuery, Blame
    <3>2. PICK r \in RouteQuery(msg[t], inTxn[t]) :
             \/ /\ sconn[t] \in Conn /\ RoleOf[sconn[t]] = r /\ c2s'[t] = "write" /\ Mark(t)
             \/ /\ sconn[t] = NoConn \/ (sconn[t] \in Conn /\ RoleOf[sconn[t]] # r)
                /\ c2s'[t] = "acquire" /\ role'[t] = r
      BY <2>3 DEF OnQuery
    <3>3. r = "primary" \/ (~inTxn[t] /\ msg[t] = "read" /\ r = "replica")
      BY Zenon, <3>2 DEF RouteQuery, selectReplica
    <3>4. used[t] # {} =>
             inTxn[t] /\ used[t] = {sconn[t]} /\ RoleOf[sconn[t]] = "primary" /\ sconn[t] \in Conn
      BY Zenon, <1>0, <3>1 DEF InTxn
    <3>5. CASE c2s'[t] = "acquire"
      <4>1. used[t] = {}
        BY Zenon, <3>2, <3>3, <3>4, <3>5, StrategyAssumption
      <4> QED
        BY Zenon, <3>1, <3>2, <3>3, <3>5, <4>1 DEF InTxn
    <3>6. CASE c2s'[t] = "write"
      <4>1. RoleOf[sconn[t]] = r /\ Mark(t)
        BY Zenon, <3>2, <3>6
      <4>2. /\ msg[t] = "begin" => inTxn'[t]
            /\ inTxn[t] => inTxn'[t] \/ msg[t] = "commit"
        BY Zenon, <4>1 DEF Mark
      <4>3. used[t] = {} \/ \E c \in Conn : used[t] = {c}
        BY Zenon, <1>0 DEF InTxn
      <4> QED
        BY Zenon, <3>1, <3>3, <3>4, <3>6, <4>1, <4>2, <4>3 DEF InTxn
    <3> QED
      BY Zenon, <3>2, <3>5, <3>6
  <2>4. CASE Acquired(t)
    <3>1. /\ run[t] = "up" /\ run' = run /\ c2s[t] = "acquire" /\ c2s'[t] = "write"
          /\ used' = used /\ msg' = msg
      BY <2>4 DEF Acquired
    <3>2. used[t] = {}
      BY Zenon, <1>0, <3>1 DEF InTxn
    <3>3. msg[t] = "begin" => RoleOf[sconn'[t]] = role[t]
      <4>1. PICK c \in Conn :
               /\ sconn' = [sconn EXCEPT ![t] = c]
               /\ excuse' = [excuse EXCEPT ![t] =
                    @ \cup (IF run[t] = "up" THEN {} ELSE {"late"})
                      \cup (IF msg[t] = "begin" /\ RoleOf[c] # role[t] THEN {"role"} ELSE {})]
        BY Zenon, <2>4 DEF Acquired, SetServerConn
      <4>2. "role" \notin excuse'[t] /\ sconn'[t] = c
        BY Zenon, <4>1
      <4> QED
        BY Zenon, <4>1, <4>2
    <3>4. msg[t] = "begin" => inTxn'[t]
      BY Zenon, <2>4 DEF Acquired, Mark
    <3> QED
      BY Zenon, <1>0, <3>1, <3>2, <3>3, <3>4 DEF InTxn
  <2>5. CASE AcquireFails(t)
    BY Zenon, <1>0, <2>5 DEF AcquireFails, Returns, InTxn
  <2>6. CASE WriteMessage(t)
    BY <1>0, <2>6 DEF WriteMessage, Returns, InTxn
  <2>7. CASE WriteFails(t) \/ Captured(t)
    BY <1>0, <2>7 DEF WriteFails, Captured, Returns, InTxn
  <2>8. CASE ServerReady(t)
    <3>1. ~inTxn[t] /\ inTxn' = inTxn
      BY <2>8 DEF ServerReady, Blame
    <3> QED
      BY Zenon, <1>0, <2>8, <3>1 DEF ServerReady, c2sVars, InTxn
  <2>9. CASE RunEnds(t)
    BY Zenon, <1>0, <2>9 DEF RunEnds, c2sVars, InTxn
  <2>10. CASE Disconnect(t)
    BY Zenon, <1>0, <2>10 DEF Disconnect, c2sVars, InTxn
  <2>11. CASE Forget(t)
    BY ZenonT(30), <1>0, <2>11 DEF Forget, c2sVars, InTxn
  <2> QED
    BY Zenon, <1>1, <2>1, <2>2, <2>3, <2>4, <2>5, <2>6, <2>7, <2>8, <2>9, <2>10, <2>11 DEF RelaySteps
<1>2. ASSUME NEW s \in Session, s # t, RelaySteps(s) PROVE InTxn(t)'
  <2>1. /\ c2s'[t] = c2s[t] /\ msg'[t] = msg[t] /\ used'[t] = used[t] /\ role'[t] = role[t]
        /\ inTxn'[t] = inTxn[t] /\ run'[t] = run[t] /\ sconn'[t] = sconn[t]
    BY Zenon, <1>0, <1>2, OnlyOwn
  <2> QED
    BY <1>0, <2>1 DEF InTxn
<1>3. CASE UNCHANGED <<c2sVars, inTxn, run>> /\ sconn'[t] = sconn[t]
  BY Zenon, <1>0, <1>3 DEF c2sVars, InTxn
<1> QED
  BY Zenon, <1>1, <1>2, <1>3, OfMonitor, RelayCases

\* The invariant holds of sessions in the relay.
THEOREM RelayInvariant == Spec => []RelayInv
<1>1. Init => RelayInv
  <2> SUFFICES ASSUME Init PROVE RelayInv
    BY Zenon
  <2> USE RelayAssumption, StrategyAssumption DEF Init
  <2>1. RPoolTypeOK /\ RFlowTypeOK
    BY Zenon DEF RPoolTypeOK, RFlowTypeOK, Message
  <2>2. RTxnTypeOK
    BY DEF RTxnTypeOK, Idle, NoTxn
  <2>3. Answered
    BY Zenon DEF Answered, Owns
  <2>4. Owned
    BY Zenon DEF Owned, Owns
  <2>5. InHand /\ OneConn
    BY Zenon DEF InHand, OneConn, InTxn
  <2> QED
    BY Zenon, <2>1, <2>2, <2>3, <2>4, <2>5 DEF RelayInv, RTypeOK
<1>2. RelayInv /\ [Next]_vars => RelayInv'
  BY Zenon, RPoolTypeStep, RFlowTypeStep, RTxnTypeStep, AnsweredStep, OwnedStep, InHandStep, OneConnStep
  DEF RelayInv, RTypeOK
<1> QED
  BY <1>1, <1>2, PTL DEF Spec

\* A connection is lost to the pool only through a goroutine that outlives Run, or a
\* time-out; not through a failed AcquireToRole, whatever it releases twice.
THEOREM RelayNothingLost == Spec => []NothingLost
<1>1. RelayInv => NothingLost
  BY Zenon DEF RelayInv, Answered, NothingLost
<1> QED
  BY <1>1, RelayInvariant, PTL

\* forwardClientToServer writes to, and captures from, a connection that is its own.
THEOREM RelayWriteOwned == Spec => []WriteOwned
<1>1. RelayInv => WriteOwned
  <2> SUFFICES ASSUME RelayInv, ~Blamed({"timeout", "late", "twice"}), NEW s \in Session,
                      c2s[s] \in {"write", "capture"}
               PROVE  /\ hand[s] = sconn[s] /\ hand[s] \in out /\ idle[hand[s]] = 0
                      /\ \A t \in Session \ {s} : hand[t] # hand[s]
    BY Zenon DEF WriteOwned
  <2>1. \A t \in Session : excuse[t] \cap {"timeout", "late"} = {}
    BY Zenon DEF Blamed
  <2>2. \A t \in Session : c2s[t] \in {"write", "capture"} =>
             hand[t] = sconn[t] /\ Owns(t)
    BY Zenon, <2>1 DEF RelayInv, InHand, Owns, RTypeOK, RFlowTypeOK
  <2>3. hand[s] \in out /\ idle[hand[s]] = 0
    BY Zenon, <2>2 DEF RelayInv, Owned, Owns
  <2>4. ASSUME NEW t \in Session \ {s} PROVE hand[t] # hand[s]
    <3>1. CASE c2s[t] \in {"write", "capture"}
      BY Zenon, <2>2, <3>1 DEF RelayInv, Owned
    <3>2. CASE c2s[t] \notin {"write", "capture"}
      BY Zenon, <3>2 DEF RelayInv, RTypeOK, RFlowTypeOK
    <3> QED
      BY Zenon, <3>1, <3>2
  <2> QED
    BY Zenon, <2>2, <2>3, <2>4
<1> QED
  BY <1>1, RelayInvariant, PTL

----------------------------------------------------------------------------
(***************************************************************************)
(* The two maps of PreparedStatementCache agree, and the cache is bounded, *)
(* for every set of queries and ids and every maxSize.                     *)
(***************************************************************************)

\* Every operation keeps the maps' types.
LEMMA PreparedTypeStep == PreparedTypeOK /\ [PreparedNext]_preparedVars => PreparedTypeOK'
<1> SUFFICES ASSUME PreparedTypeOK, [PreparedNext]_preparedVars PROVE PreparedTypeOK'
  BY Zenon
<1> USE DEF PreparedTypeOK
<1>1. ASSUME NEW i \in Id, NEW q \in Query, AddKnown(i, q) PROVE PreparedTypeOK'
  BY Zenon, <1>1 DEF AddKnown, Reuses
<1>2. ASSUME NEW i \in Id, NEW q \in Query, AddNew(i, q) PROVE PreparedTypeOK'
  BY Zenon, <1>2 DEF AddNew, Without, MappingWithout, Reuses
<1>3. ASSUME NEW i \in Id, RemoveID(i) PROVE PreparedTypeOK'
  BY Zenon, <1>3 DEF RemoveID
<1>4. CASE Cleanup
  BY <1>4 DEF Cleanup, Without, MappingWithout
<1>5. CASE UNCHANGED preparedVars
  BY Zenon, <1>5 DEF preparedVars
<1> QED
  BY Zenon, <1>1, <1>2, <1>3, <1>4, <1>5 DEF PreparedNext

\* The victims of an eviction are statements of the cache.
LEMMA EvictOldestCached == \A gone \in EvictOldest : gone \subseteq Cached
BY Zenon DEF EvictOldest

\* No operation leaves an id that leads to a statement which is gone or has another
\* ID: Add takes the former id of a query out of byID, and eviction and clean-up the
\* ids of what they delete.
LEMMA ByIDSoundStep ==
    PreparedTypeOK /\ ByIDSound /\ [PreparedNext]_preparedVars => ByIDSound'
<1> SUFFICES ASSUME PreparedTypeOK, ByIDSound, [PreparedNext]_preparedVars,
                    NEW j \in Id, byID'[j] # NoQuery
             PROVE  statements'[byID'[j]] = j
  BY Zenon DEF ByIDSound
<1> USE PreparedAssumption DEF PreparedTypeOK, ByIDSound
<1>1. ASSUME NEW i \in Id, NEW q \in Query, AddKnown(i, q) PROVE statements'[byID'[j]] = j
  BY Zenon, <1>1 DEF AddKnown, Cached
<1>2. ASSUME NEW i \in Id, NEW q \in Query, AddNew(i, q) PROVE statements'[byID'[j]] = j
  <2>1. PICK gone \in EvictOldest : /\ byID' = [MappingWithout(gone) EXCEPT ![i] = q]
                                    /\ statements' = [Without(gone) EXCEPT ![q] = i]
    BY Zenon, <1>2 DEF AddNew
  <2>2. CASE j = i
    BY Zenon, <2>1, <2>2 DEF MappingWithout, Without
  <2>3. CASE j # i
    <3>1. byID'[j] = byID[j] /\ ~(\E p \in gone : statements[p] = j)
      BY Zenon, <2>1, <2>3 DEF MappingWithout
    <3>2. byID[j] \in Query /\ statements[byID[j]] = j /\ byID[j] \notin gone /\ byID[j] # q
      BY Zenon, <1>2, <3>1 DEF AddNew, Cached
    <3> QED
      BY Zenon, <2>1, <3>1, <3>2 DEF Without
  <2> QED
    BY Zenon, <2>2, <2>3
<1>3. ASSUME NEW i \in Id, RemoveID(i) PROVE statements'[byID'[j]] = j
  BY Zenon, <1>3 DEF RemoveID
<1>4. CASE Cleanup
  BY <1>4 DEF Cleanup, Without, MappingWithout
<1>5. CASE UNCHANGED preparedVars
  BY Zenon, <1>5 DEF preparedVars
<1> QED
  BY Zenon, <1>1, <1>2, <1>3, <1>4, <1>5 DEF PreparedNext

\* While no id has been given to a second query, every operation leaves each statement
\* under its ID.
LEMMA ByIDCompleteStep ==
    PreparedTypeOK /\ ByIDComplete /\ [PreparedNext]_preparedVars => ByIDComplete'
<1> SUFFICES ASSUME PreparedTypeOK, ByIDComplete, [PreparedNext]_preparedVars,
                    ~reused', NEW p \in Query, statements'[p] # NoId
             PROVE  byID'[statements'[p]] = p
  BY Zenon DEF ByIDComplete, Cached
<1> USE PreparedAssumption DEF PreparedTypeOK
<1>0. ASSUME ~reused PROVE \A q \in Query : statements[q] # NoId => byID[statements[q]] = q
  BY Zenon, <1>0 DEF ByIDComplete, Cached
<1>1. ASSUME NEW i \in Id, NEW q \in Query, AddKnown(i, q) PROVE byID'[statements'[p]] = p
  <2>1. ~reused /\ ~Reuses(i, q)
    BY Zenon, <1>1 DEF AddKnown
  <2> QED
    BY Zenon, <1>0, <1>1, <2>1 DEF AddKnown, Reuses, Cached
<1>2. ASSUME NEW i \in Id, NEW q \in Query, AddNew(i, q) PROVE byID'[statements'[p]] = p
  <2>1. ~reused /\ ~Reuses(i, q)
    BY Zenon, <1>2 DEF AddNew
  <2>2. PICK gone \in EvictOldest : /\ byID' = [MappingWithout(gone) EXCEPT ![i] = q]
                                    /\ statements' = [Without(gone) EXCEPT ![q] = i]
    BY Zenon, <1>2 DEF AddNew
  <2>3. gone \subseteq Cached
    BY Zenon, EvictOldestCached
  <2>4. CASE p = q
    BY Zenon, <2>2, <2>4 DEF Without, MappingWithout
  <2>5. CASE p # q
    <3>1. statements'[p] = statements[p] /\ p \notin gone /\ statements[p] \in Id
      BY Zenon, <2>2, <2>5 DEF Without
    <3>2. byID[statements[p]] = p /\ statements[p] # i
      BY Zenon, <1>0, <2>1, <2>5, <3>1 DEF Reuses, Cached
    <3>3. ~(\E r \in gone : statements[r] = statements[p])
      BY Zenon, <1>0, <2>1, <2>3, <3>1, <3>2 DEF Cached
    <3> QED
      BY Zenon, <2>2, <3>1, <3>2, <3>3 DEF MappingWithout
  <2> QED
    BY Zenon, <2>4, <2>5
<1>3. ASSUME NEW i \in Id, RemoveID(i) PROVE byID'[statements'[p]] = p
  BY Zenon, <1>0, <1>3 DEF RemoveID
<1>4. CASE Cleanup
  <2>1. PICK gone \in SUBSET Cached : /\ statements' = Without(gone)
                                      /\ byID' = MappingWithout(gone)
                                      /\ reused' = reused
    BY Zenon, <1>4 DEF Cleanup
  <2>2. statements'[p] = statements[p] /\ p \notin gone /\ statements[p] \in Id
    BY Zenon, <2>1 DEF Without
  <2>3. ~(\E r \in gone : statements[r] = statements[p])
    BY <1>0, <2>1, <2>2 DEF Cached
  <2> QED
    BY Zenon, <1>0, <2>1, <2>2, <2>3 DEF MappingWithout
<1>5. CASE UNCHANGED preparedVars
  BY Zenon, <1>0, <1>5 DEF preparedVars
<1> QED
  BY Zenon, <1>1, <1>2, <1>3, <1>4, <1>5 DEF PreparedNext

----------------------------------------------------------------------------
(* How many connections, and how many statements *)

FS == INSTANCE FiniteSetTheorems

\* The library's theorems are about the same finite sets and the same cardinality.
LEMMA SameSize ==
    /\ \A S : FS!IsFiniteSet(S) <=> IsFiniteSet(S)
    /\ \A S : FS!Cardinality(S) = Cardinality(S)
<1>1. \A S : FS!IsFiniteSet(S) <=> IsFiniteSet(S)
  BY Zenon DEF IsFiniteSet, FS!IsFiniteSet
<1>2. \A S : FS!Cardinality(S) = Cardinality(S)
  BY Zenon DEF Cardinality, FS!Cardinality, IsFiniteSet, FS!IsFiniteSet
<1> QED
  BY Zenon, <1>1, <1>2

\* The empty set has no elements.
LEMMA EmptySize == Cardinality({}) = 0
BY Zenon, SameSize, FS!FS_EmptySet

\* The size of a finite set is a number.
LEMMA SizeType == \A S : IsFiniteSet(S) => Cardinality(S) \in Nat
BY Zenon, SameSize, FS!FS_CardinalityType

\* A part of a finite set is finite and not larger.
LEMMA SizeOfPart ==
    \A S : IsFiniteSet(S) =>
        \A T \in SUBSET S : IsFiniteSet(T) /\ Cardinality(T) <= Cardinality(S)
<1> SUFFICES ASSUME NEW S, IsFiniteSet(S), NEW T \in SUBSET S
             PROVE  IsFiniteSet(T) /\ Cardinality(T) <= Cardinality(S)
  BY Zenon
<1>1. FS!IsFiniteSet(T) /\ FS!Cardinality(T) <= FS!Cardinality(S)
  BY Zenon, SameSize, FS!FS_Subset
<1> QED
  BY Zenon, <1>1, SameSize

\* With one more element it is larger by one.
LEMMA SizeWith ==
    \A S : IsFiniteSet(S) => \A x : x \notin S => Cardinality(S \cup {x}) = Cardinality(S) + 1
BY Zenon, SameSize, FS!FS_AddElement

\* And with one less smaller by one.
LEMMA SizeWithout ==
    \A S : IsFiniteSet(S) =>
        \A x : Cardinality(S \ {x}) = IF x \in S THEN Cardinality(S) - 1 ELSE Cardinality(S)
BY Zenon, SameSize, FS!FS_RemoveElement

\* The sizes of the sets of connections that a transaction uses.
LEMMA NoneOrOne == Cardinality({}) = 0 /\ \A c : Cardinality({c}) = 1
BY Zenon, EmptySize, SameSize, FS!FS_Singleton

\* The set of cached queries grows only in an Add of a new query, after an eviction
\* when it is full.
LEMMA PreparedBoundedStep ==
    PreparedTypeOK /\ PreparedBounded /\ [PreparedNext]_preparedVars => PreparedBounded'
<1> SUFFICES ASSUME PreparedTypeOK, PreparedBounded, [PreparedNext]_preparedVars
             PROVE  PreparedBounded'
  BY Zenon
<1> USE PreparedAssumption DEF PreparedTypeOK
<1>1. IsFiniteSet(Cached) /\ Cardinality(Cached) \in Nat /\ Cardinality(Cached) <= MaxSize
  <2>1. Cached \subseteq Query
    BY Zenon DEF Cached
  <2> QED
    BY Zenon, <2>1, SizeOfPart, SizeType DEF PreparedBounded
<1>2. ASSUME Cached' \subseteq Cached PROVE PreparedBounded'
  <2>1. Cardinality(Cached') <= Cardinality(Cached) /\ Cardinality(Cached') \in Nat
    BY Zenon, <1>1, <1>2, SizeOfPart, SizeType
  <2> QED
    BY <1>1, <2>1 DEF PreparedBounded
<1>3. ASSUME NEW i \in Id, NEW q \in Query, AddKnown(i, q) PROVE PreparedBounded'
  <2>1. Cached' \subseteq Cached
    BY Zenon, <1>3 DEF AddKnown, Cached
  <2> QED
    BY Zenon, <1>2, <2>1
<1>4. ASSUME NEW i \in Id, NEW q \in Query, AddNew(i, q) PROVE PreparedBounded'
  <2>1. PICK gone \in EvictOldest : statements' = [Without(gone) EXCEPT ![q] = i]
    BY Zenon, <1>4 DEF AddNew
  <2>2. Cached' = (Cached \ gone) \cup {q} /\ q \notin Cached \ gone
    <3>1. q \notin Cached /\ i # NoId
      BY <1>4 DEF AddNew, Cached
    <3>2. \A x \in Query : statements'[x] = IF x = q THEN i ELSE Without(gone)[x]
      BY <2>1 DEF Without
    <3>3. \A x \in Query : x \in Cached' <=> x = q \/ (x \in Cached /\ x \notin gone)
      BY <3>1, <3>2 DEF Cached, Without
    <3> QED
      BY <3>1, <3>3 DEF Cached
  <2>3. IsFiniteSet(Cached \ gone) /\ Cardinality(Cached \ gone) \in Nat
    BY Zenon, <1>1, SizeOfPart, SizeType
  <2>4. Cardinality(Cached') = Cardinality(Cached \ gone) + 1
    BY Zenon, <2>2, <2>3, SizeWith
  <2>5. Cardinality(Cached \ gone) < MaxSize
    <3>1. CASE Cardinality(Cached) >= MaxSize
      <4>1. PICK v \in Cached : gone = {v}
        BY Zenon, <3>1 DEF EvictOldest
      <4>2. Cardinality(Cached \ {v}) = Cardinality(Cached) - 1
        BY Zenon, <1>1, SizeWithout
      <4> QED
        BY <1>1, <4>1, <4>2
    <3>2. CASE ~(Cardinality(Cached) >= MaxSize)
      <4>1. gone = {}
        BY Zenon, <3>2 DEF EvictOldest
      <4>2. Cached \ gone = Cached
        BY Zenon, <4>1
      <4> QED
        BY <1>1, <3>2, <4>2
    <3> QED
      BY Zenon, <3>1, <3>2
  <2> QED
    BY <2>3, <2>4, <2>5 DEF PreparedBounded
<1>5. ASSUME NEW i \in Id, RemoveID(i) PROVE PreparedBounded'
  <2>1. Cached' \subseteq Cached
    BY Zenon, <1>5 DEF RemoveID, Cached
  <2> QED
    BY Zenon, <1>2, <2>1
<1>6. CASE Cleanup
  <2>1. Cached' \subseteq Cached
    BY Zenon, <1>6 DEF Cleanup, Cached, Without
  <2> QED
    BY Zenon, <1>2, <2>1
<1>7. CASE UNCHANGED preparedVars
  <2>1. Cached' \subseteq Cached
    BY Zenon, <1>7 DEF preparedVars, Cached
  <2> QED
    BY Zenon, <1>2, <2>1
<1> QED
  BY Zenon, <1>3, <1>4, <1>5, <1>6, <1>7 DEF PreparedNext

\* In the empty cache everything holds.
LEMMA PreparedInitOK ==
    PreparedInit => PreparedTypeOK /\ ByIDSound /\ ByIDComplete /\ PreparedBounded
<1> SUFFICES ASSUME PreparedInit
             PROVE  PreparedTypeOK /\ ByIDSound /\ ByIDComplete /\ PreparedBounded
  BY Zenon
<1>1. Cached = {}
  BY Zenon DEF PreparedInit, Cached
<1>2. PreparedBounded
  BY <1>1, EmptySize, PreparedAssumption DEF PreparedBounded
<1> QED
  BY Zenon, <1>1, <1>2 DEF PreparedInit, PreparedTypeOK, ByIDSound, ByIDComplete

\* The three invariants of the prepared-statement cache hold in every behaviour: GetByID
\* never leads to a statement that is gone or has another ID; every statement is found
\* under its ID while no id is reused; and at most maxSize statements are kept.
THEOREM PreparedCorrect == PreparedSpec => [](ByIDSound /\ ByIDComplete /\ PreparedBounded)
<1> DEFINE IInv == PreparedTypeOK /\ ByIDSound /\ ByIDComplete /\ PreparedBounded
<1>1. PreparedInit => IInv
  BY Zenon, PreparedInitOK
<1>2. IInv /\ [PreparedNext]_preparedVars => IInv'
  BY Zenon, PreparedTypeStep, ByIDSoundStep, ByIDCompleteStep, PreparedBoundedStep
<1>3. IInv => ByIDSound /\ ByIDComplete /\ PreparedBounded
  BY Zenon
<1> QED
  BY <1>1, <1>2, <1>3, PTL DEF PreparedSpec

\* In transaction mode the statements of a transaction go to one connection, which no
\* other session has, however the sessions' messages interleave (HandleMessage).
THEOREM SessionPinned == PSSpec => []PinnedInTxn
<1>1. PSInv => PinnedInTxn
  <2> SUFFICES ASSUME PSInv, mode = "transaction", NEW s \in Session, ~failed[s], open[s]
               PROVE  /\ Cardinality(pinned[s]) <= 1
                      /\ pinned[s] # {} => pinned[s] = {sconn[s]} /\ sconn[s] \in out
                      /\ \A t \in Session \ {s} : sconn[t] \notin pinned[s]
    BY Zenon DEF PinnedInTxn
  <2>1. pinned[s] = {} \/ (pinned[s] = {sconn[s]} /\ sconn[s] # NoConn)
    BY Zenon DEF PSInv, HeldInTxn
  <2>2. Cardinality(pinned[s]) <= 1
    <3>1. Cardinality({}) = 0 /\ Cardinality({sconn[s]}) = 1
      BY Zenon, NoneOrOne
    <3> QED
      BY <2>1, <3>1
  <2>3. sconn[s] # NoConn => sconn[s] \in out
    BY Zenon DEF PSInv, Exclusive, Holding
  <2>4. \A t \in Session \ {s} : sconn[t] \notin pinned[s]
    BY Zenon, <2>1 DEF PSInv, Exclusive
  <2> QED
    BY Zenon, <2>1, <2>2, <2>3, <2>4
<1> QED
  BY <1>1, PSInvariant, PTL

\* The statements of a transaction are written to one connection, with reads split off
\* to replicas outside of it (RouteQuery), for any sequence of messages.
THEOREM RelayTxnOneConn == Spec => []TxnOneConn
<1>1. RelayInv => TxnOneConn
  <2> SUFFICES ASSUME RelayInv, NEW s \in Session,
                      excuse[s] \cap {"timeout", "stale", "late", "role"} = {}
               PROVE  Cardinality(used[s]) <= 1
    BY Zenon DEF TxnOneConn
  <2>1. used[s] = {} \/ \E c \in Conn : used[s] = {c}
    BY Zenon DEF RelayInv, OneConn, InTxn
  <2>2. Cardinality(used[s]) \in {0, 1}
    BY Zenon, <2>1, NoneOrOne
  <2> QED
    BY <2>2
<1> QED
  BY <1>1, RelayInvariant, PTL
=============================================================================
