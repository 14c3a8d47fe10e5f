-------------------------------- MODULE Raft --------------------------------
(***************************************************************************)
(* The consensus node of internal/raft: elections, replication, commit and *)
(* application of entries, the write-ahead log and restarts.               *)
(*                                                                         *)
(* The run goroutine handles one message or time-out at a time, so each is *)
(* one action.  Propose is called from the coordinator's goroutine and     *)
(* sendHeartbeats from a ticker's: they test the state first and read the  *)
(* term and the log later, so they are split there; and Propose, which     *)
(* sends entries, wherever it reads the log again for a request.  Every    *)
(* message goes over a connection of its own: messages are lost and        *)
(* overtake each other but are not duplicated.  Responses are dialled at   *)
(* the sender's node id, so a node id here is the node's Raft address.     *)
(* Snapshots, the state machine and torn files are in RaftStorage.         *)
(***************************************************************************)
EXTENDS Integers, Sequences, FiniteSets, Functions, Lists

CONSTANTS
    Node,         \* the node ids
    Nil,          \* no vote
    MaxTerm,      \* bound: no election beyond this term
    MaxLog,       \* bound: no proposal beyond this index
    ApplyCap,     \* capacity of applyCh (100)
    MaxRestarts,  \* bound: restarts of nodes
    MaxMsgs,      \* bound: messages on their way
    MaxBeats,     \* bound: rounds of heartbeats
    MaxFaults     \* bound: nodes with a failing disk; 0 also excludes failed syncs

ASSUME RaftAssumption ==
    /\ IsFiniteSet(Node) /\ Nil \notin Node
    /\ {MaxTerm, MaxLog, ApplyCap, MaxRestarts, MaxMsgs, MaxBeats, MaxFaults}
         \subseteq Nat

VARIABLES
    state, currentTerm, votedFor, votesReceived,
    logEntries,            \* sequence of [term, index]
    wal,                   \* the entries on disk
    lost,                  \* entries whose write failed
    commitIndex, lastApplied, nextIndex, matchIndex,
    applyCh,               \* entries waiting for ApplyCommitted
    proposing,             \* where Propose is: "no", "checked", "logged" or "sending"
    proposed,              \* the entry Propose has logged and not yet persisted
    sendTo,                \* the peers Propose has still to send to
    sendLast,              \* the last index when it began to send
    request,               \* the request it is building for a peer
    beating,               \* sendHeartbeats has seen that it is the leader
    msgs,                  \* messages sent and not yet handled
    restarts, beats,       \* counted for the bounds
    elections,             \* history: who has become the leader of which term
    strayed,               \* history: a vote of an earlier term was counted, or a node
                           \* that was no longer the leader went on as if it were
    torn                   \* history: the log was replaced while a request was built, so
                           \* that prevTerm is not of the entry before its entries

electionVars == <<state, currentTerm, votedFor, votesReceived, elections>>
leaderVars == <<nextIndex, matchIndex>>
logVars == <<logEntries, wal, lost>>
applyVars == <<commitIndex, lastApplied, applyCh>>
proposeVars == <<proposing, proposed, sendTo, sendLast, request>>
taskVars == <<proposeVars, beating, beats>>
pastVars == <<restarts, strayed, torn>>
rvars == <<electionVars, leaderVars, logVars, applyVars, taskVars, msgs, pastVars>>

Peers(n) == Node \ {n}
NoEntry == [term |-> 0, index |-> 0]
NoRequest == [stage |-> "none", to |-> Nil, next |-> 0, prevTerm |-> 0, entries |-> <<>>]

\* sendMessage for each of new, after done was taken: any of them may fail.
Send(done, new) ==
    \E sent \in SUBSET new :
        /\ msgs' = (msgs \ done) \cup sent
        /\ Cardinality(msgs') <= MaxMsgs

RaftInit ==
    /\ state = [n \in Node |-> "follower"]
    /\ currentTerm = [n \in Node |-> 0]
    /\ votedFor = [n \in Node |-> Nil]
    /\ votesReceived = [n \in Node |-> {}]
    /\ logEntries = [n \in Node |-> <<>>] /\ wal = [n \in Node |-> <<>>]
    /\ lost = [n \in Node |-> {}]
    /\ commitIndex = [n \in Node |-> 0] /\ lastApplied = [n \in Node |-> 0]
    /\ nextIndex = [n \in Node |-> [p \in Node |-> 0]]
    /\ matchIndex = [n \in Node |-> [p \in Node |-> 0]]
    /\ applyCh = [n \in Node |-> <<>>]
    /\ proposing = [n \in Node |-> "no"] /\ proposed = [n \in Node |-> NoEntry]
    /\ sendTo = [n \in Node |-> {}] /\ sendLast = [n \in Node |-> 0]
    /\ request = [n \in Node |-> NoRequest] /\ beating = [n \in Node |-> FALSE]
    /\ msgs = {}
    /\ restarts = 0 /\ beats = 0
    /\ elections = {} /\ strayed = FALSE /\ torn = FALSE

----------------------------------------------------------------------------
(* The log *)

LastIndex(l) == IF l = <<>> THEN 0 ELSE l[Len(l)].index
LastTerm(l) == IF l = <<>> THEN 0 ELSE l[Len(l)].term

\* Mutant: the previous entry is not looked up.
hasLogEntryAlways(l, index, term) == TRUE

hasLogEntry(l, index, term) == \E i \in DOMAIN l : l[i].index = index /\ l[i].term = term

\* The places of an index in a log, of which the loops of the code take the first.
Places(l, index) == {i \in DOMAIN l : l[i].index = index}
First(places) == CHOOSE i \in places : \A j \in places : i <= j

\* The term of the first entry with this index, 0 if there is none.
TermAt(l, index) ==
    IF Places(l, index) = {} THEN 0 ELSE l[First(Places(l, index))].term

\* appendEntry: the log cut at a conflicting entry, unchanged when the entry is
\* there.
appendEntry(l, e) ==
    LET i == First(Places(l, e.index))
    IN  IF Places(l, e.index) = {} THEN Append(l, e)
        ELSE IF l[i].term # e.term THEN Append(SubSeq(l, 1, i - 1), e) ELSE l

\* Mutant: an entry that replaces another is not reported as new.
AppendNextExtending(acc, e) ==
    LET next == appendEntry(acc.log, e)
    IN  [log |-> next, new |-> IF Len(next) = Len(acc.log) THEN acc.new ELSE Append(acc.new, e)]

\* One round of the loop: the log, and the entries so far for which appendEntry
\* returned true.
AppendNext(acc, e) ==
    LET next == appendEntry(acc.log, e)
    IN  [log |-> next, new |-> IF next = acc.log THEN acc.new ELSE Append(acc.new, e)]

\* The log after appendEntry for each entry, and the entries that were new.
AppendAll(l, entries) ==
    LET after[i \in 0..Len(entries)] ==
            IF i = 0 THEN [log |-> l, new |-> <<>>] ELSE AppendNext(after[i - 1], entries[i])
    IN  after[Len(entries)]

\* The entries with an index from next to last, in the order of the log.
EntriesBetween(l, next, last) == Only(l, {e \in Range(l) : e.index >= next /\ e.index <= last})

\* WAL.Append and AppendBatch.  The buffered writer keeps its error: after a
\* failed write all later ones fail.  A failed sync reports an error for entries
\* that are in the file.
Persist(n, entries, ok) ==
    \/ /\ entries = <<>> /\ ok
       /\ UNCHANGED <<wal, lost>>
    \/ /\ entries # <<>> /\ lost[n] = {} /\ (ok \/ MaxFaults > 0)
       /\ wal' = [wal EXCEPT ![n] = @ \o entries]
       /\ UNCHANGED lost
    \/ /\ entries # <<>> /\ ~ok
       /\ lost[n] # {} \/ Cardinality({p \in Node : lost[p] # {}}) < MaxFaults
       /\ lost' = [lost EXCEPT ![n] = @ \cup Range(entries)]
       /\ UNCHANGED wal

\* sendCommittedToApply for node n with log l and commit index c: entries above
\* lastApplied, even if they are in the channel already; dropped when it is full.
Committed(n, l, c) ==
    LET due == SelectSeq(l, LAMBDA e : e.index > lastApplied[n] /\ e.index <= c)
        room == ApplyCap - Len(applyCh[n])
    IN  applyCh[n] \o SubSeq(due, 1, IF room < Len(due) THEN room ELSE Len(due))

----------------------------------------------------------------------------
(* Elections *)

\* onElectionTimeout, becomeCandidate
onElectionTimeout(n) ==
    /\ state[n] # "leader"
    /\ currentTerm[n] < MaxTerm
    /\ state' = [state EXCEPT ![n] = "candidate"]
    /\ currentTerm' = [currentTerm EXCEPT ![n] = @ + 1]
    /\ votedFor' = [votedFor EXCEPT ![n] = n]
    /\ votesReceived' = [votesReceived EXCEPT ![n] = {}]
    /\ UNCHANGED elections
    /\ Send({}, {[type |-> "voteRequest", from |-> n, to |-> p, term |-> currentTerm[n] + 1,
                  lastIndex |-> LastIndex(logEntries[n]),
                  lastTerm |-> LastTerm(logEntries[n])] : p \in Peers(n)})
    /\ UNCHANGED <<leaderVars, logVars, applyVars, taskVars, pastVars>>

\* The state of the receiver when the handler proper begins: handleMessage calls
\* becomeFollower for a higher term.
Newer(m) == m.term > currentTerm[m.to]
TermNow(m) == IF Newer(m) THEN m.term ELSE currentTerm[m.to]
StateNow(m) == IF Newer(m) THEN "follower" ELSE state[m.to]

\* Mutant: becomeFollower is called for any term.
VoteNowForgotten(m) == Nil

VoteNow(m) == IF Newer(m) THEN Nil ELSE votedFor[m.to]
VotesNow(m) == IF Newer(m) THEN {} ELSE votesReceived[m.to]

Becomes(m, st, vote, votes) ==
    /\ currentTerm' = [currentTerm EXCEPT ![m.to] = TermNow(m)]
    /\ state' = [state EXCEPT ![m.to] = st]
    /\ votedFor' = [votedFor EXCEPT ![m.to] = vote]
    /\ votesReceived' = [votesReceived EXCEPT ![m.to] = votes]
    /\ elections' = elections \cup {e \in {[node |-> m.to, term |-> TermNow(m)]} : st = "leader"}

Stays(m) == Becomes(m, StateNow(m), VoteNow(m), VotesNow(m))
Reply(m, reply) == Send({m}, {reply})

handleVoteRequest(m) ==
    LET l == logEntries[m.to]
        granted == /\ m.term >= TermNow(m)
                   /\ VoteNow(m) \in {Nil, m.from}
                   /\ \/ m.lastTerm > LastTerm(l)
                      \/ m.lastTerm = LastTerm(l) /\ m.lastIndex >= LastIndex(l)
    IN
    /\ m.type = "voteRequest"
    /\ Becomes(m, StateNow(m), IF granted THEN m.from ELSE VoteNow(m), VotesNow(m))
    /\ Reply(m, [type |-> "voteResponse", from |-> m.to, to |-> m.from,
                 term |-> TermNow(m), granted |-> granted])
    /\ UNCHANGED <<leaderVars, logVars, applyVars, taskVars, pastVars>>

Majority(votes) == Cardinality(votes) + 1 > Cardinality(Node) \div 2

\* The response's term is compared with the node's only to step down: a vote for
\* an earlier candidacy counts.
handleVoteResponse(m) ==
    LET n == m.to
        counts == StateNow(m) = "candidate" /\ m.granted
        votes == IF counts THEN VotesNow(m) \cup {m.from} ELSE VotesNow(m)
        wins == counts /\ Majority(votes)
    IN
    /\ m.type = "voteResponse"
    /\ Becomes(m, IF wins THEN "leader" ELSE StateNow(m), VoteNow(m), votes)
    /\ IF wins
       THEN /\ nextIndex' = [nextIndex EXCEPT ![n] = [p \in Node |-> LastIndex(logEntries[n]) + 1]]
            /\ matchIndex' = [matchIndex EXCEPT ![n] = [p \in Node |-> 0]]
       ELSE UNCHANGED leaderVars
    /\ msgs' = msgs \ {m}
    /\ strayed' = (strayed \/ (counts /\ m.term # TermNow(m)))
    /\ UNCHANGED <<logVars, applyVars, taskVars, restarts, torn>>

----------------------------------------------------------------------------
(* Replication *)

handleAppendEntries(m) ==
    LET n == m.to
        current == m.term >= TermNow(m)
        success == current /\ (m.prevIndex = 0 \/ hasLogEntry(logEntries[n], m.prevIndex, m.prevTerm))
        after == IF success THEN AppendAll(logEntries[n], m.entries)
                 ELSE [log |-> logEntries[n], new |-> <<>>]
        commits == success /\ m.commit > commitIndex[n]
        last == LastIndex(after.log)
        commit == IF m.commit > last THEN last ELSE m.commit
    IN
    /\ m.type = "append"
    /\ Becomes(m, StateNow(m), IF current THEN m.from ELSE VoteNow(m), VotesNow(m))
    /\ logEntries' = [logEntries EXCEPT ![n] = after.log]
    /\ \E ok \in BOOLEAN : Persist(n, after.new, ok)
    /\ commitIndex' = [commitIndex EXCEPT ![n] = IF commits THEN commit ELSE @]
    /\ applyCh' = [applyCh EXCEPT ![n] = IF commits THEN Committed(n, after.log, commit) ELSE @]
    /\ Reply(m, [type |-> "appendResponse", from |-> n, to |-> m.from,
                 term |-> TermNow(m), success |-> success, index |-> last])
    /\ UNCHANGED <<leaderVars, lastApplied, taskVars, pastVars>>

\* advanceCommitIndex: the highest index that a majority is believed to hold, if
\* the leader's entry there is of its term.
MajorityIndex(n, match) ==
    LET held == [p \in Node |-> IF p = n THEN LastIndex(logEntries[n]) ELSE match[p]]
        most == {held[p] : p \in {q \in Node :
                    Cardinality({r \in Node : held[r] >= held[q]}) > Cardinality(Node) \div 2}}
    IN  CHOOSE i \in most : \A j \in most : j <= i

handleAppendEntriesResponse(m) ==
    LET n == m.to
        counts == StateNow(m) = "leader"
        match == [matchIndex[n] EXCEPT ![m.from] = m.index]
        index == MajorityIndex(n, match)
        advances == /\ counts /\ m.success
                    /\ index > commitIndex[n]
                    /\ TermAt(logEntries[n], index) = TermNow(m)
    IN
    /\ m.type = "appendResponse"
    /\ Stays(m)
    /\ IF counts /\ m.success
       THEN /\ matchIndex' = [matchIndex EXCEPT ![n] = match]
            /\ nextIndex' = [nextIndex EXCEPT ![n][m.from] = m.index + 1]
       ELSE /\ nextIndex' = [nextIndex EXCEPT ![n][m.from] = IF counts /\ @ > 1 THEN @ - 1 ELSE @]
            /\ UNCHANGED matchIndex
    /\ commitIndex' = [commitIndex EXCEPT ![n] = IF advances THEN index ELSE @]
    /\ applyCh' = [applyCh EXCEPT ![n] = IF advances THEN Committed(n, logEntries[n], index) ELSE @]
    /\ msgs' = msgs \ {m}
    /\ UNCHANGED <<logVars, lastApplied, taskVars, pastVars>>

\* sendHeartbeats: the test, and the messages it sends later.
HeartbeatCheck(n) ==
    /\ state[n] = "leader" /\ ~beating[n]
    /\ beats < MaxBeats /\ beats' = beats + 1
    /\ beating' = [beating EXCEPT ![n] = TRUE]
    /\ UNCHANGED <<electionVars, leaderVars, logVars, applyVars, proposeVars, msgs, pastVars>>

\* State and term are not looked at again where they are used.
Strays(n) == strayed' = (strayed \/ state[n] # "leader")

AppendMsg(n, p, prev, prevTerm, entries) ==
    [type |-> "append", from |-> n, to |-> p, term |-> currentTerm[n], prevIndex |-> prev,
     prevTerm |-> prevTerm, entries |-> entries, commit |-> commitIndex[n]]

HeartbeatSend(n) ==
    LET l == logEntries[n] IN
    /\ beating[n]
    /\ beating' = [beating EXCEPT ![n] = FALSE]
    /\ Send({}, {AppendMsg(n, p, LastIndex(l), LastTerm(l), <<>>) : p \in Peers(n)})
    /\ Strays(n)
    /\ UNCHANGED <<electionVars, leaderVars, logVars, applyVars, proposeVars, beats, restarts,
                   torn>>

\* Propose: the test, the entry in the log and on disk, the messages.
ProposeCheck(n) ==
    /\ state[n] = "leader" /\ proposing[n] = "no"
    /\ LastIndex(logEntries[n]) < MaxLog
    /\ proposing' = [proposing EXCEPT ![n] = "checked"]
    /\ UNCHANGED <<electionVars, leaderVars, logVars, applyVars, proposed, sendTo, sendLast, request, beating,
                   beats, msgs, pastVars>>

ProposeLog(n) ==
    LET e == [term |-> currentTerm[n], index |-> LastIndex(logEntries[n]) + 1] IN
    /\ proposing[n] = "checked"
    /\ proposing' = [proposing EXCEPT ![n] = "logged"]
    /\ logEntries' = [logEntries EXCEPT ![n] = Append(@, e)]
    /\ proposed' = [proposed EXCEPT ![n] = e]
    /\ Strays(n)
    /\ UNCHANGED <<electionVars, leaderVars, wal, lost, applyVars, sendTo, sendLast, request,
                   beating, beats, msgs, restarts, torn>>

\* Up to the beginning of sendAppendEntriesToAll, where it reads the last index.
ProposePersist(n) ==
    /\ proposing[n] = "logged"
    /\ \E ok \in BOOLEAN :
          /\ Persist(n, <<proposed[n]>>, ok)
          /\ proposing' = [proposing EXCEPT ![n] = IF ok /\ Peers(n) # {} THEN "sending" ELSE "no"]
          /\ sendTo' = [sendTo EXCEPT ![n] = IF ok THEN Peers(n) ELSE {}]
          /\ sendLast' = [sendLast EXCEPT ![n] = IF ok THEN LastIndex(logEntries[n]) ELSE 0]
    /\ proposed' = [proposed EXCEPT ![n] = NoEntry]
    /\ UNCHANGED <<electionVars, leaderVars, logEntries, applyVars, request, beating, beats, msgs,
                   pastVars>>

\* sendAppendEntriesToAll, for one peer: nextIndex is read, without which there is no
\* previous entry to look for when it is 1 ...
ProposeNext(n, p) ==
    LET next == nextIndex[n][p] IN
    /\ proposing[n] = "sending" /\ request[n].stage = "none" /\ p \in sendTo[n]
    /\ sendTo' = [sendTo EXCEPT ![n] = @ \ {p}]
    /\ request' = [request EXCEPT ![n] = [stage |-> IF next > 1 THEN "next" ELSE "prev", to |-> p,
                                          next |-> next, prevTerm |-> 0, entries |-> <<>>]]
    /\ UNCHANGED <<electionVars, leaderVars, logVars, applyVars, proposing, proposed, sendLast,
                   beating, beats, msgs, pastVars>>

\* ... the term before it ...
ProposePrev(n) ==
    /\ request[n].stage = "next"
    /\ request' = [request EXCEPT ![n].stage = "prev",
                                  ![n].prevTerm = TermAt(logEntries[n], request[n].next - 1)]
    /\ UNCHANGED <<electionVars, leaderVars, logVars, applyVars, proposing, proposed, sendTo,
                   sendLast, beating, beats, msgs, pastVars>>

\* ... and the entries from there, of what the log is by then ...
ProposeEntries(n) ==
    LET l == logEntries[n]
        r == request[n]
    IN
    /\ r.stage = "prev"
    /\ request' = [request EXCEPT ![n].stage = "entries",
                                  ![n].entries = EntriesBetween(l, r.next, sendLast[n])]
    /\ torn' = (torn \/ TermAt(l, r.next - 1) # r.prevTerm)
    /\ UNCHANGED <<electionVars, leaderVars, logVars, applyVars, proposing, proposed, sendTo,
                   sendLast, beating, beats, msgs, restarts, strayed>>

\* ... and they are sent with the term and the commit index of that moment.
ProposeSend(n) ==
    LET r == request[n]
        more == sendTo[n] # {}
    IN
    /\ r.stage = "entries"
    /\ request' = [request EXCEPT ![n] = NoRequest]
    /\ proposing' = [proposing EXCEPT ![n] = IF more THEN @ ELSE "no"]
    /\ sendLast' = [sendLast EXCEPT ![n] = IF more THEN @ ELSE 0]
    /\ Send({}, {AppendMsg(n, r.to, r.next - 1, r.prevTerm, r.entries)})
    /\ Strays(n)
    /\ UNCHANGED <<electionVars, leaderVars, logVars, applyVars, proposed, sendTo, beating, beats,
                   restarts, torn>>

----------------------------------------------------------------------------
(* Application and restarts *)

\* One round of ApplyCommitted: the entry goes to the FSM, of which only
\* lastApplied is kept.
ApplyCommitted(n) ==
    /\ applyCh[n] # <<>>
    /\ lastApplied' = [lastApplied EXCEPT ![n] = Head(applyCh[n]).index]
    /\ applyCh' = [applyCh EXCEPT ![n] = Tail(@)]
    /\ UNCHANGED <<electionVars, leaderVars, logVars, commitIndex, taskVars, msgs, pastVars>>

\* The process ends and NewNode starts again from the write-ahead log, which is
\* all that is kept.
Restart(n) ==
    /\ restarts < MaxRestarts
    /\ restarts' = restarts + 1
    /\ state' = [state EXCEPT ![n] = "follower"]
    /\ currentTerm' = [currentTerm EXCEPT ![n] = 0]
    /\ votedFor' = [votedFor EXCEPT ![n] = Nil]
    /\ votesReceived' = [votesReceived EXCEPT ![n] = {}]
    /\ logEntries' = [logEntries EXCEPT ![n] = wal[n]]
    /\ lost' = [lost EXCEPT ![n] = {}]
    /\ commitIndex' = [commitIndex EXCEPT ![n] = 0]
    /\ lastApplied' = [lastApplied EXCEPT ![n] = 0]
    /\ nextIndex' = [nextIndex EXCEPT ![n] = [p \in Node |-> 0]]
    /\ matchIndex' = [matchIndex EXCEPT ![n] = [p \in Node |-> 0]]
    /\ applyCh' = [applyCh EXCEPT ![n] = <<>>]
    /\ proposing' = [proposing EXCEPT ![n] = "no"]
    /\ proposed' = [proposed EXCEPT ![n] = NoEntry]
    /\ sendTo' = [sendTo EXCEPT ![n] = {}]
    /\ sendLast' = [sendLast EXCEPT ![n] = 0]
    /\ request' = [request EXCEPT ![n] = NoRequest]
    /\ beating' = [beating EXCEPT ![n] = FALSE]
    /\ UNCHANGED <<wal, beats, msgs, elections, strayed, torn>>

handleMessage(m) == \/ handleVoteRequest(m) \/ handleVoteResponse(m)
                    \/ handleAppendEntries(m) \/ handleAppendEntriesResponse(m)

RaftNext ==
    \/ \E n \in Node : \/ onElectionTimeout(n)
                       \/ HeartbeatCheck(n) \/ HeartbeatSend(n)
                       \/ ProposeCheck(n) \/ ProposeLog(n)
                       \/ ProposePersist(n) \/ \E p \in Node : ProposeNext(n, p)
                       \/ ProposePrev(n) \/ ProposeEntries(n) \/ ProposeSend(n)
                       \/ ApplyCommitted(n) \/ Restart(n)
    \/ \E m \in msgs : handleMessage(m)

RaftSpec == RaftInit /\ [][RaftNext]_rvars

----------------------------------------------------------------------------
\* Type invariant.
RaftTypeOK ==
    /\ state \in [Node -> {"follower", "candidate", "leader"}]
    /\ currentTerm \in [Node -> 0..MaxTerm]
    /\ votedFor \in [Node -> Node \cup {Nil}]
    /\ votesReceived \in [Node -> SUBSET Node]
    /\ \A n \in Node : commitIndex[n] \in Nat /\ lastApplied[n] \in Nat

\* With no restart, the log of a node has every index once and in order, and its
\* terms never decrease along it nor exceed the node's term, although entries
\* come from Propose and from several leaders in any order, deposed ones that go on
\* included: unless the log of one was replaced between its reads for a request.
LogOrdered ==
    restarts = 0 /\ ~torn =>
        \A n \in Node :
            LET l == logEntries[n] IN
            /\ \A i \in DOMAIN l : l[i].index = i /\ l[i].term <= currentTerm[n]
            /\ \A i, j \in DOMAIN l : i <= j => l[i].term <= l[j].term

\* A restart loses no entry of a node's log but one that Propose is about to
\* write or whose write failed: whatever leaders replaced or appended, before or
\* after other restarts, is on disk.
Durable ==
    \A n \in Node : \A i \in DOMAIN logEntries[n] :
        logEntries[n][i] \in Range(wal[n]) \cup lost[n] \cup {proposed[n]}

\* Two logs with the same entry at one place are the same up to there.
LogMatching ==
    \A n, p \in Node : \A i \in DOMAIN logEntries[n] \cap DOMAIN logEntries[p] :
        logEntries[n][i] = logEntries[p][i] =>
            \A j \in 1..i : logEntries[n][j] = logEntries[p][j]

\* Until a node restarts, counts a late vote or goes on as the leader it no longer is, a
\* term has one leader at most, now and in the past, although a request makes its
\* receiver forget for whom it voted; and the logs of all nodes match, unless a log was
\* replaced between the reads for a request.
LeadersAgree ==
    restarts = 0 /\ ~strayed =>
        /\ \A a, b \in elections : a.term = b.term => a.node = b.node
        /\ ~torn => LogMatching

\* "Single leader for writes" (ARCHITECTURE.md): no two leaders in one term.
ElectionSafety ==
    \A n, p \in Node : state[n] = "leader" /\ state[p] = "leader" /\ n # p
                          => currentTerm[n] # currentTerm[p]
=============================================================================
